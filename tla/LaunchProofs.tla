---------------------------- MODULE LaunchProofs ----------------------------
(***************************************************************************)
(* What Launch promises, for any number of launches, addresses and tasks.  *)
(*                                                                         *)
(* The argument: a running broker listens on its address, also one that a  *)
(* failed start has left to itself (Places), and no two processes listen   *)
(* on one (PortIsLock); so, as long as nothing has run beside it, the only *)
(* workers there are belong to the one broker that runs (Alone), and what  *)
(* is marked running is in their hands.  A key is made only where there    *)
(* was none (KeyIsOne), so that whoever serves serves with the key on the  *)
(* disk.                                                                   *)
(***************************************************************************)
EXTENDS Launch, TLAPS

-----------------------------------------------------------------------------
(* The inductive invariant *)

Serving(l) == pc(l) \in {"start", "web", "up"}

Works(l) == \E m \in Mode : worker[l][m] # "none"

Active(l) == run(l) # "none" \/ Works(l)

\* What a process has at each place in its program.
Places ==
    \A l \in Launches :
        /\ Serving(l) => run(l) = mode(l)
        /\ run(l) # "none" => bound(l) = run(l)
        /\ ~Alive(l) => run(l) = "none" /\ bound(l) = "none" /\ ~Works(l)

\* No two processes listen on one address.
PortIsLock ==
    \A k, l \in Launches :
        bound(k) # "none" /\ bound(l) # "none" /\ proc[k].addr = proc[l].addr => k = l

\* Who has a key has the one on the disk; who makes one found none.
KeyIsOne ==
    \A l \in Launches :
        /\ pc(l) \in {"bind", "start", "web", "up"} \/ run(l) # "none" =>
             proc[l].key # Nobody /\ (proc[l].key = key \/ raced)
        /\ pc(l) = "newkey" => key = Nobody \/ raced

\* As long as no broker has started beside another one.
Alone ==
    /\ \A k, l \in Launches : Active(k) /\ Active(l) => k = l
    /\ \A l \in Launches : \A m, n \in Mode :
         worker[l][m] # "none" /\ worker[l][n] # "none" => m = n
    /\ \A l \in Launches : \A m \in Mode :
         worker[l][m] # "none" => run(l) \in {"none", m} /\ pc(l) # "start"
    /\ \A l \in Launches : \A t \in Task :
         pc(l) \in {"web", "up"} /\ status[t] = "running" => \E m \in Mode : worker[l][m] = t
    /\ \A l \in Launches :
         pc(l) = "up" /\ mode(l) = "tray" => url = l \/ faults > 0

LaunchInv == TypeOK /\ Places /\ PortIsLock /\ KeyIsOne /\ (shared \/ Alone)

-----------------------------------------------------------------------------
(* Facts about single steps *)


Place == {"none", "key", "newkey", "bind", "start", "web", "up",
          "stopping", "quitting", "busy", "failed", "gone", "killed"}

\* The state of a process with these fields.
Shape(r, p, m, a, i, u, b) ==
    /\ r \in ProcState
    /\ r.pc = p /\ r.mode = m /\ r.addr = a /\ r.key = i /\ r.run = u /\ r.bound = b

\* An update of a field keeps the type and the other fields.
LEMMA PcUpdate ==
    ASSUME NEW s \in ProcState, NEW v \in Place
    PROVE  Shape([s EXCEPT !.pc = v], v, s.mode, s.addr, s.key, s.run, s.bound)
  BY DEF ProcState, Shape, Place

LEMMA ModeUpdate ==
    ASSUME NEW s \in ProcState, NEW v \in Mode
    PROVE  Shape([s EXCEPT !.mode = v], s.pc, v, s.addr, s.key, s.run, s.bound)
  BY DEF ProcState, Shape

LEMMA AddrUpdate ==
    ASSUME NEW s \in ProcState, NEW v \in Address
    PROVE  Shape([s EXCEPT !.addr = v], s.pc, s.mode, v, s.key, s.run, s.bound)
  BY DEF ProcState, Shape

LEMMA KeyUpdate ==
    ASSUME NEW s \in ProcState, NEW v \in Launches \cup {Nobody}
    PROVE  Shape([s EXCEPT !.key = v], s.pc, s.mode, s.addr, v, s.run, s.bound)
  BY DEF ProcState, Shape

LEMMA RunUpdate ==
    ASSUME NEW s \in ProcState, NEW v \in {"none"} \cup Mode
    PROVE  Shape([s EXCEPT !.run = v], s.pc, s.mode, s.addr, s.key, v, s.bound)
  BY DEF ProcState, Shape

LEMMA BoundUpdate ==
    ASSUME NEW s \in ProcState, NEW v \in {"none"} \cup Mode
    PROVE  Shape([s EXCEPT !.bound = v], s.pc, s.mode, s.addr, s.key, s.run, v)
  BY DEF ProcState, Shape

\* Process l gets these fields, and no other process changes.
Moves(l, p, m, a, i, u, b) ==
    /\ proc' \in [Launches -> ProcState]
    /\ \A k \in Launches :
         /\ pc(k)' = (IF k = l THEN p ELSE pc(k)) /\ mode(k)' = (IF k = l THEN m ELSE mode(k))
         /\ proc'[k].addr = (IF k = l THEN a ELSE proc[k].addr)
         /\ proc'[k].key = (IF k = l THEN i ELSE proc[k].key)
         /\ run(k)' = (IF k = l THEN u ELSE run(k)) /\ bound(k)' = (IF k = l THEN b ELSE bound(k))

\* What the update of a process comes to.
LEMMA ProcUpdate ==
    ASSUME TypeOK, NEW l \in Launches, NEW p, NEW m, NEW a, NEW i, NEW u, NEW b, NEW r,
           Shape(r, p, m, a, i, u, b), proc' = [proc EXCEPT ![l] = r]
    PROVE  Moves(l, p, m, a, i, u, b)
  <1>1. r \in ProcState
    BY DEF Shape
  <1>2. /\ proc' \in [Launches -> ProcState]
        /\ \A k \in Launches : proc'[k] = IF k = l THEN r ELSE proc[k]
    BY <1>1 DEF TypeOK
  <1>3. QED
    BY <1>2 DEF Shape, Moves, pc, mode, run, bound

\* What each action makes of the process that takes it.
Same(l) == Moves(l, pc(l), mode(l), proc[l].addr, proc[l].key, run(l), bound(l))

To(l, p) == Moves(l, p, mode(l), proc[l].addr, proc[l].key, run(l), bound(l))

LEMMA GoMoves ==
    ASSUME TypeOK, NEW l \in Launches, NEW p \in Place, Go(l, p)
    PROVE  To(l, p)
  <1>1. proc[l] \in ProcState
    BY DEF TypeOK
  <1>2. proc' = [proc EXCEPT ![l] = [proc[l] EXCEPT !.pc = p]]
    BY DEF Go
  <1>3. Shape([proc[l] EXCEPT !.pc = p], p, mode(l), proc[l].addr, proc[l].key, run(l), bound(l))
    BY <1>1, PcUpdate DEF mode, run, bound
  <1>4. QED
    BY <1>2, <1>3, ProcUpdate DEF To

\* A new mode and place: the fall back to the console.
LEMMA ModeMoves ==
    ASSUME TypeOK, NEW l \in Launches, NEW p \in Place, NEW m \in Mode,
           proc' = [proc EXCEPT ![l].pc = p, ![l].mode = m]
    PROVE  Moves(l, p, m, proc[l].addr, proc[l].key, run(l), bound(l))
  <1> DEFINE s == [proc[l] EXCEPT !.pc = p]
             r == [s EXCEPT !.mode = m]
  <1>1. proc[l] \in ProcState
    BY DEF TypeOK
  <1>2. proc' = [proc EXCEPT ![l] = r]
    BY DEF TypeOK
  <1>3. Shape(s, p, mode(l), proc[l].addr, proc[l].key, run(l), bound(l))
    BY <1>1, PcUpdate DEF mode, run, bound
  <1> HIDE DEF s
  <1>4. Shape(r, p, m, proc[l].addr, proc[l].key, run(l), bound(l))
    BY <1>3, ModeUpdate DEF Shape
  <1>5. QED
    BY <1>2, <1>4, ProcUpdate

\* serve() has raised.
LEMMA RaiseMoves ==
    ASSUME TypeOK, NEW l \in Launches, Raise(l) \/ Go(l, "busy")
    PROVE  \E p \in {"key", "failed", "busy"}, m \in Mode :
             Moves(l, p, m, proc[l].addr, proc[l].key, run(l), bound(l))
  <1>1. mode(l) \in Mode
    BY DEF TypeOK, ProcState, mode
  <1>2. CASE Go(l, "busy")
    BY <1>1, <1>2, GoMoves DEF Place, To
  <1>3. CASE Raise(l) /\ mode(l) = "tray"
    BY <1>3, ModeMoves DEF Raise, Place, Mode
  <1>4. CASE Raise(l) /\ mode(l) # "tray"
    BY <1>1, <1>4, GoMoves DEF Raise, Go, Place, To
  <1>5. QED
    BY <1>2, <1>3, <1>4

\* A new key and place.
LEMMA KeyMoves ==
    ASSUME TypeOK, NEW l \in Launches, NEW p \in Place, NEW i \in Launches \cup {Nobody},
           proc' = [proc EXCEPT ![l].pc = p, ![l].key = i]
    PROVE  Moves(l, p, mode(l), proc[l].addr, i, run(l), bound(l))
  <1> DEFINE s == [proc[l] EXCEPT !.pc = p]
             r == [s EXCEPT !.key = i]
  <1>1. proc[l] \in ProcState
    BY DEF TypeOK
  <1>2. proc' = [proc EXCEPT ![l] = r]
    BY DEF TypeOK
  <1>3. Shape(s, p, mode(l), proc[l].addr, proc[l].key, run(l), bound(l))
    BY <1>1, PcUpdate DEF mode, run, bound
  <1> HIDE DEF s
  <1>4. Shape(r, p, mode(l), proc[l].addr, i, run(l), bound(l))
    BY <1>3, KeyUpdate DEF Shape
  <1>5. QED
    BY <1>2, <1>4, ProcUpdate

\* A broker begins or ceases to run.
LEMMA RunMoves ==
    ASSUME TypeOK, NEW l \in Launches, NEW p \in Place,
           NEW u \in {"none"} \cup Mode, NEW b \in {"none"} \cup Mode,
           proc' = [proc EXCEPT ![l].pc = p, ![l].run = u, ![l].bound = b]
    PROVE  Moves(l, p, mode(l), proc[l].addr, proc[l].key, u, b)
  <1> DEFINE s == [proc[l] EXCEPT !.pc = p]
             q == [s EXCEPT !.run = u]
             r == [q EXCEPT !.bound = b]
  <1>1. proc[l] \in ProcState
    BY DEF TypeOK
  <1>2. proc' = [proc EXCEPT ![l] = r]
    BY DEF TypeOK
  <1>3. Shape(s, p, mode(l), proc[l].addr, proc[l].key, run(l), bound(l))
    BY <1>1, PcUpdate DEF mode, run, bound
  <1> HIDE DEF s
  <1>4. Shape(q, p, mode(l), proc[l].addr, proc[l].key, u, bound(l))
    BY <1>3, RunUpdate DEF Shape
  <1> HIDE DEF q
  <1>5. Shape(r, p, mode(l), proc[l].addr, proc[l].key, u, b)
    BY <1>4, BoundUpdate DEF Shape
  <1>6. QED
    BY <1>2, <1>5, ProcUpdate

\* The choice of address and mode.
LEMMA BeginMoves ==
    ASSUME TypeOK, NEW l \in Launches, NEW p \in Place, NEW a \in Address, NEW m \in Mode,
           proc' = [proc EXCEPT ![l].pc = p, ![l].addr = a, ![l].mode = m]
    PROVE  Moves(l, p, m, a, proc[l].key, run(l), bound(l))
  <1> DEFINE s == [proc[l] EXCEPT !.pc = p]
             q == [s EXCEPT !.addr = a]
             r == [q EXCEPT !.mode = m]
  <1>1. proc[l] \in ProcState
    BY DEF TypeOK
  <1>2. proc' = [proc EXCEPT ![l] = r]
    BY DEF TypeOK
  <1>3. Shape(s, p, mode(l), proc[l].addr, proc[l].key, run(l), bound(l))
    BY <1>1, PcUpdate DEF mode, run, bound
  <1> HIDE DEF s
  <1>4. Shape(q, p, mode(l), a, proc[l].key, run(l), bound(l))
    BY <1>3, AddrUpdate DEF Shape
  <1> HIDE DEF q
  <1>5. Shape(r, p, m, a, proc[l].key, run(l), bound(l))
    BY <1>4, ModeUpdate DEF Shape
  <1>6. QED
    BY <1>2, <1>5, ProcUpdate

\* The last connection to a socket that was closed.
LEMMA BoundMoves ==
    ASSUME TypeOK, NEW l \in Launches, LastConnection(l)
    PROVE  Moves(l, pc(l), mode(l), proc[l].addr, proc[l].key, run(l), "none")
  <1>1. proc[l] \in ProcState
    BY DEF TypeOK
  <1>2. proc' = [proc EXCEPT ![l] = [proc[l] EXCEPT !.bound = "none"]]
    BY DEF LastConnection
  <1>3. Shape([proc[l] EXCEPT !.bound = "none"], pc(l), mode(l), proc[l].addr, proc[l].key,
              run(l), "none")
    BY <1>1, BoundUpdate DEF pc, mode, run
  <1>4. QED
    BY <1>2, <1>3, ProcUpdate

\* The end of a process.
LEMMA GoneMoves ==
    ASSUME TypeOK, NEW l \in Launches, NEW how \in {"gone", "killed"}, Gone(l, how)
    PROVE  Moves(l, how, "tray", FirstAddress, Nobody, "none", "none")
  <1>1. Shape(Blank(how), how, "tray", FirstAddress, Nobody, "none", "none")
    BY AddressAssumption DEF Shape, Blank, ProcState, Mode
  <1>2. QED
    BY <1>1, ProcUpdate DEF Gone

-----------------------------------------------------------------------------
(* Every step keeps the invariant *)

\* The steps after which main is not past the start of a broker, whether it was before or
\* not: the process keeps its worker or has it ended, keeps its socket or has it closed,
\* and keeps the broker that a failed start has left or has none.
LEMMA QuietKeeps ==
    ASSUME LaunchInv, NEW l \in Launches,
           NEW p \in Place \ {"start", "web", "up"}, NEW m \in Mode, NEW a \in Address,
           NEW i \in Launches \cup {Nobody}, NEW b \in {"none", bound(l)},
           NEW u \in {"none", run(l)}, u # "none" => b = bound(l),
           Moves(l, p, m, a, i, u, b),
           b = "none" \/ a = proc[l].addr,
           p = "bind" \/ u # "none" => i # Nobody /\ (i = key \/ raced),
           p = "newkey" => key = Nobody \/ raced,
           worker' \in [Launches -> [Mode -> {"none", "loop"} \cup Task]],
           \A k \in Launches : \A n \in Mode :
             worker'[k][n] = worker[k][n] \/ (k = l /\ worker'[k][n] = "none"),
           p \in {"none", "gone", "killed"} =>
             u = "none" /\ b = "none" /\ \A n \in Mode : worker'[l][n] = "none",
           UNCHANGED <<key, url, status, ghosts>>,
           faults' \in 0 .. MaxFaults, faults' >= faults
    PROVE  LaunchInv'
  <1>1. TypeOK'
    BY DEF LaunchInv, TypeOK, Moves, ghosts
  <1>2. Places'
    BY DEF LaunchInv, Places, Moves, Serving, Alive, Works
  <1>3. PortIsLock'
    BY DEF LaunchInv, PortIsLock, Moves
  <1>4. KeyIsOne'
    BY DEF LaunchInv, KeyIsOne, Moves, ghosts
  <1>5. Alone => Alone'
    <2> SUFFICES ASSUME Alone PROVE Alone'
      OBVIOUS
    <2>1. \A k \in Launches : Active(k)' => Active(k)
      BY DEF Active, Works, Moves
    <2>2. \A k \in Launches : pc(k)' \in {"start", "web", "up"} =>
            /\ k # l /\ pc(k) = pc(k)' /\ mode(k)' = mode(k) /\ run(k)' = run(k)
            /\ \A n \in Mode : worker'[k][n] = worker[k][n]
      BY DEF Moves
    <2>3. (\A k, h \in Launches : Active(k) /\ Active(h) => k = h)'
      BY <2>1 DEF Alone
    <2>4. (\A k \in Launches : \A n, h \in Mode :
             worker[k][n] # "none" /\ worker[k][h] # "none" => n = h)'
      BY DEF Alone
    <2>5. (\A k \in Launches : \A n \in Mode :
             worker[k][n] # "none" => run(k) \in {"none", n} /\ pc(k) # "start")'
      BY <2>2 DEF Alone, Moves
    <2>6. (\A k \in Launches : \A t \in Task :
             pc(k) \in {"web", "up"} /\ status[t] = "running" => \E n \in Mode : worker[k][n] = t)'
      BY <2>2 DEF Alone
    <2>7. (\A k \in Launches : pc(k) = "up" /\ mode(k) = "tray" => url = k \/ faults > 0)'
      BY <2>2 DEF Alone, LaunchInv, TypeOK
    <2>8. QED
      BY <2>3, <2>4, <2>5, <2>6, <2>7 DEF Alone
  <1>6. QED
    BY <1>1, <1>2, <1>3, <1>4, <1>5 DEF LaunchInv, ghosts

\* The steps that leave a process without a running broker.
LEMMA QuietSteps ==
    ASSUME LaunchInv, NEW l \in Launches,
           \/ Begin(l) \/ LookForKey(l) \/ BindTaken(l) \/ StartFails(l) \/ TrayFails(l)
           \/ StartFailsBound(l) /\ UNCHANGED <<status, worker>>
           \/ LastConnection(l) \/ FallBack(l) \/ Quit(l) \/ Exit(l) \/ Kill(l)
    PROVE  LaunchInv'
  <1>1. /\ TypeOK /\ proc[l] \in ProcState /\ pc(l) \in Place /\ mode(l) \in Mode
        /\ proc[l].addr \in Address /\ proc[l].key \in Launches \cup {Nobody}
        /\ bound(l) \in {"none"} \cup Mode
        /\ worker \in [Launches -> [Mode -> {"none", "loop"} \cup Task]]
        /\ faults \in 0 .. MaxFaults
        /\ run(l) # "none" =>
             bound(l) = run(l) /\ proc[l].key # Nobody /\ (proc[l].key = key \/ raced)
    BY DEF LaunchInv, TypeOK, ProcState, pc, mode, bound, Place, Places, KeyIsOne
  <1>2. CASE Begin(l)
    <2>1. PICK a \in Address, m \in Mode :
            proc' = [proc EXCEPT ![l].pc = "key", ![l].addr = a, ![l].mode = m]
      BY <1>2, AddressAssumption DEF Begin
    <2>2. Moves(l, "key", m, a, proc[l].key, run(l), bound(l))
      BY <1>1, <2>1, BeginMoves DEF Place
    <2>3. pc(l) = "none" /\ UNCHANGED <<db, worker, faults, ghosts>>
      BY <1>2 DEF Begin
    <2>4. bound(l) = "none" /\ run(l) = "none"
      BY <1>1, <2>3 DEF LaunchInv, Places, Alive
    <2>5. QED
      BY <1>1, <2>2, <2>3, <2>4, QuietKeeps DEF Place, db
  <1>3. CASE LookForKey(l)
    <2>1. pc(l) = "key" /\ UNCHANGED <<db, worker, faults, ghosts>>
      BY <1>1, <1>3 DEF LookForKey
    <2>2. CASE key = Nobody
      <3>1. To(l, "newkey")
        BY <1>1, <1>3, <2>2, GoMoves DEF LookForKey, Go, Place
      <3>2. QED
        BY <1>1, <2>1, <2>2, <3>1, QuietKeeps DEF To, Place, db
    <2>3. CASE key # Nobody
      <3>1. key \in Launches \cup {Nobody}
        BY <1>1 DEF TypeOK
      <3>2. Moves(l, "bind", mode(l), proc[l].addr, key, run(l), bound(l))
        BY <1>1, <1>3, <2>3, <3>1, KeyMoves DEF LookForKey, Place
      <3>3. QED
        BY <1>1, <2>1, <2>3, <3>1, <3>2, QuietKeeps DEF Place, db
    <2>4. QED
      BY <2>2, <2>3
  <1>4. CASE BindTaken(l)
    <2>1. PICK p \in {"busy", "failed"} : Go(l, p)
      BY <1>4 DEF BindTaken
    <2>2. pc(l) = "bind" /\ UNCHANGED <<db, worker, faults, ghosts>>
      BY <1>1, <1>4 DEF BindTaken
    <2>3. To(l, p)
      BY <1>1, <2>1, GoMoves DEF Place
    <2>4. QED
      BY <1>1, <2>2, <2>3, QuietKeeps DEF To, Place, db
  <1>5. CASE StartFails(l) \/ (StartFailsBound(l) /\ UNCHANGED <<status, worker>>)
    <2>1. /\ UNCHANGED <<db, worker, ghosts>>
          /\ faults' \in 0 .. MaxFaults /\ faults' >= faults
      BY <1>1, <1>5, BoundAssumption DEF StartFails, StartFailsBound, db
    <2>2. Raise(l) \/ Go(l, "busy")
      BY <1>5 DEF StartFails, StartFailsBound
    <2>3. PICK p \in {"key", "failed", "busy"}, m \in Mode :
            Moves(l, p, m, proc[l].addr, proc[l].key, run(l), bound(l))
      BY <1>1, <2>2, RaiseMoves
    <2>4. QED
      BY <1>1, <2>1, <2>3, QuietKeeps DEF Place, db
  <1>6. ASSUME NEW p \in {"stopping", "quitting"}, StopBegin(l, p) PROVE LaunchInv'
    <2>1. PICK b \in {"none", bound(l)} :
            proc' = [proc EXCEPT ![l].pc = p, ![l].run = "none", ![l].bound = b]
      BY <1>1, <1>6 DEF StopBegin, bound, TypeOK
    <2>2. UNCHANGED <<db, worker, faults, ghosts>>
      BY <1>6 DEF StopBegin
    <2>3. Moves(l, p, mode(l), proc[l].addr, proc[l].key, "none", b)
      BY <1>1, <2>1, RunMoves DEF Place
    <2>4. QED
      BY <1>1, <2>2, <2>3, QuietKeeps DEF Place, db
  <1>7. CASE LastConnection(l)
    <2>1. UNCHANGED <<db, worker, faults, ghosts>> /\ bound(l) # "none" /\ bound(l) # run(l)
      BY <1>7 DEF LastConnection, Lingers
    <2>2. ~Serving(l) /\ Alive(l) /\ run(l) = "none"
      BY <1>1, <2>1 DEF LaunchInv, Places, Mode
    <2>3. Moves(l, pc(l), mode(l), proc[l].addr, proc[l].key, "none", "none")
      BY <1>1, <1>7, <2>2, BoundMoves
    <2>4. /\ pc(l) \in Place \ {"start", "web", "up"}
          /\ pc(l) = "bind" => proc[l].key # Nobody /\ (proc[l].key = key \/ raced)
          /\ pc(l) = "newkey" => key = Nobody \/ raced
          /\ pc(l) \notin {"none", "gone", "killed"}
      BY <1>1, <2>2 DEF LaunchInv, KeyIsOne, Serving, Alive
    <2>5. QED
      BY <1>1, <2>1, <2>3, <2>4, QuietKeeps DEF db
  <1>8. CASE FallBack(l)
    <2>1. UNCHANGED <<db, worker, faults, ghosts>>
      BY <1>8 DEF FallBack
    <2>2. Moves(l, "key", "console", proc[l].addr, proc[l].key, run(l), bound(l))
      BY <1>1, <1>8, ModeMoves DEF FallBack, Place, Mode
    <2>3. QED
      BY <1>1, <2>1, <2>2, QuietKeeps DEF Place, Mode, db
  <1>9. ASSUME NEW how \in {"gone", "killed"}, Gone(l, how) PROVE LaunchInv'
    <2>1. UNCHANGED <<db, faults, ghosts>> /\ worker' = [worker EXCEPT ![l] = NoWorker]
      BY <1>9 DEF Gone
    <2>2. Moves(l, how, "tray", FirstAddress, Nobody, "none", "none")
      BY <1>1, <1>9, GoneMoves
    <2>3. /\ worker' \in [Launches -> [Mode -> {"none", "loop"} \cup Task]]
          /\ \A k \in Launches : \A n \in Mode :
               worker'[k][n] = IF k = l THEN "none" ELSE worker[k][n]
      BY <1>1, <2>1 DEF NoWorker
    <2>4. /\ how \in Place \ {"start", "web", "up"} /\ how \notin {"bind", "newkey"}
          /\ "tray" \in Mode /\ Nobody \in Launches \cup {Nobody}
          /\ UNCHANGED <<key, url, status, ghosts>> /\ faults' \in 0 .. MaxFaults
          /\ faults' >= faults
      BY <1>1, <2>1 DEF Place, Mode, db
    <2>5. \A k \in Launches : \A n \in Mode :
            worker'[k][n] = worker[k][n] \/ (k = l /\ worker'[k][n] = "none")
      BY <2>3
    <2>6. QED
      BY <1>1, <2>2, <2>3, <2>4, <2>5, AddressAssumption, QuietKeeps
  <1>10. QED
    BY <1>2, <1>3, <1>4, <1>5, <1>6, <1>7, <1>8, <1>9 DEF TrayFails, Quit, Exit, Kill

\* A first key.  Whoever else is about to make one is raced from now on.
LEMMA NewKeyKeeps ==
    ASSUME LaunchInv, NEW l \in Launches, NewKey(l)
    PROVE  LaunchInv'
  <1>1. /\ pc(l) = "newkey" /\ key' = l /\ UNCHANGED <<url, status, worker, faults, shared>>
        /\ raced' = (raced \/ \E k \in Launches : k # l /\ pc(k) = "newkey")
    BY DEF NewKey
  <1>2. Moves(l, "bind", mode(l), proc[l].addr, l, run(l), bound(l))
    BY KeyMoves DEF NewKey, LaunchInv, Place
  <1>3. l # Nobody
    BY DEF Launches, Nobody
  <1>4. TypeOK'
    <2>1. raced' \in BOOLEAN
      BY <1>1, Zenon DEF LaunchInv, TypeOK
    <2>2. QED
      BY <1>1, <1>2, <2>1 DEF LaunchInv, TypeOK, Moves
  <1>5. Places'
    BY <1>1, <1>2, <1>3 DEF LaunchInv, Places, Moves, Serving, Alive, Works
  <1>6. PortIsLock'
    BY <1>2 DEF LaunchInv, PortIsLock, Moves
  <1>7. KeyIsOne'
    <2>1. raced \/ (key = Nobody /\ \A k \in Launches :
                      pc(k) \notin {"bind", "start", "web", "up"} /\ run(k) = "none")
      BY <1>1 DEF LaunchInv, KeyIsOne
    <2>2. raced' \/ \A k \in Launches : k # l => pc(k) # "newkey"
      BY <1>1
    <2>3. raced => raced'
      BY <1>1
    <2>4. QED
      BY <1>1, <1>2, <1>3, <2>1, <2>2, <2>3 DEF LaunchInv, KeyIsOne, Moves
  <1>8. Alone => Alone'
    BY <1>1, <1>2 DEF Alone, Active, Works, Moves
  <1>9. QED
    BY <1>1, <1>4, <1>5, <1>6, <1>7, <1>8 DEF LaunchInv

\* A broker begins to run: nobody else listens on its address, and either it is alone
\* or shared says that it is not.
LEMMA BindKeeps ==
    ASSUME LaunchInv, NEW l \in Launches, Bind(l)
    PROVE  LaunchInv'
  <1>1. /\ pc(l) = "bind" /\ ~Taken(l) /\ UNCHANGED <<db, worker, faults, raced>>
        /\ shared' = (shared \/ Beside(l) # {})
    BY DEF Bind
  <1>2. mode(l) \in Mode
    BY DEF LaunchInv, TypeOK, ProcState, mode
  <1>3. Moves(l, "start", mode(l), proc[l].addr, proc[l].key, mode(l), mode(l))
    BY <1>2, RunMoves DEF Bind, LaunchInv, Place
  <1>4. \A k \in Launches : bound(k) # "none" => proc[k].addr # proc[l].addr
    BY <1>1 DEF Taken
  <1>5. TypeOK'
    <2>1. shared' \in BOOLEAN
      BY <1>1, Zenon DEF LaunchInv, TypeOK
    <2>2. QED
      BY <1>1, <1>3, <2>1 DEF LaunchInv, TypeOK, Moves, db
  <1>6. Places'
    BY <1>1, <1>3 DEF LaunchInv, Places, Moves, Serving, Alive, Works
  <1>7. PortIsLock'
    BY <1>3, <1>4 DEF LaunchInv, PortIsLock, Moves
  <1>8. KeyIsOne'
    BY <1>1, <1>3 DEF LaunchInv, KeyIsOne, Moves, db
  <1>9. shared' \/ Alone'
    <2> SUFFICES ASSUME ~shared' PROVE Alone'
      OBVIOUS
    <2>1. Beside(l) = {}
      BY <1>1
    <2>2. \A k \in Launches : run(k) = "none" /\ worker[k] = NoWorker
      <3>1. \A k \in Launches : run(k) # "none" => bound(k) # "none"
        BY DEF LaunchInv, Places, TypeOK, ProcState, Mode, mode
      <3>2. QED
        BY <1>4, <2>1, <3>1 DEF Beside
    <2>3. \A k \in Launches : run(k) = "none" /\ \A n \in Mode : worker[k][n] = "none"
      BY <2>2 DEF NoWorker
    <2>4. \A k \in Launches : /\ \A n \in Mode : worker'[k][n] = "none"
                              /\ k # l => run(k)' = "none"
      BY <1>1, <1>3, <2>3 DEF Moves
    <2>5. \A k \in Launches : pc(k)' \notin {"web", "up"}
      BY <1>3, <2>3 DEF Moves, LaunchInv, Places, Serving, TypeOK, ProcState, Mode, mode
    <2>6. QED
      BY <2>4, <2>5 DEF Alone, Active, Works
  <1>10. QED
    BY <1>5, <1>6, <1>7, <1>8, <1>9 DEF LaunchInv

\* The broker takes up its work: nothing is running any more.  It may be left to itself.
LEMMA TakeUpKeeps ==
    ASSUME LaunchInv, NEW l \in Launches, pc(l) = "start", TakeUp(l),
           NEW p \in {"web", "key", "failed", "busy"}, NEW m \in Mode, p = "web" => m = mode(l),
           Moves(l, p, m, proc[l].addr, proc[l].key, run(l), bound(l)),
           UNCHANGED <<key, url, ghosts>>, faults' \in 0 .. MaxFaults, faults' >= faults
    PROVE  LaunchInv'
  <1>1. /\ status' = [t \in Task |-> IF status[t] = "running" THEN "pending" ELSE status[t]]
        /\ worker' = [worker EXCEPT ![l][mode(l)] = "loop"]
    BY DEF TakeUp
  <1>2. mode(l) \in Mode /\ run(l) = mode(l) /\ bound(l) = mode(l)
    BY DEF LaunchInv, TypeOK, ProcState, mode, Places, Serving, Mode
  <1>4. /\ worker' \in [Launches -> [Mode -> {"none", "loop"} \cup Task]]
        /\ \A k \in Launches : \A n \in Mode :
             worker'[k][n] = IF k = l /\ n = mode(l) THEN "loop" ELSE worker[k][n]
    BY <1>1, <1>2 DEF LaunchInv, TypeOK
  <1>5. /\ status' \in [Task -> {"none", "pending", "running", "done"}]
        /\ \A t \in Task : status'[t] # "running"
    BY <1>1 DEF LaunchInv, TypeOK
  <1>6. TypeOK'
    BY <1>4, <1>5 DEF LaunchInv, TypeOK, Moves, ghosts
  <1>7. Places'
    BY <1>2, <1>4 DEF LaunchInv, Places, Moves, Serving, Alive, Works
  <1>8. PortIsLock'
    BY DEF LaunchInv, PortIsLock, Moves
  <1>9. KeyIsOne'
    BY DEF LaunchInv, KeyIsOne, Moves, ghosts
  <1>10. Alone => Alone'
    <2> SUFFICES ASSUME Alone PROVE Alone'
      OBVIOUS
    <2>1. Active(l) /\ \A k \in Launches : Active(k) => k = l
      BY <1>2 DEF Alone, Active, Mode
    <2>2. \A k \in Launches : Active(k)' => k = l
      BY <1>4, <2>1 DEF Active, Works, Moves
    <2>3. \A n \in Mode : worker[l][n] = "none"
      BY DEF Alone
    <2>4. \A k \in Launches : \A n \in Mode : worker'[k][n] # "none" => k = l /\ n = mode(l)
      BY <1>4, <2>1, <2>3 DEF Active, Works
    <2>5. (\A k \in Launches : pc(k) = "up" /\ mode(k) = "tray" => url = k \/ faults > 0)'
      BY DEF Alone, Moves, LaunchInv, TypeOK
    <2>6. run(l)' = mode(l) /\ pc(l)' # "start"
      BY <1>2 DEF Moves
    <2>7. QED
      BY <1>5, <2>2, <2>4, <2>5, <2>6 DEF Alone
  <1>11. QED
    BY <1>6, <1>7, <1>8, <1>9, <1>10 DEF LaunchInv, ghosts

LEMMA StartKeeps ==
    ASSUME LaunchInv, NEW l \in Launches,
           Start(l) \/ StartFailsBound(l)
    PROVE  LaunchInv'
  <1>1. TypeOK /\ mode(l) \in Mode /\ faults \in 0 .. MaxFaults
    BY DEF LaunchInv, TypeOK, ProcState, mode
  <1>2. CASE Start(l)
    <2>1. Moves(l, "web", mode(l), proc[l].addr, proc[l].key, run(l), bound(l))
      BY <1>1, <1>2, GoMoves DEF Start, Place, To
    <2>2. QED
      BY <1>1, <1>2, <2>1, TakeUpKeeps DEF Start
  <1>3. CASE StartFailsBound(l) /\ UNCHANGED <<status, worker>>
    BY <1>3, QuietSteps
  <1>4. CASE StartFailsBound(l) /\ TakeUp(l)
    <2>1. Raise(l) \/ Go(l, "busy")
      BY <1>4 DEF StartFailsBound
    <2>2. PICK p \in {"key", "failed", "busy"}, m \in Mode :
            Moves(l, p, m, proc[l].addr, proc[l].key, run(l), bound(l))
      BY <1>1, <2>1, RaiseMoves
    <2>3. /\ pc(l) = "start" /\ UNCHANGED <<key, url, ghosts>>
          /\ faults' \in 0 .. MaxFaults /\ faults' >= faults
      BY <1>1, <1>4, BoundAssumption DEF StartFailsBound
    <2>4. QED
      BY <1>4, <2>2, <2>3, TakeUpKeeps
  <1>5. QED
    BY <1>2, <1>3, <1>4 DEF StartFailsBound

\* The console is there, or not.
LEMMA WebKeeps ==
    ASSUME LaunchInv, NEW l \in Launches, Web(l) \/ WebFails(l)
    PROVE  LaunchInv'
  <1>1. pc(l) = "web" /\ UNCHANGED <<key, status, worker, ghosts>>
    BY DEF Web, WebFails, db
  <1>2. To(l, "up")
    BY GoMoves DEF Web, WebFails, LaunchInv, Place
  <1>3. /\ url' \in Launches \cup {Nobody} /\ faults' \in 0 .. MaxFaults /\ faults' >= faults
        /\ (mode(l) = "tray" => url' = l \/ faults' > 0)
        /\ (url' # url => url' = l)
    BY BoundAssumption DEF Web, WebFails, LaunchInv, TypeOK, db
  <1>4. TypeOK'
    BY <1>1, <1>2, <1>3 DEF LaunchInv, TypeOK, To, Moves, ghosts
  <1>5. Places'
    BY <1>1, <1>2 DEF LaunchInv, Places, To, Moves, Serving, Alive, Works
  <1>6. PortIsLock'
    BY <1>2 DEF LaunchInv, PortIsLock, To, Moves
  <1>7. KeyIsOne'
    BY <1>1, <1>2 DEF LaunchInv, KeyIsOne, To, Moves, ghosts
  <1>8. Alone => Alone'
    <2> SUFFICES ASSUME Alone PROVE Alone'
      OBVIOUS
    <2>1. run(l) # "none"
      BY <1>1 DEF LaunchInv, Places, Serving, TypeOK, ProcState, Mode, mode
    <2>2. \A k \in Launches : run(k) # "none" => k = l
      BY <2>1 DEF Alone, Active
    <2>3. \A k \in Launches : pc(k) = "up" => k = l
      BY <2>2 DEF LaunchInv, Places, Serving, TypeOK, ProcState, Mode, mode
    <2>4. (\A k \in Launches : pc(k) = "up" /\ mode(k) = "tray" => url = k \/ faults > 0)'
      BY <1>2, <1>3, <2>3 DEF To, Moves
    <2>5. \A k \in Launches : (Active(k)' <=> Active(k))
      BY <1>1, <1>2 DEF Active, Works, To, Moves
    <2>6. (\A k \in Launches : \A t \in Task :
             pc(k) \in {"web", "up"} /\ status[t] = "running" => \E m \in Mode : worker[k][m] = t)'
      BY <1>1, <1>2 DEF Alone, To, Moves
    <2>7. (\A k \in Launches : \A m \in Mode :
             worker[k][m] # "none" => run(k) \in {"none", m} /\ pc(k) # "start")'
      BY <1>1, <1>2 DEF Alone, To, Moves
    <2>8. QED
      BY <1>1, <2>4, <2>5, <2>6, <2>7 DEF Alone
  <1>9. QED
    BY <1>1, <1>4, <1>5, <1>6, <1>7, <1>8 DEF LaunchInv, ghosts

\* A worker changes its own hands and its task: a task it claims is in its hands, one it
\* finishes is done.
LEMMA WorkerKeeps ==
    ASSUME LaunchInv, NEW l \in Launches, NEW m \in Mode, WorkerStep(l, m)
    PROVE  LaunchInv'
  <1>1. PICK h \in {"none", "loop"} \cup Task :
          worker' = [worker EXCEPT ![l][m] = h]
    BY DEF WorkerStep, WorkerClaim, WorkerEnds, WorkerFinish
  <1>2. worker[l][m] # "none" /\ UNCHANGED <<key, url, proc, faults, ghosts>>
    BY TaskAssumption DEF WorkerStep, WorkerClaim, WorkerEnds, WorkerFinish, db
  <1>3. /\ worker' \in [Launches -> [Mode -> {"none", "loop"} \cup Task]]
        /\ \A k \in Launches : \A n \in Mode :
             worker'[k][n] = IF k = l /\ n = m THEN h ELSE worker[k][n]
    BY <1>1 DEF LaunchInv, TypeOK
  <1>4. status' \in [Task -> {"none", "pending", "running", "done"}]
    BY DEF WorkerStep, WorkerClaim, WorkerEnds, WorkerFinish, LaunchInv, TypeOK, db
  <1>5. \A t \in Task : status'[t] = "running" =>
          \/ worker'[l][m] = t
          \/ status[t] = "running" /\ worker[l][m] # t
    <2>1. CASE WorkerClaim(l, m)
      BY <2>1, <1>3, TaskAssumption DEF WorkerClaim, LaunchInv, TypeOK
    <2>2. CASE WorkerEnds(l, m)
      BY <2>2, TaskAssumption DEF WorkerEnds, db
    <2>3. CASE WorkerFinish(l, m)
      BY <2>3 DEF WorkerFinish, LaunchInv, TypeOK
    <2>4. QED
      BY <2>1, <2>2, <2>3 DEF WorkerStep
  <1>6. TypeOK'
    BY <1>2, <1>3, <1>4 DEF LaunchInv, TypeOK, ghosts
  <1>7. Places' /\ PortIsLock' /\ KeyIsOne'
    <2>1. Alive(l)
      BY <1>2 DEF LaunchInv, Places, Works
    <2>2. QED
      BY <1>2, <1>3, <2>1 DEF LaunchInv, Places, PortIsLock, KeyIsOne, Serving, Alive, Works,
                              pc, mode, run, bound, ghosts
  <1>8. Alone => Alone'
    <2> SUFFICES ASSUME Alone PROVE Alone'
      OBVIOUS
    <2>1. \A k \in Launches : /\ pc(k)' = pc(k) /\ run(k)' = run(k) /\ mode(k)' = mode(k)
      BY <1>2 DEF pc, run, mode
    <2>2. /\ \A k \in Launches : Active(k) => k = l
          /\ \A n \in Mode : worker[l][n] # "none" => n = m
      BY <1>2 DEF Alone, Active, Works
    <2>3. \A k \in Launches : \A n \in Mode : worker'[k][n] # "none" => k = l /\ n = m
      BY <1>3, <2>2 DEF Active, Works
    <2>4. \A k \in Launches : Active(k)' => k = l
      BY <2>1, <2>2, <2>3 DEF Active, Works
    <2>5. \A k \in Launches : pc(k) \in {"web", "up"} => k = l
      BY <2>2 DEF Active, LaunchInv, Places, Serving, TypeOK, ProcState, Mode, mode
    <2>6. (\A k \in Launches : \A t \in Task :
             pc(k) \in {"web", "up"} /\ status[t] = "running" => \E n \in Mode : worker[k][n] = t)'
      <3> SUFFICES ASSUME NEW t \in Task, pc(l) \in {"web", "up"}, status'[t] = "running"
                   PROVE  \E n \in Mode : worker'[l][n] = t
        BY <2>1, <2>5
      <3>1. CASE worker'[l][m] = t
        BY <3>1
      <3>2. CASE status[t] = "running" /\ worker[l][m] # t
        <4>1. PICK n \in Mode : worker[l][n] = t
          BY <3>2 DEF Alone
        <4>2. t # "none"
          BY TaskAssumption
        <4>3. QED
          BY <2>2, <3>2, <4>1, <4>2
      <3>3. QED
        BY <1>5, <3>1, <3>2
    <2>7. (\A k \in Launches : \A n \in Mode :
             worker[k][n] # "none" => run(k) \in {"none", n} /\ pc(k) # "start")'
      BY <1>2, <2>1, <2>3 DEF Alone
    <2>8. (\A k \in Launches : pc(k) = "up" /\ mode(k) = "tray" => url = k \/ faults > 0)'
      BY <1>2, <2>1 DEF Alone
    <2>9. QED
      BY <2>3, <2>4, <2>6, <2>7, <2>8 DEF Alone
  <1>9. QED
    BY <1>2, <1>6, <1>7, <1>8 DEF LaunchInv, ghosts

LEMMA PushKeeps ==
    ASSUME LaunchInv, NEW t \in Task, Push(t)
    PROVE  LaunchInv'
  <1>1. /\ UNCHANGED <<key, url, proc, worker, faults, ghosts>>
        /\ status' \in [Task -> {"none", "pending", "running", "done"}]
        /\ \A s \in Task : status'[s] = "running" => status[s] = "running"
    BY DEF Push, LaunchInv, TypeOK
  <1>2. TypeOK' /\ Places' /\ PortIsLock' /\ KeyIsOne'
    BY <1>1 DEF LaunchInv, TypeOK, Places, PortIsLock, KeyIsOne, Serving, Alive, Works,
                pc, mode, run, bound, ghosts
  <1>3. Alone => Alone'
    BY <1>1 DEF Alone, Active, Works, pc, mode, run, bound
  <1>4. QED
    BY <1>1, <1>2, <1>3 DEF LaunchInv, ghosts

LEMMA StepLaunchInv == LaunchInv /\ [Next]_vars => LaunchInv'
  <1> SUFFICES ASSUME LaunchInv, [Next]_vars PROVE LaunchInv'
    OBVIOUS
  <1>1. CASE UNCHANGED vars
    BY <1>1 DEF vars, db, ghosts, LaunchInv, TypeOK, Places, PortIsLock, KeyIsOne, Alone,
                Serving, Alive, Active, Works, pc, mode, run, bound
  <1>2. CASE Next
    BY <1>2, QuietSteps, NewKeyKeeps, BindKeeps, StartKeeps, WebKeeps, WorkerKeeps, PushKeeps
       DEF Next, MainStep, Serve
  <1>3. QED
    BY <1>1, <1>2

LEMMA InitLaunchInv == Init => LaunchInv
  <1> SUFFICES ASSUME Init PROVE LaunchInv
    OBVIOUS
  <1>1. /\ \A p \in Place : Blank(p) \in ProcState
        /\ \A l \in Launches : proc[l] = Blank("none")
        /\ \A l \in Launches : \A m \in Mode : worker[l][m] = "none"
    BY AddressAssumption DEF Init, Blank, ProcState, Mode, Place, NoWorker
  <1>2. \A l \in Launches : pc(l) = "none" /\ run(l) = "none" /\ bound(l) = "none"
    BY <1>1 DEF Blank, pc, run, bound
  <1>3. TypeOK
    <2>1. proc \in [Launches -> ProcState]
      BY <1>1 DEF Init, Place
    <2>2. worker \in [Launches -> [Mode -> {"none", "loop"} \cup Task]]
      BY DEF Init, NoWorker
    <2>3. status \in [Task -> {"none", "pending", "running", "done"}]
      BY DEF Init
    <2>4. key = Nobody /\ url = Nobody /\ raced = FALSE /\ shared = FALSE
      BY DEF Init
    <2>5. faults \in 0 .. MaxFaults
      BY BoundAssumption DEF Init
    <2>6. QED
      BY <2>1, <2>2, <2>3, <2>4, <2>5, Zenon DEF TypeOK
  <1>4. Places /\ PortIsLock /\ KeyIsOne
    BY <1>1, <1>2 DEF Places, PortIsLock, KeyIsOne, Serving, Alive, Works
  <1>5. Alone
    BY <1>1, <1>2 DEF Alone, Active, Works
  <1>6. QED
    BY <1>3, <1>4, <1>5 DEF LaunchInv

-----------------------------------------------------------------------------
(* What follows from it *)

\* The strengthening of the properties below holds however many launches there are.
THEOREM LaunchInvariance == Spec => []LaunchInv
  BY InitLaunchInv, StepLaunchInv, PTL DEF Spec

\* The worker of a task is one, however often the companion was launched, ended and fell
\* back to the console mode, unless a broker started beside another one.
THEOREM TaskHasOneWorker == Spec => []OneRunAtATime
  <1>1. LaunchInv => OneRunAtATime
    <2> SUFFICES ASSUME Alone, NEW t \in Task, NEW d \in Holders(t), NEW e \in Holders(t)
                 PROVE  d = e
      BY DEF LaunchInv, OneRunAtATime
    <2>1. t # "none"
      BY TaskAssumption
    <2>2. d[1] = e[1]
      BY <2>1 DEF Alone, Active, Works, Holders
    <2>3. d[2] = e[2]
      BY <2>1, <2>2 DEF Alone, Holders
    <2>4. QED
      BY <2>2, <2>3 DEF Holders
  <1>2. QED
    BY LaunchInvariance, <1>1, PTL

\* A task marked running is in the hands of a worker from when the broker has started.
THEOREM RunningTaskIsHeld == Spec => []RunningIsHeld
  <1>1. LaunchInv => RunningIsHeld
    <2> SUFFICES ASSUME Alone, NEW t \in Task, status[t] = "running",
                        NEW l \in Launches, pc(l) \in {"web", "up"}
                 PROVE  Holders(t) # {}
      BY DEF LaunchInv, RunningIsHeld
    <2>1. PICK m \in Mode : worker[l][m] = t
      BY DEF Alone
    <2>2. <<l, m>> \in Holders(t)
      BY <2>1 DEF Holders
    <2>3. QED
      BY <2>2
  <1>2. QED
    BY LaunchInvariance, <1>1, PTL

\* A running broker has the identity that is on the disk, unless two first launches raced.
THEOREM IdentityStays == Spec => []IdentityIsKept
  <1>1. LaunchInv => IdentityIsKept
    BY DEF LaunchInv, IdentityIsKept, Places, KeyIsOne, Serving
  <1>2. QED
    BY LaunchInvariance, <1>1, PTL

\* While a tray is up, console.url names its console, if no broker started beside another
\* one and no error was met.
THEOREM ConsoleIsNamed == Spec => []ConsoleIsFound
  <1>1. LaunchInv => ConsoleIsFound
    BY DEF LaunchInv, ConsoleIsFound, Alone
  <1>2. QED
    BY LaunchInvariance, <1>1, PTL
=============================================================================
