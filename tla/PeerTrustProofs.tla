-------------------------- MODULE PeerTrustProofs ---------------------------
(***************************************************************************)
(* Proofs about PeerTrust, for any number of phones, connections, console  *)
(* requests, overlapping saves, failures and restarts.                     *)
(***************************************************************************)
EXTENDS PeerTrust, FiniteSetTheorems, TLAPS

\* A phone that a hello took for paired had been let in before.
PairedWasAdmitted == \A x \in Thread : thread[x].paired => who(x) \in admitted

\* A thread that is between hello and answer works for a phone.
BusyHasPhone == \A x \in Thread : pc(x) # "idle" => who(x) \in Phone

TrustInv ==
    /\ TypeOK
    /\ TrustWasGranted
    /\ OnlyAdmittedAreServed
    /\ PairedWasAdmitted
    /\ BusyHasPhone

\* The dictionary is finite, so that its size is a number.
LEMMA SizeIsNat == TypeOK => Cardinality(peers) \in Nat
  <1> SUFFICES ASSUME TypeOK PROVE Cardinality(peers) \in Nat
    OBVIOUS
  <1>1. IsFiniteSet(peers)
    BY PhoneAssumption, FS_Subset DEF TypeOK, PhoneAssumption
  <1>2. QED
    BY <1>1, FS_CardinalityType

\* An idle thread is well formed and holds nothing.
LEMMA IdleState ==
    /\ Idle \in ThreadState
    /\ Idle.pc = "idle" /\ ~Idle.paired /\ Idle.copy = {} /\ Idle.who = NoPhone
  BY DEF Idle, ThreadState

\* Before the first start nobody is trusted and nobody works.
LEMMA InitTrustInv == Init => TrustInv
  <1> SUFFICES ASSUME Init PROVE TrustInv
    OBVIOUS
  <1>1. thread \in [Thread -> ThreadState]
    BY IdleState DEF Init
  <1>2. TypeOK
    <2>1. faults \in 0 .. MaxFaults /\ starts \in 0 .. MaxStarts
      BY LimitAssumption DEF Init, LimitAssumption
    <2>2. QED
      BY <1>1, <2>1 DEF Init, TypeOK
  <1>3. QED
    BY <1>2, IdleState
       DEF Init, TrustInv, TrustWasGranted, OnlyAdmittedAreServed, PairedWasAdmitted,
           BusyHasPhone, pc, who, copy

\* A thread that only ends its work leaves the trust as it is.
LEMMA DoneKeeps ==
    ASSUME TrustInv, NEW x \in Thread, Done(x),
           UNCHANGED <<file, up, peers, window, starts, admitted, overlapped>>,
           faults' \in 0 .. MaxFaults, latest' \subseteq latest,
           revoked' \in SUBSET Phone, welcomed' \in SUBSET Phone, unsaved' \in SUBSET Phone,
           forgotten' \in SUBSET Phone, behind' \in BOOLEAN,
           served' \in SUBSET Phone, served' \subseteq admitted
    PROVE  TrustInv'
  <1>1. /\ thread' \in [Thread -> ThreadState]
        /\ \A y \in Thread : thread'[y] = IF y = x THEN Idle ELSE thread[y]
    BY IdleState DEF Done, TrustInv, TypeOK
  <1>2. TypeOK'
    BY <1>1 DEF TrustInv, TypeOK
  <1>3. TrustWasGranted' /\ OnlyAdmittedAreServed'
    BY <1>1, IdleState DEF TrustInv, TrustWasGranted, OnlyAdmittedAreServed, copy
  <1>4. PairedWasAdmitted' /\ BusyHasPhone'
    BY <1>1, IdleState DEF TrustInv, PairedWasAdmitted, BusyHasPhone, pc, who
  <1>5. QED
    BY <1>2, <1>3, <1>4 DEF TrustInv

\* The hello records whether the phone is trusted, and the trusted are admitted.
LEMMA HelloKeeps ==
    ASSUME TrustInv, NEW c \in Conn, NEW p \in Phone, Hello(c, p)
    PROVE  TrustInv'
  <1>1. PICK known \in BOOLEAN : known = (p \in peers)
    <2>1. (p \in peers) \in BOOLEAN
      OBVIOUS
    <2>2. QED
      BY <2>1, Zenon
  <1> DEFINE new == [Idle EXCEPT !.pc = "request", !.who = p, !.paired = known]
  <1>2. new \in ThreadState /\ new.who = p /\ new.copy = {} /\ new.paired = known
    BY DEF Idle, ThreadState
  <1>3. known <=> p \in peers
    BY <1>1, Zenon
  <1>4. thread' = [thread EXCEPT ![c] = new]
        /\ UNCHANGED <<file, up, peers, window, faults, starts, ghosts>>
    BY <1>1, Zenon DEF Hello
  <1> HIDE DEF new
  <1>5. \A y \in Thread : thread'[y] = IF y = c THEN new ELSE thread[y]
    BY <1>4 DEF TrustInv, TypeOK, Thread
  <1>6. TypeOK'
    BY <1>2, <1>4 DEF TrustInv, TypeOK, ghosts, losses
  <1>7. TrustWasGranted' /\ OnlyAdmittedAreServed'
    BY <1>2, <1>3, <1>4, <1>5 DEF TrustInv, TrustWasGranted, OnlyAdmittedAreServed, copy, ghosts
  <1>8. PairedWasAdmitted' /\ BusyHasPhone'
    BY <1>2, <1>3, <1>4, <1>5
       DEF TrustInv, TrustWasGranted, PairedWasAdmitted, BusyHasPhone, pc, who, ghosts
  <1>9. QED
    BY <1>6, <1>7, <1>8 DEF TrustInv

\* _op_pair lets a new phone in under an open window, which is what admits it.
LEMMA PairAddKeeps ==
    ASSUME TrustInv, NEW c \in Conn, PairAdd(c)
    PROVE  TrustInv'
  <1>1. /\ who(c) \in Phone
        /\ peers' = peers \cup {who(c)} /\ admitted' = admitted \cup {who(c)}
        /\ thread' = [thread EXCEPT ![c].pc = "dump"]
        /\ UNCHANGED <<file, up, window, faults, starts, welcomed, unsaved, forgotten, behind>>
        /\ overlapped' = (overlapped \/ Saving # {})
        /\ latest' \subseteq latest \cup {<<c, who(c)>>}
        /\ revoked' \subseteq revoked /\ served' \subseteq served
    BY DEF PairAdd, Changes, TrustInv, BusyHasPhone, Go, Thread, losses
  <1>2. /\ thread' \in [Thread -> ThreadState]
        /\ \A y \in Thread : /\ copy(y)' = copy(y) /\ who(y)' = who(y)
                             /\ thread'[y].paired = thread[y].paired
                             /\ y # c => pc(y)' = pc(y)
    BY <1>1 DEF TrustInv, TypeOK, Thread, ThreadState, copy, who, pc
  <1>3. TypeOK'
    BY <1>1, <1>2 DEF TrustInv, TypeOK, Thread
  <1>4. TrustWasGranted' /\ OnlyAdmittedAreServed'
    BY <1>1, <1>2 DEF TrustInv, TrustWasGranted, OnlyAdmittedAreServed
  <1>5. PairedWasAdmitted' /\ BusyHasPhone'
    BY <1>1, <1>2 DEF TrustInv, PairedWasAdmitted, BusyHasPhone
  <1>6. QED
    BY <1>3, <1>4, <1>5 DEF TrustInv

\* A removal only takes away.
LEMMA UnpairKeeps ==
    ASSUME TrustInv, NEW x \in Tab, NEW p \in Phone, Unpair(x, p)
    PROVE  TrustInv'
  <1> DEFINE new == [Idle EXCEPT !.pc = "dump", !.who = p]
  <1>1. new \in ThreadState /\ new.who = p /\ new.copy = {} /\ ~new.paired
    BY DEF Idle, ThreadState
  <1>2. /\ thread' = [thread EXCEPT ![x] = new]
        /\ peers' = peers \ {p}
        /\ latest' \subseteq latest \cup {<<x, p>>} /\ welcomed' = welcomed \ {p}
        /\ overlapped' = (overlapped \/ Saving # {})
        /\ UNCHANGED <<file, up, window, faults, starts, admitted, revoked, unsaved, forgotten,
                      behind, served>>
    BY DEF Unpair, Changes, losses
  <1> HIDE DEF new
  <1>3. \A y \in Thread : thread'[y] = IF y = x THEN new ELSE thread[y]
    BY <1>2 DEF TrustInv, TypeOK, Thread
  <1>4. TypeOK'
    <2>1. latest' \in SUBSET (Thread \X Phone)
      BY <1>2 DEF TrustInv, TypeOK, Thread
    <2>2. QED
      BY <1>1, <1>2, <2>1 DEF TrustInv, TypeOK
  <1>5. TrustWasGranted' /\ OnlyAdmittedAreServed'
    BY <1>1, <1>2, <1>3 DEF TrustInv, TrustWasGranted, OnlyAdmittedAreServed, copy
  <1>6. PairedWasAdmitted' /\ BusyHasPhone'
    BY <1>1, <1>2, <1>3 DEF TrustInv, PairedWasAdmitted, BusyHasPhone, pc, who
  <1>7. QED
    BY <1>4, <1>5, <1>6 DEF TrustInv

\* A step of a save changes the state of its thread alone, and keeps its phone.
LEMMA SaveUpdate ==
    ASSUME TrustInv, NEW x \in Thread, NEW content \in SUBSET admitted, NEW n \in Nat,
           NEW place \in {"dumping", "rename", "answer"},
           thread' = [thread EXCEPT ![x].pc = place, ![x].copy = content, ![x].size = n]
    PROVE  /\ thread' \in [Thread -> ThreadState]
           /\ \A y \in Thread : /\ who(y)' = who(y) /\ thread'[y].paired = thread[y].paired
                                /\ copy(y)' = IF y = x THEN content ELSE copy(y)
                                /\ y # x => pc(y)' = pc(y)
  <1>1. thread \in [Thread -> ThreadState] /\ content \in SUBSET Phone
    BY DEF TrustInv, TypeOK
  <1>2. /\ thread' \in [Thread -> ThreadState]
        /\ \A y \in Thread : /\ thread'[y].who = thread[y].who
                             /\ thread'[y].paired = thread[y].paired
                             /\ thread'[y].copy = IF y = x THEN content ELSE thread[y].copy
                             /\ y # x => thread'[y].pc = thread[y].pc
    <2>1. thread[x] \in ThreadState
      BY <1>1
    <2>2. thread' = [thread EXCEPT ![x] = [thread[x] EXCEPT !.pc = place, !.copy = content,
                                                            !.size = n]]
      OBVIOUS
    <2>3. PICK new \in ThreadState :
            /\ new = [thread[x] EXCEPT !.pc = place, !.copy = content, !.size = n]
            /\ new.who = thread[x].who /\ new.paired = thread[x].paired
            /\ new.copy = content
      <3> DEFINE r1 == [thread[x] EXCEPT !.pc = place]
                 r2 == [r1 EXCEPT !.copy = content]
                 r3 == [r2 EXCEPT !.size = n]
      <3>1. /\ r1 \in ThreadState
            /\ r1.who = thread[x].who /\ r1.paired = thread[x].paired
        BY <2>1 DEF ThreadState
      <3>2. /\ r2 \in ThreadState
            /\ r2.who = r1.who /\ r2.paired = r1.paired /\ r2.copy = content
        <4> HIDE DEF r1
        <4>1. QED
          BY <1>1, <3>1 DEF ThreadState
      <3>3. /\ r3 \in ThreadState
            /\ r3.who = r2.who /\ r3.paired = r2.paired /\ r3.copy = r2.copy
        <4> HIDE DEF r1, r2
        <4>1. QED
          BY <3>2 DEF ThreadState
      <3>4. r3 = [thread[x] EXCEPT !.pc = place, !.copy = content, !.size = n]
        OBVIOUS
      <3>5. QED
        BY <3>1, <3>2, <3>3, <3>4
    <2>4. thread' = [thread EXCEPT ![x] = new]
      BY <2>2, <2>3
    <2>5. QED
      BY <1>1, <2>3, <2>4
  <1>3. QED
    BY <1>2 DEF who, copy, pc

\* The walk over the dictionary writes no entry that was not in it at some time.
LEMMA DumpKeeps ==
    ASSUME TrustInv, NEW x \in Thread, DumpBegin(x) \/ DumpEnd(x)
    PROVE  TrustInv'
  <1>1. PICK content \in SUBSET admitted, n \in Nat, place \in {"dumping", "rename"} :
          thread' = [thread EXCEPT ![x].pc = place, ![x].copy = content, ![x].size = n]
    <2>1. CASE DumpBegin(x)
      BY <2>1, SizeIsNat DEF DumpBegin, TrustInv, TrustWasGranted
    <2>2. CASE DumpEnd(x)
      <3>1. PICK content \in SUBSET (copy(x) \cup peers) :
              thread' = [thread EXCEPT ![x].pc = "rename", ![x].copy = content]
        BY <2>2 DEF DumpEnd
      <3>2. thread' = [thread EXCEPT ![x].pc = "rename", ![x].copy = content,
                                     ![x].size = thread[x].size]
        BY <3>1 DEF TrustInv, TypeOK, ThreadState
      <3>3. thread[x].size \in Nat
        BY DEF TrustInv, TypeOK, ThreadState
      <3>4. QED
        BY <3>2, <3>3 DEF TrustInv, TrustWasGranted
    <2>3. QED
      BY <2>1, <2>2
  <1>2. UNCHANGED <<file, up, peers, window, faults, starts, ghosts>> /\ pc(x) # "idle"
    BY DEF DumpBegin, DumpEnd
  <1>3. /\ thread' \in [Thread -> ThreadState]
        /\ \A y \in Thread : /\ who(y)' = who(y) /\ thread'[y].paired = thread[y].paired
                             /\ copy(y)' = IF y = x THEN content ELSE copy(y)
                             /\ y # x => pc(y)' = pc(y)
    BY <1>1, SaveUpdate
  <1>4. TypeOK'
    BY <1>2, <1>3 DEF TrustInv, TypeOK, ghosts, losses
  <1>5. TrustWasGranted' /\ OnlyAdmittedAreServed'
    BY <1>1, <1>2, <1>3 DEF TrustInv, TrustWasGranted, OnlyAdmittedAreServed, ghosts
  <1>6. PairedWasAdmitted' /\ BusyHasPhone'
    BY <1>2, <1>3 DEF TrustInv, PairedWasAdmitted, BusyHasPhone, ghosts
  <1>7. QED
    BY <1>4, <1>5, <1>6 DEF TrustInv

\* The file becomes what was serialised.
LEMMA RenameKeeps ==
    ASSUME TrustInv, NEW x \in Thread, Rename(x)
    PROVE  TrustInv'
  <1>1. /\ pc(x) # "idle" /\ file' = copy(x)
        /\ thread' = [thread EXCEPT ![x].pc = "answer", ![x].copy = {}, ![x].size = 0]
        /\ behind' = FALSE
        /\ UNCHANGED <<up, peers, window, faults, starts, admitted, latest, revoked, welcomed,
                      served, overlapped, unsaved, forgotten>>
    BY DEF Rename
  <1>2. /\ thread' \in [Thread -> ThreadState]
        /\ \A y \in Thread : /\ who(y)' = who(y) /\ thread'[y].paired = thread[y].paired
                             /\ copy(y)' = IF y = x THEN {} ELSE copy(y)
                             /\ y # x => pc(y)' = pc(y)
    BY <1>1, SaveUpdate
  <1>3. file' \subseteq admitted /\ file' \subseteq Phone
    BY <1>1 DEF TrustInv, TypeOK, TrustWasGranted
  <1>4. TypeOK'
    BY <1>1, <1>2, <1>3 DEF TrustInv, TypeOK, ghosts, losses
  <1>5. TrustWasGranted' /\ OnlyAdmittedAreServed'
    BY <1>1, <1>2, <1>3 DEF TrustInv, TrustWasGranted, OnlyAdmittedAreServed, ghosts
  <1>6. PairedWasAdmitted' /\ BusyHasPhone'
    BY <1>1, <1>2 DEF TrustInv, PairedWasAdmitted, BusyHasPhone, ghosts
  <1>7. QED
    BY <1>4, <1>5, <1>6 DEF TrustInv

\* The window and the process: a start trusts the file, an end trusts nobody.
LEMMA LifeKeeps ==
    ASSUME TrustInv, OpenPairing \/ WindowEnds \/ Start \/ StartUnread \/ Down \/ UNCHANGED vars
    PROVE  TrustInv'
  <1> USE DEF TrustInv, TypeOK, TrustWasGranted, OnlyAdmittedAreServed, PairedWasAdmitted,
              BusyHasPhone, pc, who, copy, ghosts, losses
  <1>1. CASE OpenPairing \/ WindowEnds
    BY <1>1 DEF OpenPairing, WindowEnds
  <1>2. CASE Start
    BY <1>2, LimitAssumption DEF Start, Begin, LimitAssumption
  <1>3. CASE StartUnread
    BY <1>3, LimitAssumption DEF StartUnread, Begin, LimitAssumption
  <1>4. CASE Down
    BY <1>4, IdleState DEF Down
  <1>5. CASE UNCHANGED vars
    BY <1>5 DEF vars
  <1>6. QED
    BY <1>1, <1>2, <1>3, <1>4, <1>5

\* Every step keeps the invariant.
LEMMA StepTrustInv == TrustInv /\ [Next]_vars => TrustInv'
  <1> SUFFICES ASSUME TrustInv, [Next]_vars PROVE TrustInv'
    OBVIOUS
  <1>1. ASSUME NEW c \in Conn, Handle(c) PROVE TrustInv'
    <2>1. ASSUME Serve(c) \/ TurnAway(c) \/ PairKnown(c) PROVE TrustInv'
      <3>1. who(c) \in Phone /\ c \in Thread
        BY <2>1 DEF Serve, TurnAway, PairKnown, TrustInv, BusyHasPhone, Thread
      <3>2. /\ Done(c)
            /\ UNCHANGED <<file, up, peers, window, faults, starts, admitted, latest, revoked,
                        overlapped>>
            /\ welcomed' \in SUBSET Phone /\ unsaved' \in SUBSET Phone
            /\ forgotten' \in SUBSET Phone /\ behind' \in BOOLEAN
            /\ served' \in SUBSET Phone /\ served' \subseteq admitted
        BY <2>1, <3>1
           DEF Serve, TurnAway, PairKnown, TrustInv, TypeOK, OnlyAdmittedAreServed,
               PairedWasAdmitted, ghosts, losses
      <3>3. QED
        BY <3>1, <3>2, DoneKeeps DEF TrustInv, TypeOK
    <2>2. QED
      BY <1>1, <2>1, HelloKeeps, PairAddKeeps DEF Handle
  <1>2. ASSUME NEW x \in Thread, Save(x) PROVE TrustInv'
    <2>1. ASSUME DumpRaises(x) \/ SaveFails(x) \/ Confirm(x) PROVE TrustInv'
      <3>1. who(x) \in Phone
        BY <2>1 DEF DumpRaises, SaveFails, Confirm, Saving, TrustInv, BusyHasPhone
      <3>2. /\ Done(x)
            /\ UNCHANGED <<file, up, peers, window, starts, admitted, overlapped>>
            /\ faults' \in 0 .. MaxFaults /\ latest' \subseteq latest
        BY <2>1, LimitAssumption
           DEF DumpRaises, SaveFails, Confirm, Answered, TrustInv, TypeOK, LimitAssumption
      <3>3. /\ revoked' \in SUBSET Phone /\ welcomed' \in SUBSET Phone
            /\ unsaved' \in SUBSET Phone /\ forgotten' \in SUBSET Phone /\ behind' \in BOOLEAN
            /\ served' \in SUBSET Phone /\ served' \subseteq admitted
        BY <2>1, <3>1
           DEF DumpRaises, SaveFails, Confirm, TrustInv, TypeOK, OnlyAdmittedAreServed, losses
      <3>4. QED
        BY <3>2, <3>3, DoneKeeps
    <2>2. QED
      BY <1>2, <2>1, DumpKeeps, RenameKeeps DEF Save
  <1>3. ASSUME NEW x \in Tab, NEW p \in Phone, Unpair(x, p) PROVE TrustInv'
    BY <1>3, UnpairKeeps
  <1>4. QED
    BY <1>1, <1>2, <1>3, LifeKeeps DEF Next

\* Trust enters the dictionary, the file and every half-done save only through an
\* open pairing window, whatever interleaves, fails or restarts.
THEOREM TrustComesThroughTheWindow == Spec => []TrustWasGranted
  <1>1. TrustInv => TrustWasGranted
    BY DEF TrustInv
  <1>2. QED
    BY InitTrustInv, StepTrustInv, <1>1, PTL DEF Spec

\* Nobody is served, not even over a connection opened while pairing was possible,
\* who was not let in.
THEOREM ServiceIsForTheAdmitted == Spec => []OnlyAdmittedAreServed
  <1>1. TrustInv => OnlyAdmittedAreServed
    BY DEF TrustInv
  <1>2. QED
    BY InitTrustInv, StepTrustInv, <1>1, PTL DEF Spec

-----------------------------------------------------------------------------
(* Saves that do not overlap *)

\* Thread x removes, or has removed, its phone, and nobody has added it since.
Removes(x) == x \in Tab /\ pc(x) # "idle" /\ <<x, who(x)>> \in latest

\* Thread x adds, or has added, its phone, and nobody has removed it since.
Adds(x) == x \in Conn /\ pc(x) \notin {"idle", "request"} /\ <<x, who(x)>> \in latest

\* Until two saves overlap: what is being saved is what memory holds, whoever is being
\* removed is in neither any more, whoever was told that it is paired is in memory and
\* either in the file or known to lack there, and the file is memory whenever nobody
\* saves, except after a failure.
Alone ==
    /\ \A x, y \in Saving : x = y
    /\ \A x \in Thread : pc(x) \in {"dumping", "rename"} => copy(x) = peers
    /\ \A x \in Thread : pc(x) = "dumping" => thread[x].size = Cardinality(peers)
    /\ \A x \in Thread : Removes(x) => who(x) \notin peers
    /\ \A x \in Thread : Removes(x) /\ pc(x) = "answer" => who(x) \notin file
    /\ revoked \cap (peers \cup file) = {}
    /\ \A x \in Thread : Adds(x) => who(x) \in peers
    /\ \A x \in Thread : Adds(x) /\ pc(x) = "answer" => who(x) \in file
    /\ \A p \in welcomed \ forgotten : /\ up => p \in peers
                                       /\ p \in file \/ (up /\ p \in unsaved)
    /\ up /\ ~behind /\ Saving = {} => file = peers

AloneInv == /\ ~up => \A x \in Thread : pc(x) = "idle"
            /\ overlapped \/ Alone

\* Steps outside of saves: they leave memory, file and what was removed alone.
LEMMA OutsideKeeps ==
    ASSUME TrustInv, AloneInv, NEW x \in Thread, NEW r \in ThreadState,
           thread' = [thread EXCEPT ![x] = r], x \notin Saving,
           r.pc = "idle" \/ (r.pc = "request" /\ x \in Conn /\ up),
           \A p \in revoked' \ revoked : p = who(x) /\ Removes(x) /\ pc(x) = "answer",
           \A p \in welcomed' \ forgotten' :
              \/ p \in welcomed \ forgotten /\ (p \in unsaved => p \in unsaved')
              \/ p \in peers /\ p \in file \cup unsaved'
              \/ p = who(x) /\ Adds(x) /\ pc(x) = "answer",
           latest' \subseteq latest, up,
           UNCHANGED <<file, up, peers, behind, overlapped>>
    PROVE  AloneInv'
  <1>1. \A y \in Thread : thread'[y] = IF y = x THEN r ELSE thread[y]
    BY DEF TrustInv, TypeOK
  <1>2. Saving' = Saving
    BY <1>1 DEF Saving, pc
  <1>3. /\ ~Removes(x)' /\ ~Adds(x)'
        /\ \A y \in Thread : y # x => (Removes(y)' => Removes(y)) /\ (Adds(y)' => Adds(y))
    BY <1>1, ThreadAssumption DEF Removes, Adds, pc, who
  <1>4. (~up => \A y \in Thread : pc(y) = "idle")'
    BY <1>1 DEF AloneInv, pc
  <1>5. Alone => Alone'
    BY <1>1, <1>2, <1>3 DEF Alone, pc, who, copy
  <1>6. QED
    BY <1>4, <1>5 DEF AloneInv

\* A change of the dictionary begins a save: the only one, or overlapped is set.
LEMMA ChangeKeeps ==
    ASSUME TrustInv, AloneInv, NEW x \in Thread, NEW r \in ThreadState, NEW p \in Phone,
           thread' = [thread EXCEPT ![x] = r], r.pc = "dump", r.who = p, up,
           overlapped' = (overlapped \/ Saving # {}),
           \/ /\ x \in Conn /\ peers' = peers \cup {p}
              /\ revoked' = revoked \ {p} /\ welcomed' = welcomed
           \/ /\ x \in Tab /\ peers' = peers \ {p}
              /\ revoked' = revoked /\ welcomed' = welcomed \ {p},
           Changes(x, p),
           UNCHANGED <<file, up, unsaved, forgotten, behind>>
    PROVE  AloneInv'
  <1>1. \A y \in Thread : thread'[y] = IF y = x THEN r ELSE thread[y]
    BY DEF TrustInv, TypeOK
  <1>2. SUFFICES ASSUME ~overlapped' PROVE Alone'
    BY <1>1 DEF AloneInv
  <1>3. Alone /\ Saving = {}
    BY <1>2 DEF AloneInv
  <1>4. Saving' = {x}
    BY <1>1, <1>3 DEF Saving, pc
  <1>5. \A y \in Thread : pc(y)' \notin {"dumping", "rename"}
    BY <1>1, <1>3 DEF Saving, pc
  <1>9. ASSUME NEW y \in Thread, y # x
        PROVE  /\ who(y)' = who(y) /\ pc(y)' = pc(y)
               /\ Removes(y)' => Removes(y) /\ who(y) # p
               /\ Adds(y)' => Adds(y) /\ who(y) # p
    <2>1. who(y)' = who(y) /\ pc(y)' = pc(y)
      BY <1>1, <1>9 DEF pc, who
    <2>2. <<y, who(y)>> \in latest' => <<y, who(y)>> \in latest /\ who(y) # p
      BY <1>9 DEF Changes
    <2>3. QED
      BY <2>1, <2>2 DEF Removes, Adds
  <1>10. pc(x)' = "dump" /\ who(x)' = p
    BY <1>1 DEF pc, who
  <1>6. ASSUME NEW y \in Thread
        PROVE  /\ Removes(y)' => who(y)' \notin peers'
                                 /\ (pc(y)' = "answer" => who(y)' \notin file')
               /\ Adds(y)' => who(y)' \in peers' /\ (pc(y)' = "answer" => who(y)' \in file')
    <2>1. CASE y = x
      BY <1>10, <2>1, ThreadAssumption DEF Removes, Adds
    <2>2. CASE y # x
      BY <1>3, <1>9, <2>2 DEF Alone
    <2>3. QED
      BY <2>1, <2>2
  <1>7. /\ (revoked \cap (peers \cup file) = {})'
        /\ (\A q \in welcomed \ forgotten : /\ up => q \in peers
                                            /\ q \in file \/ (up /\ q \in unsaved))'
    BY <1>3 DEF Alone
  <1>8. QED
    BY <1>4, <1>5, <1>6, <1>7 DEF Alone

\* What a step of a save makes of the state of its thread.
LEMMA UpdateState ==
    ASSUME NEW s \in ThreadState, NEW place, NEW content, NEW n
    PROVE  LET r == [s EXCEPT !.pc = place, !.copy = content, !.size = n]
           IN  r.pc = place /\ r.copy = content /\ r.size = n /\ r.who = s.who
  <1> DEFINE r1 == [s EXCEPT !.pc = place]
             r2 == [r1 EXCEPT !.copy = content]
  <1>1. /\ DOMAIN r1 = {"pc", "who", "paired", "copy", "size"}
        /\ r1.pc = place /\ r1.who = s.who /\ r1 = [k \in DOMAIN r1 |-> r1[k]]
    BY DEF ThreadState
  <1>2. /\ DOMAIN r2 = {"pc", "who", "paired", "copy", "size"}
        /\ r2.pc = place /\ r2.who = s.who /\ r2.copy = content /\ r2 = [k \in DOMAIN r2 |-> r2[k]]
    <2> HIDE DEF r1
    <2>1. QED
      BY <1>1
  <1>3. QED
    <2> HIDE DEF r1
    <2>1. [s EXCEPT !.pc = place, !.copy = content, !.size = n] = [r2 EXCEPT !.size = n]
      BY DEF r1
    <2> HIDE DEF r2
    <2>2. QED
      BY <1>2, <2>1

\* A step of a save that goes on: what is copied is what memory holds.
LEMMA SaveGoesOn ==
    ASSUME TrustInv, AloneInv, NEW x \in Thread, NEW r,
           thread' = [thread EXCEPT ![x] = r],
           r.pc \in {"dumping", "rename", "answer"}, r.who = who(x),
           pc(x) \in {"dump", "dumping", "rename"},
           Alone /\ r.pc # "answer" => r.copy = peers,
           r.pc = "dumping" => r.size = Cardinality(peers),
           r.pc = "answer" => pc(x) = "rename",
           file' = IF r.pc = "answer" THEN copy(x) ELSE file,
           behind' = (behind /\ r.pc # "answer"),
           UNCHANGED <<up, peers, latest, revoked, welcomed, unsaved, forgotten, overlapped>>
    PROVE  AloneInv'
  <1>1. \A y \in Thread : thread'[y] = IF y = x THEN r ELSE thread[y]
    BY DEF TrustInv, TypeOK
  <1>2. \A y \in Thread : /\ who(y)' = who(y)
                          /\ pc(y)' = IF y = x THEN r.pc ELSE pc(y)
                          /\ copy(y)' = IF y = x THEN r.copy ELSE copy(y)
    BY <1>1 DEF pc, who, copy
  <1>3. \A y \in Thread : (Removes(y)' <=> Removes(y)) /\ (Adds(y)' <=> Adds(y))
    BY <1>2 DEF Removes, Adds
  <1>4. /\ x \in Saving
        /\ Saving' = IF r.pc = "answer" THEN Saving \ {x} ELSE Saving
    BY <1>2 DEF Saving
  <1>5. up
    BY DEF AloneInv
  <1>6. Alone => Alone'
    BY <1>1, <1>2, <1>3, <1>4, <1>5 DEF Alone
  <1>7. QED
    BY <1>5, <1>6 DEF AloneInv

\* A save that fails: the file stays behind.
LEMMA SaveBreaks ==
    ASSUME TrustInv, AloneInv, NEW x \in Thread, DumpRaises(x) \/ SaveFails(x)
    PROVE  AloneInv'
  <1>1. /\ x \in Saving /\ thread' = [thread EXCEPT ![x] = Idle]
        /\ latest' \subseteq latest
        /\ UNCHANGED <<file, up, peers, revoked, welcomed, unsaved, forgotten, overlapped>>
    BY DEF DumpRaises, SaveFails, Answered, Done, Saving, losses
  <1>2. \A y \in Thread : thread'[y] = IF y = x THEN Idle ELSE thread[y]
    BY <1>1 DEF TrustInv, TypeOK
  <1>3. Alone => behind'
    BY DEF DumpRaises, SaveFails, Alone
  <1>4. Saving' = Saving \ {x}
    BY <1>2, IdleState DEF Saving, pc
  <1>5. /\ ~Removes(x)' /\ ~Adds(x)'
        /\ \A y \in Thread : y # x => (Removes(y)' => Removes(y)) /\ (Adds(y)' => Adds(y))
    BY <1>1, <1>2, IdleState DEF Removes, Adds, pc, who
  <1>6. Alone => Alone'
    BY <1>1, <1>2, <1>3, <1>4, <1>5, IdleState DEF Alone, pc, who, copy
  <1>7. (~up => \A y \in Thread : pc(y) = "idle")'
    BY <1>1, <1>2, IdleState DEF AloneInv, pc
  <1>8. QED
    BY <1>1, <1>6, <1>7 DEF AloneInv

\* The process: a start finds no save under way and trusts the file.
LEMMA LifeKeepsAlone ==
    ASSUME TrustInv, AloneInv,
           OpenPairing \/ WindowEnds \/ Start \/ StartUnread \/ Down \/ UNCHANGED vars
    PROVE  AloneInv'
  <1>1. CASE OpenPairing \/ WindowEnds \/ UNCHANGED vars
    BY <1>1 DEF OpenPairing, WindowEnds, vars, ghosts, losses, AloneInv, Alone, Removes, Adds,
                Saving, pc, who, copy
  <1>2. CASE Start
    BY <1>2 DEF Start, Begin, AloneInv, Alone, Removes, Adds, Saving, pc, who, copy
  <1>3. CASE StartUnread
    BY <1>3 DEF StartUnread, Begin, AloneInv, Alone, Removes, Adds, Saving, pc, who, copy
  <1>4. CASE Down
    BY <1>4, IdleState DEF Down, AloneInv, Alone, Removes, Adds, Saving, pc, who, copy
  <1>5. QED
    BY <1>1, <1>2, <1>3, <1>4

\* Every step keeps it.
LEMMA StepAlone == TrustInv /\ AloneInv /\ [Next]_vars => AloneInv'
  <1> SUFFICES ASSUME TrustInv, AloneInv, [Next]_vars PROVE AloneInv'
    OBVIOUS
  <1>1. ASSUME NEW c \in Conn, NEW p \in Phone, Hello(c, p) PROVE AloneInv'
    <2>1. PICK known \in BOOLEAN : known = (p \in peers)
      <3>1. (p \in peers) \in BOOLEAN
        OBVIOUS
      <3>2. QED
        BY <3>1, Zenon
    <2> DEFINE r == [Idle EXCEPT !.pc = "request", !.who = p, !.paired = known]
    <2>2. r \in ThreadState /\ r.pc = "request"
      BY DEF Idle, ThreadState
    <2>3. thread' = [thread EXCEPT ![c] = r] /\ pc(c) = "idle" /\ up
          /\ UNCHANGED <<file, up, peers, window, faults, starts, ghosts>>
      BY <1>1, <2>1, Zenon DEF Hello
    <2> HIDE DEF r
    <2>4. c \in Thread /\ c \notin Saving
      BY <2>3 DEF Saving, Thread
    <2>5. UNCHANGED <<file, up, peers, latest, overlapped, revoked, welcomed, unsaved, forgotten,
                      behind>>
      BY <2>3 DEF ghosts, losses
    <2>6. QED
      BY <2>2, <2>3, <2>4, <2>5, OutsideKeeps
  <1>2. ASSUME NEW c \in Conn, Serve(c) \/ TurnAway(c) \/ PairKnown(c) PROVE AloneInv'
    <2>1. /\ c \in Thread /\ c \notin Saving /\ thread' = [thread EXCEPT ![c] = Idle]
          /\ UNCHANGED <<file, up, peers, latest, overlapped, revoked, behind>> /\ up
      BY <1>2 DEF Serve, TurnAway, PairKnown, Done, Saving, Thread, ghosts, losses, AloneInv
    <2>2. \A p \in welcomed' \ forgotten' :
             \/ p \in welcomed \ forgotten /\ (p \in unsaved => p \in unsaved')
             \/ p \in peers /\ p \in file \cup unsaved'
      BY <1>2 DEF Serve, TurnAway, PairKnown, ghosts, losses
    <2>3. QED
      BY <2>1, <2>2, IdleState, OutsideKeeps
  <1>3. ASSUME NEW x \in Thread, Confirm(x) PROVE AloneInv'
    <2>1. /\ x \notin Saving /\ pc(x) = "answer" /\ thread' = [thread EXCEPT ![x] = Idle]
          /\ latest' \subseteq latest
          /\ UNCHANGED <<file, up, peers, behind, overlapped>> /\ up
      BY <1>3 DEF Confirm, Answered, Done, Saving, AloneInv
    <2>2. \A p \in revoked' \ revoked : p = who(x) /\ Removes(x)
      BY <1>3, <2>1 DEF Confirm, Removes, Thread
    <2>3. \A p \in welcomed' \ forgotten' :
             \/ p \in welcomed \ forgotten /\ (p \in unsaved => p \in unsaved')
             \/ p = who(x) /\ Adds(x)
      <3> DEFINE told == {p \in {who(x)} : <<x, p>> \in latest}
      <3>1. CASE x \in Conn
        <4>1. /\ welcomed' = welcomed \cup told /\ unsaved' = unsaved \ told
              /\ forgotten' = forgotten \ told
          BY <1>3, <3>1, Zenon DEF Confirm
        <4>2. \A p \in told : p = who(x) /\ Adds(x)
          BY <2>1, <3>1 DEF Adds
        <4>3. QED
          BY <4>1, <4>2
      <3>2. CASE x \notin Conn
        BY <1>3, <3>2, Zenon DEF Confirm
      <3>3. QED
        BY <3>1, <3>2
    <2>4. QED
      BY <2>1, <2>2, <2>3, IdleState, OutsideKeeps
  <1>4. ASSUME NEW c \in Conn, PairAdd(c) PROVE AloneInv'
    <2> DEFINE r == [thread[c] EXCEPT !.pc = "dump"]
    <2>1. c \in Thread /\ who(c) \in Phone /\ thread[c] \in ThreadState /\ up
      BY <1>4 DEF PairAdd, TrustInv, TypeOK, BusyHasPhone, Thread, AloneInv
    <2>2. r \in ThreadState /\ r.pc = "dump" /\ r.who = who(c)
      BY <2>1 DEF ThreadState, who
    <2>3. thread' = [thread EXCEPT ![c] = r]
      BY <1>4 DEF PairAdd, Go
    <2> HIDE DEF r
    <2>4. QED
      BY <1>4, <2>1, <2>2, <2>3, ChangeKeeps DEF PairAdd, losses
  <1>5. ASSUME NEW x \in Tab, NEW p \in Phone, Unpair(x, p) PROVE AloneInv'
    <2> DEFINE r == [Idle EXCEPT !.pc = "dump", !.who = p]
    <2>1. r \in ThreadState /\ r.pc = "dump" /\ r.who = p /\ x \in Thread
      BY DEF Idle, ThreadState, Thread
    <2>2. thread' = [thread EXCEPT ![x] = r]
      BY <1>5 DEF Unpair
    <2> HIDE DEF r
    <2>3. QED
      BY <1>5, <2>1, <2>2, ChangeKeeps DEF Unpair, losses
  <1>6. ASSUME NEW x \in Thread, DumpBegin(x) PROVE AloneInv'
    <2> DEFINE r == [thread[x] EXCEPT !.pc = "dumping", !.copy = peers,
                                      !.size = Cardinality(peers)]
    <2>1. /\ pc(x) = "dump" /\ thread' = [thread EXCEPT ![x] = r]
          /\ UNCHANGED <<file, up, peers, latest, revoked, welcomed, losses, overlapped>>
      BY <1>6 DEF DumpBegin, ghosts
    <2>2. r.pc = "dumping" /\ r.copy = peers /\ r.size = Cardinality(peers) /\ r.who = who(x)
      BY UpdateState DEF TrustInv, TypeOK, who
    <2> HIDE DEF r
    <2>3. QED
      BY <2>1, <2>2, SaveGoesOn DEF losses, TrustInv, TypeOK
  <1>7. ASSUME NEW x \in Thread, DumpEnd(x) PROVE AloneInv'
    <2>1. PICK content \in SUBSET (copy(x) \cup peers) :
            /\ copy(x) \cap peers \subseteq content
            /\ thread' = [thread EXCEPT ![x].pc = "rename", ![x].copy = content]
      BY <1>7 DEF DumpEnd
    <2> DEFINE r == [thread[x] EXCEPT !.pc = "rename", !.copy = content,
                                      !.size = thread[x].size]
    <2>2. thread' = [thread EXCEPT ![x] = r]
      BY <2>1 DEF TrustInv, TypeOK, ThreadState
    <2>3. r.pc = "rename" /\ r.copy = content /\ r.who = who(x)
      BY UpdateState DEF TrustInv, TypeOK, who
    <2>4. /\ pc(x) = "dumping"
          /\ UNCHANGED <<file, up, peers, latest, revoked, welcomed, losses, overlapped>>
      BY <1>7 DEF DumpEnd, ghosts
    <2>5. Alone => content = peers
      BY <2>1, <2>4 DEF Alone
    <2> HIDE DEF r
    <2>6. QED
      BY <2>2, <2>3, <2>4, <2>5, SaveGoesOn DEF losses, TrustInv, TypeOK
  <1>8. ASSUME NEW x \in Thread, Rename(x) PROVE AloneInv'
    <2> DEFINE r == [thread[x] EXCEPT !.pc = "answer", !.copy = {}, !.size = 0]
    <2>1. thread' = [thread EXCEPT ![x] = r]
      BY <1>8 DEF Rename
    <2>2. r.pc = "answer" /\ r.who = who(x)
      BY UpdateState DEF TrustInv, TypeOK, who
    <2>3. /\ pc(x) = "rename" /\ file' = copy(x)
          /\ UNCHANGED <<up, peers, latest, revoked, welcomed, unsaved, forgotten, overlapped>>
          /\ behind' = FALSE
      BY <1>8 DEF Rename
    <2> HIDE DEF r
    <2>4. QED
      BY <2>1, <2>2, <2>3, SaveGoesOn
  <1>9. QED
    BY <1>1, <1>2, <1>3, <1>4, <1>5, <1>6, <1>7, <1>8, SaveBreaks, LifeKeepsAlone
       DEF Next, Handle, Save, Thread

\* In every behaviour both invariants hold.
LEMMA AloneHolds == Spec => [](TrustInv /\ AloneInv)
  <1>1. Init => AloneInv
    BY IdleState DEF Init, AloneInv, Alone, Removes, Adds, Saving, pc, who, copy
  <1>2. QED
    BY InitTrustInv, StepTrustInv, <1>1, StepAlone, PTL DEF Spec

\* Types, for any number of phones, threads, failures and restarts.
THEOREM TypeCorrect == Spec => []TypeOK
  <1>1. TrustInv => TypeOK
    BY DEF TrustInv
  <1>2. QED
    BY InitTrustInv, StepTrustInv, <1>1, PTL DEF Spec

\* A confirmed removal is final, through failures and restarts, until the phone pairs
\* again or two saves overlap.
THEOREM RevocationIsFinal == Spec => []RevokedUnlessOverlap
  <1>1. AloneInv => RevokedUnlessOverlap
    BY DEF AloneInv, Alone, RevokedUnlessOverlap, RevokedStaysRevoked
  <1>2. QED
    BY AloneHolds, <1>1, PTL

\* A phone that was told it is paired is trusted until it is removed, through failing saves
\* and restarts, with the three exceptions that the property names.
THEOREM WelcomeIsKept == Spec => []WelcomedStaysTrusted
  <1>1. AloneInv => WelcomedStaysTrusted
    <2>1. SUFFICES ASSUME AloneInv, up, ~overlapped, NEW p \in welcomed \ forgotten
                   PROVE  p \in peers
      BY DEF WelcomedStaysTrusted
    <2>2. QED
      BY <2>1 DEF AloneInv, Alone
  <1>2. QED
    BY AloneHolds, <1>1, PTL

\* Between saves that do not overlap the file is what memory holds; what a failure leaves
\* apart the next save brings together.
THEOREM FileAgrees == Spec => []FileIsCurrent
  <1>1. AloneInv => FileIsCurrent
    BY DEF AloneInv, Alone, FileIsCurrent, Saving
  <1>2. QED
    BY AloneHolds, <1>1, PTL

=============================================================================
