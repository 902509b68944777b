------------------------- MODULE ImportBundleProofs -------------------------
(***************************************************************************)
(* Proofs about ImportBundle, for all bundles, importers and bounds: every *)
(* import is one atomic union (MergesAsOne), whatever overlaps and fails;  *)
(* and as long as imports do not overlap, no message whose stamp always    *)
(* comes as a float is stored twice (NoDuplicatesInTurn).                  *)
(***************************************************************************)
EXTENDS ImportBundle, FiniteSetTheorems, TLAPS

-----------------------------------------------------------------------------
(* Types *)

\* The bundle an importer works on, Empty included, is a pair of lists.
LEMMA BundleType ==
    ASSUME TypeOK, NEW i \in Importer
    PROVE  /\ import[i] \in ImportState
           /\ import[i].bundle.sessions \in Seq(Session)
           /\ import[i].bundle.messages \in Seq(Message)
  <1>1. import[i] \in ImportState
    BY DEF TypeOK
  <1>2. import[i].bundle \in Bundle \cup {Empty}
    BY <1>1 DEF ImportState
  <1>3. CASE import[i].bundle \in Bundle
    BY <1>1, <1>3, BundleAssumption
  <1>4. CASE import[i].bundle = Empty
    BY <1>1, <1>4 DEF Empty
  <1>5. QED
    BY <1>2, <1>3, <1>4

\* A message as it is stored is a message, and it is stored as itself; a message is
\* its own natural key.
LEMMA StoredType ==
    ASSUME NEW m \in Message
    PROVE  /\ AsStored(m) \in Message
           /\ AsStored(AsStored(m)) = AsStored(m)
           /\ m.form = "real" => AsStored(m) = m
           /\ NaturalKey(m) = m
  <1>1. m = [session |-> m.session, text |-> m.text, form |-> m.form]
    BY DEF Message
  <1>2. AsStored(m) = [session |-> m.session, text |-> m.text, form |-> "real"]
    BY <1>1 DEF AsStored
  <1>3. AsStored(m) \in Message
    BY <1>2 DEF Message
  <1>4. AsStored(AsStored(m)) = AsStored(m)
    BY <1>2 DEF AsStored
  <1>5. m.form = "real" => AsStored(m) = m
    BY <1>1, <1>2
  <1>6. NaturalKey(m) = m
    BY <1>1 DEF NaturalKey
  <1>7. QED
    BY <1>3, <1>4, <1>5, <1>6

\* The state of a thread that runs no import.
LEMMA IdleType == Idle \in ImportState
  <1>1. NoRows \in [Message -> Nat]
    BY DEF NoRows
  <1>2. QED
    BY <1>1 DEF Idle, ImportState

\* What a step writes into the state of an import leaves it an import's state.
LEMMA UpdateType ==
    ASSUME NEW r \in ImportState, NEW p \in {"idle", "sessions", "insert", "messages"},
           NEW k \in Nat \ {0}, NEW u \in SUBSET Session, NEW ks \in SUBSET Message,
           NEW a \in SUBSET Session, NEW w \in [Message -> Nat]
    PROVE  /\ [r EXCEPT !.n = k] \in ImportState
           /\ [r EXCEPT !.pc = p] \in ImportState
           /\ [r EXCEPT !.pc = p, !.n = k, !.added = a] \in ImportState
           /\ [r EXCEPT !.pc = p, !.n = k, !.unread = u] \in ImportState
           /\ [r EXCEPT !.unread = u, !.keys = ks] \in ImportState
           /\ [r EXCEPT !.n = k, !.rows = w, !.keys = ks] \in ImportState
  <1>1. [r EXCEPT !.n = k] \in ImportState
    BY DEF ImportState
  <1>2. [r EXCEPT !.pc = p] \in ImportState
    BY DEF ImportState
  <1>3. [r EXCEPT !.pc = p, !.n = k, !.added = a] \in ImportState
    BY DEF ImportState
  <1>4. [r EXCEPT !.pc = p, !.n = k, !.unread = u] \in ImportState
    BY DEF ImportState
  <1>5. [r EXCEPT !.unread = u, !.keys = ks] \in ImportState
    BY DEF ImportState
  <1>6. [r EXCEPT !.n = k, !.rows = w, !.keys = ks] \in ImportState
    BY DEF ImportState
  <1>7. QED
    BY <1>1, <1>2, <1>3, <1>4, <1>5, <1>6

\* The parts of an import's state.
LEMMA FieldType ==
    ASSUME NEW r \in ImportState
    PROVE  /\ r.pc \in {"idle", "sessions", "insert", "messages"}
           /\ r.n \in Nat \ {0}
           /\ r.unread \in SUBSET Session /\ r.keys \in SUBSET Message
           /\ r.added \in SUBSET Session /\ r.rows \in [Message -> Nat]
  BY DEF ImportState

\* Every step keeps the types.
LEMMA StepType ==
    ASSUME IInv, NEW i \in Importer, Step(i)
    PROVE  TypeOK'
  <1> USE DEF pc
  <1>0. /\ TypeOK
        /\ import[i] \in ImportState
        /\ import[i].bundle.sessions \in Seq(Session)
        /\ import[i].bundle.messages \in Seq(Message)
    BY BundleType DEF IInv
  <1>fields. /\ import[i].n + 1 \in Nat \ {0} /\ 1 \in Nat \ {0}
         /\ import[i].unread \in SUBSET Session /\ import[i].keys \in SUBSET Message
         /\ import[i].added \in SUBSET Session /\ import[i].rows \in [Message -> Nat]
         /\ import[i] \in ImportState
    BY <1>0, FieldType
  <1>1. ASSUME NEW b \in Bundle, Begin(i, b) PROVE TypeOK'
    <2>1. [Idle EXCEPT !.pc = "sessions", !.bundle = b] \in ImportState
      BY IdleType DEF ImportState, Idle
    <2>2. begun' \in 0 .. MaxImports /\ together' \in BOOLEAN
      BY <1>0, <1>1, ThreadAssumption DEF Begin, TypeOK
    <2>3. QED
      BY <1>0, <1>1, <2>1, <2>2 DEF Begin, TypeOK
  <1>2. CASE LookForSession(i)
    <2>1. [import[i] EXCEPT !.n = @ + 1] \in ImportState
      BY <1>fields, UpdateType
    <2>2. [import[i] EXCEPT !.pc = "insert"] \in ImportState
      BY <1>fields, UpdateType
    <2>3. QED
      BY <1>0, <1>2, <2>1, <2>2 DEF LookForSession, TypeOK
  <1>3. CASE InsertSession(i)
    <2>1. CurrentSession(i) \in Session
      <3>1. import[i].n \in 1 .. Len(import[i].bundle.sessions)
        BY <1>0, <1>3 DEF InsertSession, IInv, AddsNothingElse, SessionsLeft, ImportState
      <3>2. QED
        BY <1>0, <3>1 DEF CurrentSession
    <2>2. [import[i] EXCEPT !.pc = "sessions", !.n = @ + 1,
                            !.added = @ \cup {CurrentSession(i)}] \in ImportState
      <3>1. import[i].added \cup {CurrentSession(i)} \in SUBSET Session
        BY <1>fields, <2>1
      <3>2. QED
        BY <1>fields, <3>1, UpdateType
    <2>3. QED
      BY <1>0, <1>3, <2>2 DEF InsertSession, TypeOK
  <1>4. CASE SessionsDone(i)
    <2> DEFINE sids == {m.session : m \in Elements(import[i].bundle.messages)}
    <2>1. sids \in SUBSET Session
      <3>1. Elements(import[i].bundle.messages) \subseteq Message
        BY <1>0 DEF Elements
      <3>2. QED
        BY <3>1 DEF Message
    <2> HIDE DEF sids
    <2>2. [import[i] EXCEPT !.pc = "messages", !.n = 1, !.unread = sids] \in ImportState
      BY <1>fields, <2>1, UpdateType
    <2>3. QED
      BY <1>0, <1>4, <2>2 DEF SessionsDone, TypeOK, sids
  <1>5. ASSUME NEW s \in Session, LoadKeys(i, s) PROVE TypeOK'
    <2> DEFINE loaded == {NaturalKey(m) : m \in {x \in Message : x.session = s /\ SeesMessage(i, x)}}
    <2>1. loaded \in SUBSET Message
      BY StoredType
    <2>2. [import[i] EXCEPT !.unread = @ \ {s}, !.keys = @ \cup loaded] \in ImportState
      BY <1>fields, <2>1, UpdateType
    <2>3. QED
      BY <1>0, <1>5, <2>2 DEF LoadKeys, TypeOK
  <1>6. CASE SkipMessage(i)
    <2>1. [import[i] EXCEPT !.n = @ + 1] \in ImportState
      BY <1>fields, UpdateType
    <2>2. QED
      BY <1>0, <1>6, <2>1 DEF SkipMessage, TypeOK
  <1>7. CASE InsertMessage(i)
    <2> DEFINE m == CurrentMessage(i)
    <2>1. m \in Message
      <3>1. import[i].n \in 1 .. Len(import[i].bundle.messages)
        BY <1>0, <1>7 DEF InsertMessage, MessagesLeft, ImportState
      <3>2. QED
        BY <1>0, <3>1 DEF CurrentMessage
    <2>2. AsStored(m) \in Message /\ NaturalKey(m) \in Message
      BY <2>1, StoredType
    <2> HIDE DEF m
    <2>3. [import[i].rows EXCEPT ![AsStored(m)] = @ + 1] \in [Message -> Nat]
      <3>1. import[i].rows \in [Message -> Nat]
        BY <1>0 DEF ImportState
      <3>2. QED
        BY <2>2, <3>1
    <2>4. [import[i] EXCEPT !.n = @ + 1,
              !.rows = [import[i].rows EXCEPT ![AsStored(m)] = @ + 1],
              !.keys = @ \cup {NaturalKey(m)}] \in ImportState
      <3>1. import[i].keys \cup {NaturalKey(m)} \in SUBSET Message
        BY <1>fields, <2>2
      <3>2. QED
        BY <1>fields, <2>3, <3>1, UpdateType
    <2>5. import' = [import EXCEPT ![i] = [import[i] EXCEPT !.n = @ + 1,
              !.rows = [import[i].rows EXCEPT ![AsStored(m)] = @ + 1],
              !.keys = @ \cup {NaturalKey(m)}]]
      BY <1>0, <1>7 DEF InsertMessage, m, TypeOK
    <2>6. QED
      <3>1. import' \in [Importer -> ImportState]
        BY <1>0, <2>4, <2>5 DEF TypeOK
      <3>2. QED
        BY <1>0, <1>7, <3>1 DEF InsertMessage, TypeOK
  <1>8. CASE Commit(i)
    <2>1. sessions' \in SUBSET Session
      BY <1>0, <1>8 DEF Commit, TypeOK, ImportState
    <2>2. copies' \in [Message -> Nat]
      BY <1>0, <1>8 DEF Commit, TypeOK, ImportState
    <2>3. import' \in [Importer -> ImportState]
      BY <1>0, <1>8, IdleType DEF Commit, TypeOK
    <2>4. QED
      BY <1>0, <1>8, <2>1, <2>2, <2>3 DEF Commit, Release, TypeOK
  <1>9. CASE Fail(i)
    BY <1>0, <1>9, IdleType DEF Fail, Release, TypeOK
  <1>10. QED
    BY <1>1, <1>2, <1>3, <1>4, <1>5, <1>6, <1>7, <1>8, <1>9 DEF Step

-----------------------------------------------------------------------------
(* The invariant behind MergesAsOne *)

\* A step takes nothing away from what an importer sees, as long as it leaves the
\* importer itself alone: what holds of the other importers goes on holding.
LEMMA OthersKeep ==
    ASSUME IInv, TypeOK', NEW j \in Importer,
           import'[j] = import[j],
           sessions \subseteq sessions',
           \A m \in Message : copies'[m] >= copies[m]
    PROVE  MissesNothing(j)' /\ AddsNothingElse(j)'
  <1>0. /\ MissesNothing(j) /\ AddsNothingElse(j)
        /\ import[j].bundle.messages \in Seq(Message)
        /\ import[j].keys \in SUBSET Message
        /\ import[j].rows \in [Message -> Nat]
        /\ copies \in [Message -> Nat] /\ copies' \in [Message -> Nat]
    BY BundleType, FieldType DEF IInv, TypeOK
  <1>1. \A s : SeesSession(j, s) => SeesSession(j, s)'
    BY DEF SeesSession
  <1>2. \A m \in Message : SeesMessage(j, m) => SeesMessage(j, m)'
    BY <1>0 DEF SeesMessage
  <1>3. \A m \in Message : AsStored(m) \in Message
    BY StoredType
  <1>4. \A k \in 1 .. Len(import[j].bundle.messages) : import[j].bundle.messages[k] \in Message
    BY <1>0
  <1>5. MissesNothing(j)'
    BY <1>0, <1>1, <1>2, <1>3, <1>4 DEF MissesNothing, pc
  <1>6. AddsNothingElse(j)'
    BY <1>0 DEF AddsNothingElse, pc, SessionsLeft
  <1>7. QED
    BY <1>5, <1>6

\* A fresh or finished import has nothing behind it and nothing in its transaction.
LEMMA FreshKeeps ==
    ASSUME TypeOK', NEW i \in Importer,
           import'[i].pc \in {"idle", "sessions"}, import'[i].n = 1,
           import'[i].keys = {}, import'[i].added = {}, import'[i].rows = NoRows
    PROVE  MissesNothing(i)' /\ AddsNothingElse(i)'
  <1>1. MissesNothing(i)'
    BY DEF MissesNothing, pc
  <1>2. AddsNothingElse(i)'
    BY DEF AddsNothingElse, pc, NoRows
  <1>3. QED
    BY <1>1, <1>2

\* Every step keeps the invariant.
LEMMA StepIInv ==
    ASSUME IInv, NEW i \in Importer, Step(i)
    PROVE  IInv'
  <1>t. TypeOK'
    BY StepType
  <1>0. /\ TypeOK /\ MissesNothing(i) /\ AddsNothingElse(i)
        /\ import \in [Importer -> ImportState]
        /\ import[i].bundle.sessions \in Seq(Session)
        /\ import[i].bundle.messages \in Seq(Message)
        /\ copies \in [Message -> Nat]
    BY BundleType DEF IInv, TypeOK
  <1>fields. /\ import[i].n \in Nat \ {0} /\ import[i].keys \in SUBSET Message
             /\ import[i].rows \in [Message -> Nat] /\ import[i] \in ImportState
    BY <1>0, FieldType
  <1>stored. \A m \in Message : SeesMessage(i, m) => m.form = "real"
    <2>1. ASSUME NEW m \in Message, import[i].rows[m] > 0 PROVE m.form = "real"
      <3>1. PICK x \in Elements(import[i].bundle.messages) : m = AsStored(x)
        BY <1>0, <2>1 DEF AddsNothingElse
      <3>2. x \in Message
        BY <1>0 DEF Elements
      <3>3. QED
        BY <3>1, <3>2 DEF AsStored, Message
    <2>2. ASSUME NEW m \in Message, copies[m] > 0 PROVE m.form = "real"
      BY <2>2 DEF IInv, StampsAreFloats
    <2>3. QED
      BY <1>0, <1>fields, <2>1, <2>2 DEF SeesMessage
  <1>floats. StampsAreFloats'
    <2>1. CASE Commit(i)
      BY <1>0, <1>fields, <1>stored, <2>1 DEF Commit, StampsAreFloats, SeesMessage
    <2>2. CASE ~Commit(i)
      <3>1. UNCHANGED copies
        BY <2>2 DEF Step, Begin, LookForSession, InsertSession, SessionsDone, LoadKeys,
                    SkipMessage, InsertMessage, Fail
      <3>2. QED
        BY <3>1 DEF IInv, StampsAreFloats
    <2>3. QED
      BY <2>1, <2>2
  <1>others. ASSUME NEW j \in Importer, j # i
             PROVE  MissesNothing(j)' /\ AddsNothingElse(j)'
    <2>1. import'[j] = import[j]
      BY <1>0, <1>others DEF Step, Begin, LookForSession, InsertSession, SessionsDone, LoadKeys,
                     SkipMessage, InsertMessage, Commit, Fail
    <2>2. sessions \subseteq sessions'
      BY DEF Step, Begin, LookForSession, InsertSession, SessionsDone, LoadKeys,
                     SkipMessage, InsertMessage, Commit, Fail
    <2>3. \A m \in Message : copies'[m] >= copies[m]
      <3>1. copies' = copies \/ copies' = [m \in Message |-> copies[m] + import[i].rows[m]]
        BY DEF Step, Begin, LookForSession, InsertSession, SessionsDone, LoadKeys,
                     SkipMessage, InsertMessage, Commit, Fail
      <3>2. \A m \in Message : copies[m] \in Nat /\ import[i].rows[m] \in Nat
        BY <1>0, <1>fields
      <3>3. QED
        BY <3>1, <3>2
    <2>4. QED
      BY <1>t, <2>1, <2>2, <2>3, OthersKeep
  <1>own. MissesNothing(i)' /\ AddsNothingElse(i)'
    <2>1. ASSUME NEW b \in Bundle, Begin(i, b)
          PROVE  MissesNothing(i)' /\ AddsNothingElse(i)'
      BY <1>0, <1>t, <2>1, FreshKeeps DEF Begin, Idle
    <2>2. CASE LookForSession(i)
      <3>1. /\ import'[i].bundle = import[i].bundle /\ import'[i].keys = import[i].keys
            /\ import'[i].added = import[i].added /\ import'[i].rows = import[i].rows
            /\ pc(i) = "sessions" /\ SessionsLeft(i)
            /\ \/ /\ SeesSession(i, CurrentSession(i))
                  /\ import'[i].n = import[i].n + 1 /\ import'[i].pc = "sessions"
               \/ /\ import'[i].n = import[i].n /\ import'[i].pc = "insert"
        BY <1>0, <1>fields, <2>2 DEF LookForSession, ImportState, pc
      <3>2. /\ \A s : SeesSession(i, s)' <=> SeesSession(i, s)
            /\ \A m : SeesMessage(i, m)' <=> SeesMessage(i, m)
        BY <2>2, <3>1 DEF LookForSession, SeesSession, SeesMessage
      <3>3. MissesNothing(i)'
        <4>1. \A k \in 1 .. Len(import[i].bundle.sessions) :
                 k < import'[i].n => SeesSession(i, import[i].bundle.sessions[k])
          <5>1. \A k \in 1 .. Len(import[i].bundle.sessions) :
                   k < import[i].n => SeesSession(i, import[i].bundle.sessions[k])
            BY <1>0 DEF MissesNothing
          <5>2. CASE import'[i].n = import[i].n
            BY <5>1, <5>2
          <5>3. CASE import'[i].n = import[i].n + 1
            <6>1. SeesSession(i, import[i].bundle.sessions[import[i].n])
              BY <1>fields, <3>1, <5>3 DEF CurrentSession
            <6>2. \A k \in 1 .. Len(import[i].bundle.sessions) :
                     k < import[i].n + 1 => k < import[i].n \/ k = import[i].n
              BY <1>0, <1>fields
            <6>3. QED
              BY <5>1, <5>3, <6>1, <6>2
          <5>4. QED
            BY <3>1, <5>2, <5>3
        <4>2. \A m \in import[i].keys : SeesMessage(i, AsStored(m))
          BY <1>0 DEF MissesNothing
        <4>3. QED
          BY <3>1, <3>2, <4>1, <4>2 DEF MissesNothing, pc
      <3>4. AddsNothingElse(i)'
        BY <1>0, <3>1 DEF AddsNothingElse, SessionsLeft, pc
      <3>5. QED
        BY <3>3, <3>4
    <2>3. CASE InsertSession(i)
      <3>1. /\ import'[i].bundle = import[i].bundle /\ import'[i].keys = import[i].keys
            /\ import'[i].rows = import[i].rows
            /\ import'[i].added = import[i].added \cup {CurrentSession(i)}
            /\ import'[i].n = import[i].n + 1 /\ import'[i].pc = "sessions"
            /\ pc(i) = "insert"
        BY <1>0, <1>fields, <2>3 DEF InsertSession, ImportState
      <3>2. import[i].n \in 1 .. Len(import[i].bundle.sessions)
        BY <1>0, <1>fields, <2>3 DEF InsertSession, AddsNothingElse, SessionsLeft
      <3>3. MissesNothing(i)'
        <4>1. \A s : SeesSession(i, s)' <=> SeesSession(i, s) \/ s = CurrentSession(i)
          BY <2>3, <3>1 DEF InsertSession, SeesSession
        <4>2. \A m : SeesMessage(i, m)' <=> SeesMessage(i, m)
          BY <2>3, <3>1 DEF InsertSession, SeesMessage
        <4>3. \A k \in 1 .. Len(import[i].bundle.sessions) :
                 k < import[i].n + 1 =>
                   SeesSession(i, import[i].bundle.sessions[k])
                   \/ import[i].bundle.sessions[k] = CurrentSession(i)
          BY <1>0, <1>fields DEF MissesNothing, CurrentSession
        <4>4. \A m \in import[i].keys : SeesMessage(i, AsStored(m))
          BY <1>0 DEF MissesNothing
        <4>5. QED
          BY <3>1, <4>1, <4>2, <4>3, <4>4 DEF MissesNothing, pc
      <3>4. AddsNothingElse(i)'
        <4>1. CurrentSession(i) \in Elements(import[i].bundle.sessions)
          BY <3>2 DEF CurrentSession, Elements
        <4>2. QED
          BY <1>0, <3>1, <4>1 DEF AddsNothingElse, pc
      <3>5. QED
        BY <3>3, <3>4
    <2>4. CASE SessionsDone(i)
      <3>1. /\ import'[i].bundle = import[i].bundle /\ import'[i].n = 1
            /\ import'[i].pc = "messages" /\ import'[i].keys = import[i].keys
            /\ import'[i].added = import[i].added /\ import'[i].rows = import[i].rows
        BY <1>0, <1>fields, <2>4 DEF SessionsDone, ImportState
      <3>2. MissesNothing(i)'
        <4>1. \A k \in 1 .. Len(import[i].bundle.sessions) :
                 SeesSession(i, import[i].bundle.sessions[k])
          BY <1>0, <1>fields, <2>4 DEF SessionsDone, MissesNothing, SessionsLeft
        <4>2. QED
          BY <1>0, <2>4, <3>1, <4>1
             DEF SessionsDone, MissesNothing, SeesSession, SeesMessage, pc
      <3>3. AddsNothingElse(i)'
        BY <1>0, <2>4, <3>1 DEF SessionsDone, AddsNothingElse, pc
      <3>4. QED
        BY <3>2, <3>3
    <2>5. ASSUME NEW s \in Session, LoadKeys(i, s)
          PROVE  MissesNothing(i)' /\ AddsNothingElse(i)'
      <3> DEFINE loaded == {NaturalKey(m) : m \in {x \in Message : x.session = s /\ SeesMessage(i, x)}}
      <3>1. /\ import'[i].bundle = import[i].bundle /\ import'[i].n = import[i].n
            /\ import'[i].pc = import[i].pc /\ import'[i].keys = import[i].keys \cup loaded
            /\ import'[i].added = import[i].added /\ import'[i].rows = import[i].rows
        BY <1>0, <1>fields, <2>5 DEF LoadKeys, ImportState
      <3>2. \A m \in loaded : SeesMessage(i, AsStored(m))
        <4>1. ASSUME NEW m \in Message, SeesMessage(i, m)
              PROVE  SeesMessage(i, AsStored(NaturalKey(m)))
          BY <1>stored, <4>1, StoredType
        <4>2. QED
          BY <4>1
      <3> HIDE DEF loaded
      <3>3. MissesNothing(i)'
        BY <1>0, <2>5, <3>1, <3>2 DEF LoadKeys, MissesNothing, SeesSession, SeesMessage, pc
      <3>4. AddsNothingElse(i)'
        BY <1>0, <2>5, <3>1 DEF LoadKeys, AddsNothingElse, SessionsLeft, pc
      <3>5. QED
        BY <3>3, <3>4
    <2>6. CASE SkipMessage(i)
      <3>1. /\ import'[i].bundle = import[i].bundle /\ import'[i].keys = import[i].keys
            /\ import'[i].added = import[i].added /\ import'[i].rows = import[i].rows
            /\ import'[i].n = import[i].n + 1 /\ import'[i].pc = "messages"
            /\ pc(i) = "messages" /\ MessagesLeft(i)
            /\ NaturalKey(CurrentMessage(i)) \in import[i].keys
        BY <1>0, <1>fields, <2>6 DEF SkipMessage, ImportState, pc
      <3>2. /\ \A s : SeesSession(i, s)' <=> SeesSession(i, s)
            /\ \A m : SeesMessage(i, m)' <=> SeesMessage(i, m)
        BY <2>6, <3>1 DEF SkipMessage, SeesSession, SeesMessage
      <3>3. SeesMessage(i, AsStored(CurrentMessage(i)))
        <4>1. CurrentMessage(i) \in Message
          BY <1>0, <1>fields, <3>1 DEF CurrentMessage, MessagesLeft
        <4>2. CurrentMessage(i) \in import[i].keys
          BY <3>1, <4>1, StoredType
        <4>3. QED
          BY <1>0, <4>2 DEF MissesNothing
      <3>4. MissesNothing(i)'
        <4>1. \A k \in 1 .. Len(import[i].bundle.messages) : k < import[i].n + 1 =>
                 SeesMessage(i, AsStored(import[i].bundle.messages[k]))
          BY <1>0, <1>fields, <3>1, <3>3 DEF MissesNothing, CurrentMessage
        <4>2. /\ \A m \in import[i].keys : SeesMessage(i, AsStored(m))
              /\ \A k \in 1 .. Len(import[i].bundle.sessions) :
                   SeesSession(i, import[i].bundle.sessions[k])
          BY <1>0, <3>1 DEF MissesNothing
        <4>3. QED
          BY <3>1, <3>2, <4>1, <4>2 DEF MissesNothing, pc
      <3>5. AddsNothingElse(i)'
        BY <1>0, <3>1 DEF AddsNothingElse, pc
      <3>6. QED
        BY <3>4, <3>5
    <2>7. CASE InsertMessage(i)
      <3> DEFINE m0 == AsStored(CurrentMessage(i))
      <3>0. /\ pc(i) = "messages" /\ MessagesLeft(i)
            /\ CurrentMessage(i) \in Elements(import[i].bundle.messages)
            /\ CurrentMessage(i) \in Message /\ m0 \in Message
        <4>1. pc(i) = "messages" /\ MessagesLeft(i)
          BY <2>7 DEF InsertMessage
        <4>2. import[i].n \in 1 .. Len(import[i].bundle.messages)
          BY <1>0, <1>fields, <4>1 DEF MessagesLeft
        <4>3. QED
          BY <1>0, <4>1, <4>2, StoredType DEF CurrentMessage, Elements
      <3>1. /\ import'[i].bundle = import[i].bundle
            /\ import'[i].keys = import[i].keys \cup {NaturalKey(CurrentMessage(i))}
            /\ import'[i].added = import[i].added
            /\ import'[i].rows = [import[i].rows EXCEPT ![m0] = @ + 1]
            /\ import'[i].n = import[i].n + 1 /\ import'[i].pc = "messages"
        BY <1>0, <1>fields, <2>7 DEF InsertMessage, ImportState, pc
      <3> HIDE DEF m0
      <3>2. \A s : SeesSession(i, s)' <=> SeesSession(i, s)
        BY <2>7, <3>1 DEF InsertMessage, SeesSession
      <3>3. \A m \in Message : SeesMessage(i, m)' <=> SeesMessage(i, m) \/ m = m0
        <4>1. \A m \in Message : import'[i].rows[m] =
                 IF m = m0 THEN import[i].rows[m] + 1 ELSE import[i].rows[m]
          BY <1>fields, <3>0, <3>1
        <4>2. \A m \in Message : copies[m] \in Nat /\ import[i].rows[m] \in Nat
          BY <1>0, <1>fields
        <4>3. copies' = copies
          BY <2>7 DEF InsertMessage
        <4>4. QED
          BY <4>1, <4>2, <4>3 DEF SeesMessage
      <3>4. MissesNothing(i)'
        <4>1. ASSUME NEW k \in 1 .. Len(import[i].bundle.messages), k < import[i].n + 1
              PROVE  SeesMessage(i, AsStored(import[i].bundle.messages[k]))'
          <5>1. AsStored(import[i].bundle.messages[k]) \in Message
            BY <1>0, StoredType
          <5>2. \/ SeesMessage(i, AsStored(import[i].bundle.messages[k]))
                \/ import[i].bundle.messages[k] = CurrentMessage(i)
            BY <1>0, <1>fields, <3>0, <4>1 DEF MissesNothing, CurrentMessage
          <5>3. QED
            BY <3>1, <3>3, <5>1, <5>2 DEF m0
        <4>2. \A k \in 1 .. Len(import[i].bundle.sessions) :
                   SeesSession(i, import[i].bundle.sessions[k])
          BY <1>0, <3>0 DEF MissesNothing
        <4>3. ASSUME NEW m \in import'[i].keys PROVE SeesMessage(i, AsStored(m))'
          <5>1. m \in import[i].keys \/ m = CurrentMessage(i)
            BY <3>0, <3>1, StoredType
          <5>2. AsStored(m) \in Message
            BY <1>fields, <3>0, <5>1, StoredType
          <5>3. QED
            BY <1>0, <3>3, <5>1, <5>2 DEF MissesNothing, m0
        <4>4. QED
          BY <3>1, <3>2, <4>1, <4>2, <4>3 DEF MissesNothing, pc
      <3>5. AddsNothingElse(i)'
        <4>1. \A m \in Message : import'[i].rows[m] > 0 => m = m0 \/ import[i].rows[m] > 0
          BY <1>fields, <3>0, <3>1
        <4>2. QED
          BY <1>0, <3>0, <3>1, <4>1 DEF AddsNothingElse, pc, m0
      <3>6. QED
        BY <3>4, <3>5
    <2>8. CASE Commit(i)
      BY <1>0, <1>t, <2>8, FreshKeeps DEF Commit, Idle
    <2>9. CASE Fail(i)
      BY <1>0, <1>t, <2>9, FreshKeeps DEF Fail, Idle
    <2>10. QED
      BY <2>1, <2>2, <2>3, <2>4, <2>5, <2>6, <2>7, <2>8, <2>9 DEF Step
  <1>10. QED
    BY <1>t, <1>floats, <1>others, <1>own DEF IInv

\* The database before any import: hermes' own messages, and no import under way.
LEMMA InitIInv == Init => IInv
  <1> SUFFICES ASSUME Init PROVE IInv
    OBVIOUS
  <1>1. TypeOK
    <2>1. sessions \in SUBSET Session /\ copies \in [Message -> Nat]
      BY LocalAssumption DEF Init
    <2>2. import \in [Importer -> ImportState]
      BY IdleType DEF Init
    <2>3. writer \in Importer \cup {Nobody} /\ begun \in 0 .. MaxImports
      BY ThreadAssumption DEF Init
    <2>4. together \in BOOLEAN
      BY DEF Init
    <2>5. QED
      BY <2>1, <2>2, <2>3, <2>4 DEF TypeOK
  <1>2. StampsAreFloats
    BY LocalAssumption DEF Init, StampsAreFloats
  <1>3. ASSUME NEW i \in Importer PROVE MissesNothing(i) /\ AddsNothingElse(i)
    <2>1. /\ import[i].pc = "idle" /\ import[i].n = 1 /\ import[i].keys = {}
          /\ import[i].added = {} /\ import[i].rows = NoRows
      BY DEF Init, Idle
    <2>2. QED
      BY <2>1 DEF MissesNothing, AddsNothingElse, pc, NoRows
  <1>4. QED
    BY <1>1, <1>2, <1>3 DEF IInv

\* An import never passes over something that is not there and never inserts something
\* that its bundle does not carry, whatever other imports commit in between.
THEOREM Invariance == Spec => []IInv
  <1>1. IInv /\ [Next]_vars => IInv'
    <2> SUFFICES ASSUME IInv, [Next]_vars PROVE IInv'
      OBVIOUS
    <2>1. CASE Next
      BY <2>1, StepIInv DEF Next
    <2>2. CASE UNCHANGED vars
      BY <2>2 DEF vars, IInv, TypeOK, StampsAreFloats, MissesNothing, AddsNothingElse, pc,
                  SeesSession, SeesMessage, SessionsLeft
    <2>3. QED
      BY <2>1, <2>2
  <1>2. QED
    BY InitIInv, <1>1, PTL DEF Spec

\* Types, for every bundle, number of importers and bound.
THEOREM TypeCorrect == Spec => []TypeOK
  <1>1. IInv => TypeOK
    BY DEF IInv
  <1>2. QED
    BY Invariance, <1>1, PTL

-----------------------------------------------------------------------------
(* Every import is one atomic union *)

\* The content of the database, as ConversationMerge has it.
content == {m \in Message : copies[m] > 0}

\* What a bundle carries, as ConversationMerge has it.
EffectOf(b) == [sessions |-> Elements(b.sessions),
                content  |-> {AsStored(m) : m \in Elements(b.messages)}]

\* What is committed is the whole bundle and nothing else.
LEMMA CommitMerges ==
    ASSUME IInv, NEW i \in Importer, Commit(i)
    PROVE  /\ sessions' = sessions \cup Elements(import[i].bundle.sessions)
           /\ content' = content \cup {AsStored(m) : m \in Elements(import[i].bundle.messages)}
  <1>0. /\ MissesNothing(i) /\ AddsNothingElse(i)
        /\ import[i].bundle.sessions \in Seq(Session)
        /\ import[i].bundle.messages \in Seq(Message)
        /\ copies \in [Message -> Nat]
        /\ import[i].n \in Nat \ {0} /\ import[i].rows \in [Message -> Nat]
    BY BundleType, FieldType DEF IInv, TypeOK
  <1>1. pc(i) = "messages" /\ \A k \in 1 .. Len(import[i].bundle.messages) : k < import[i].n
    BY <1>0 DEF Commit, MessagesLeft
  <1>2. sessions' = sessions \cup Elements(import[i].bundle.sessions)
    <2>1. Elements(import[i].bundle.sessions) \subseteq sessions \cup import[i].added
      BY <1>0, <1>1 DEF Elements, MissesNothing, SeesSession
    <2>2. QED
      BY <1>0, <2>1 DEF Commit, AddsNothingElse
  <1>3. ASSUME NEW m \in Message
        PROVE  copies'[m] > 0 <=> SeesMessage(i, m)
    BY <1>0 DEF Commit, SeesMessage
  <1>4. ASSUME NEW m \in Message
        PROVE  SeesMessage(i, m) <=>
                 copies[m] > 0 \/ \E x \in Elements(import[i].bundle.messages) : m = AsStored(x)
    <2>1. SeesMessage(i, m) => copies[m] > 0 \/ import[i].rows[m] > 0
      BY <1>0 DEF SeesMessage
    <2>2. copies[m] > 0 => SeesMessage(i, m)
      BY <1>0 DEF SeesMessage
    <2>3. \A x \in Elements(import[i].bundle.messages) : SeesMessage(i, AsStored(x))
      BY <1>0, <1>1 DEF Elements, MissesNothing
    <2>4. QED
      BY <1>0, <2>1, <2>2, <2>3 DEF AddsNothingElse
  <1>5. \A x \in Elements(import[i].bundle.messages) : AsStored(x) \in Message
    BY <1>0, StoredType DEF Elements
  <1>6. QED
    BY <1>2, <1>3, <1>4, <1>5 DEF content

\* Every step of an import is a step of ConversationMerge or leaves what it speaks of alone.
LEMMA StepMerges ==
    ASSUME IInv, NEW i \in Importer, Step(i)
    PROVE  \/ \E b \in Bundle : /\ sessions' = sessions \cup EffectOf(b).sessions
                                 /\ content' = content \cup EffectOf(b).content
           \/ sessions' = sessions /\ content' = content
  <1>1. CASE Commit(i)
    <2>1. CASE import[i].bundle \in Bundle
      BY <1>1, <2>1, CommitMerges DEF EffectOf
    <2>2. CASE import[i].bundle = Empty
      <3>1. Elements(<<>>) = {}
        BY DEF Elements
      <3>2. import[i].bundle.sessions = <<>> /\ import[i].bundle.messages = <<>>
        BY <2>2 DEF Empty
      <3>3. sessions' = sessions
        BY <1>1, <3>1, <3>2, CommitMerges
      <3>4. content' = content
        BY <1>1, <3>1, <3>2, CommitMerges
      <3>5. QED
        BY <3>3, <3>4
    <2>3. import[i].bundle \in Bundle \cup {Empty}
      BY BundleType DEF IInv, ImportState
    <2>4. QED
      BY <2>1, <2>2, <2>3
  <1>2. CASE ~Commit(i)
    <2>1. UNCHANGED <<sessions, copies>>
      BY <1>2 DEF Step, Begin, LookForSession, InsertSession, SessionsDone, LoadKeys,
                  SkipMessage, InsertMessage, Fail
    <2>2. QED
      BY <2>1 DEF content
  <1>3. QED
    BY <1>1, <1>2

\* import_bundle is all or nothing and loses nothing: however imports overlap and fail,
\* each takes effect at one instant, as the union with what is there at that instant.
THEOREM Refinement == Spec => MergesAsOne
  <1>1. Init => Merge!Init
    BY LocalAssumption DEF Init, Merge!Init
  <1>2. IInv /\ [Next]_vars => [Merge!Next]_(Merge!vars)
    <2> SUFFICES ASSUME IInv, [Next]_vars PROVE [Merge!Next]_(Merge!vars)
      OBVIOUS
    <2>1. CASE UNCHANGED vars
      BY <2>1 DEF vars, Merge!vars
    <2>2. ASSUME NEW i \in Importer, Step(i) PROVE [Merge!Next]_(Merge!vars)
      <3>1. CASE sessions' = sessions /\ content' = content
        BY <3>1 DEF Merge!vars, content
      <3>2. ASSUME NEW b \in Bundle, sessions' = sessions \cup EffectOf(b).sessions,
                   content' = content \cup EffectOf(b).content
            PROVE  Merge!Next
        BY <3>2 DEF Merge!Next, Merge!Merge, content, EffectOf
      <3>3. QED
        BY <2>2, <3>1, <3>2, StepMerges
    <2>3. QED
      BY <2>1, <2>2 DEF Next
  <1>3. QED
    BY Invariance, <1>1, <1>2, PTL DEF Spec, MergesAsOne, Merge!Spec

-----------------------------------------------------------------------------
(* No message twice, where imports take turns *)

\* An import that begins when none runs is the only one.
LEMMA OneAtATime ==
    ASSUME NEW i \in Importer, NEW b \in Bundle, Begin(i, b), ~together'
    PROVE  ~together /\ \A j \in Importer : pc(j) = "idle"
  BY DEF Begin, Busy

\* A message of a bundle that is stored in a row with one key is the message of that row.
LEMMA SameKeyStored ==
    ASSUME NEW m \in Message, NEW x \in Message, NEW b \in Bundle,
           SameKey(m), x \in Elements(b.messages), AsStored(x) = m
    PROVE  x = m
  <1>1. x = [session |-> x.session, text |-> x.text, form |-> x.form]
    BY DEF Message
  <1>2. m = [session |-> x.session, text |-> x.text, form |-> "real"]
    BY <1>1 DEF AsStored
  <1>3. CASE x.form = "real"
    BY <1>1, <1>2, <1>3
  <1>4. CASE x.form = "int"
    <2>1. [m EXCEPT !.form = "int"] = x
      BY <1>1, <1>2, <1>4
    <2>2. QED
      BY <2>1 DEF SameKey
  <1>5. QED
    BY <1>3, <1>4 DEF Message

\* A step of the only import keeps its rows, with the committed ones, free of duplicates.
LEMMA StepSerial ==
    ASSUME IInv, SerialInv, NEW i \in Importer, Step(i), ~together'
    PROVE  SerialInv'
  <1> USE DEF pc
  <1>free. ~together
    BY OneAtATime DEF Step, LookForSession, InsertSession, SessionsDone, LoadKeys,
           SkipMessage, InsertMessage, Commit, Fail
  <1>0. /\ TypeOK /\ TypeOK'
        /\ import \in [Importer -> ImportState]
        /\ import[i].bundle \in Bundle \cup {Empty}
        /\ import[i].bundle.messages \in Seq(Message)
        /\ copies \in [Message -> Nat]
        /\ import[i].n \in Nat \ {0}
        /\ import[i].rows \in [Message -> Nat]
        /\ import[i] \in ImportState
    BY BundleType, FieldType, StepType DEF IInv, TypeOK, ImportState
  <1>1. \A j \in Importer : j # i => import'[j] = import[j]
    BY <1>0 DEF Step, Begin, LookForSession, InsertSession, SessionsDone, LoadKeys,
                SkipMessage, InsertMessage, Commit, Fail
  <1>2. \A j \in Importer : j # i => import[j].pc = "idle"
    <2>1. CASE \E b \in Bundle : Begin(i, b)
      BY <2>1, OneAtATime
    <2>2. CASE import[i].pc # "idle"
      BY <1>free, <2>2 DEF SerialInv
    <2>3. QED
      BY <2>1, <2>2 DEF Step, LookForSession, InsertSession, SessionsDone, LoadKeys,
                SkipMessage, InsertMessage, Commit, Fail
  <1>3. \A j, k \in Importer : import'[j].pc # "idle" /\ import'[k].pc # "idle" => j = k
    BY <1>1, <1>2
  <1>4. ASSUME NEW j \in Importer, j # i
        PROVE  import[j].rows = NoRows /\ import'[j].rows = NoRows
    BY <1>free, <1>1, <1>2, <1>4 DEF SerialInv
  <1> DEFINE Complete(r, cs) ==
               r.pc = "messages" =>
                 \A m \in Elements(r.bundle.messages) :
                   SameKey(m) /\ m.session \notin r.unread /\ cs[m] + r.rows[m] > 0
                       => m \in r.keys
  <1>5. ASSUME copies' = copies \/ copies' = [m \in Message |-> copies[m] + import[i].rows[m]],
               import'[i].pc # "messages" => import'[i].rows = NoRows,
               \A m \in Message : SameKey(m) => copies'[m] + import'[i].rows[m] <= 1,
               Complete(import'[i], copies')
        PROVE  SerialInv'
    <2>1. \A m \in Message : SameKey(m) => copies'[m] <= 1
      <3>1. \A m \in Message : copies'[m] \in Nat /\ import'[i].rows[m] \in Nat
        BY <1>0, FieldType DEF TypeOK
      <3>2. QED
        BY <1>5, <3>1
    <2>2. ASSUME NEW j \in Importer, j # i
          PROVE  /\ import'[j].pc # "messages" /\ import'[j].rows = NoRows
                 /\ \A m \in Message : SameKey(m) => copies'[m] + import'[j].rows[m] <= 1
      <3>1. \A m \in Message : copies'[m] \in Nat /\ import'[j].rows[m] = 0
        BY <1>0, <1>4, <2>2 DEF TypeOK, NoRows
      <3>2. QED
        BY <1>1, <1>2, <1>4, <2>1, <2>2, <3>1
    <2>3. QED
      BY <1>3, <1>5, <2>1, <2>2 DEF SerialInv, NoDuplicatesInTurn, SeesMessage, SameKey
  <1>6. /\ import[i].pc # "messages" => import[i].rows = NoRows
        /\ \A m \in Message : SameKey(m) => copies[m] + import[i].rows[m] <= 1
        /\ \A m \in Message : SameKey(m) => copies[m] <= 1
        /\ Complete(import[i], copies)
    BY <1>free DEF SerialInv, NoDuplicatesInTurn, SeesMessage
  <1>7. \A m \in Message : SameKey(m) => copies[m] + NoRows[m] <= 1
    BY <1>0, <1>6 DEF NoRows
  <1>10. CASE \E b \in Bundle : Begin(i, b)
    <2>1. import'[i].pc = "sessions" /\ import'[i].rows = NoRows /\ copies' = copies
      BY <1>0, <1>10 DEF Begin, Idle
    <2>2. QED
      BY <1>5, <1>7, <2>1
  <1>11. CASE LookForSession(i) \/ InsertSession(i)
    <2>1. /\ import'[i].pc \in {"sessions", "insert"} /\ copies' = copies
          /\ import'[i].rows = import[i].rows /\ import[i].pc # "messages"
      BY <1>0, <1>11 DEF LookForSession, InsertSession, ImportState
    <2>2. QED
      BY <1>5, <1>6, <1>7, <2>1
  <1>12. CASE SessionsDone(i)
    <2>1. /\ import'[i].pc = "messages" /\ copies' = copies
          /\ import'[i].rows = NoRows /\ import'[i].bundle = import[i].bundle
          /\ import'[i].unread = {m.session : m \in Elements(import[i].bundle.messages)}
      BY <1>0, <1>6, <1>12 DEF SessionsDone, ImportState
    <2>2. QED
      BY <1>5, <1>7, <2>1
  <1>13. ASSUME NEW s \in Session, LoadKeys(i, s) PROVE SerialInv'
    <2> DEFINE loaded == {NaturalKey(m) : m \in {z \in Message : z.session = s /\ SeesMessage(i, z)}}
    <2>1. /\ import'[i].pc = "messages" /\ import[i].pc = "messages" /\ copies' = copies
          /\ import'[i].rows = import[i].rows /\ import'[i].bundle = import[i].bundle
          /\ import'[i].unread = import[i].unread \ {s}
          /\ import'[i].keys = import[i].keys \cup loaded
      BY <1>0, <1>13 DEF LoadKeys, ImportState
    <2>2. ASSUME NEW m \in Message, m.session = s, SeesMessage(i, m)
          PROVE  m \in loaded
      BY <2>2, StoredType
    <2> HIDE DEF loaded
    <2>3. \A m \in Elements(import[i].bundle.messages) : m \in Message
      BY <1>0 DEF Elements
    <2>4. Complete(import'[i], copies')
      BY <1>6, <2>1, <2>2, <2>3 DEF SeesMessage
    <2>5. QED
      BY <1>5, <1>6, <2>1, <2>4
  <1>14. CASE SkipMessage(i)
    <2>1. /\ import'[i].pc = "messages" /\ import[i].pc = "messages" /\ copies' = copies
          /\ import'[i].rows = import[i].rows /\ import'[i].bundle = import[i].bundle
          /\ import'[i].unread = import[i].unread /\ import'[i].keys = import[i].keys
      BY <1>0, <1>14 DEF SkipMessage, ImportState
    <2>2. QED
      BY <1>5, <1>6, <2>1
  <1>15. CASE InsertMessage(i)
    <2> DEFINE m0 == CurrentMessage(i)
    <2>1. import[i].n \in 1 .. Len(import[i].bundle.messages)
      BY <1>0, <1>15 DEF InsertMessage, MessagesLeft
    <2>2. /\ m0 \in Elements(import[i].bundle.messages) /\ m0 \in Message
          /\ import[i].bundle \in Bundle
      BY <1>0, <2>1 DEF Elements, CurrentMessage, Empty
    <2>3. AsStored(m0) \in Message /\ NaturalKey(m0) = m0
      BY <2>2, StoredType
    <2>4. /\ import'[i].pc = "messages" /\ import[i].pc = "messages" /\ copies' = copies
          /\ import'[i].rows = [import[i].rows EXCEPT ![AsStored(m0)] = @ + 1]
          /\ import'[i].bundle = import[i].bundle
          /\ import'[i].unread = {} /\ import[i].unread = {}
          /\ import'[i].keys = import[i].keys \cup {m0}
          /\ m0 \notin import[i].keys
      BY <1>0, <1>15, <2>3 DEF InsertMessage, ImportState
    <2> HIDE DEF m0
    <2>5. ASSUME NEW m \in Message, SameKey(m), m = AsStored(m0)
          PROVE  m = m0 /\ copies[m] = 0 /\ import[i].rows[m] = 0
      <3>1. m = m0
        BY <2>2, <2>5, SameKeyStored
      <3>2. ~(copies[m] + import[i].rows[m] > 0)
        BY <1>6, <2>2, <2>4, <2>5, <3>1
      <3>3. QED
        BY <1>0, <3>1, <3>2
    <2>6. \A m \in Message : import'[i].rows[m] =
             IF m = AsStored(m0) THEN import[i].rows[m] + 1 ELSE import[i].rows[m]
      BY <1>0, <2>3, <2>4
    <2>7. \A m \in Message : SameKey(m) => copies'[m] + import'[i].rows[m] <= 1
      BY <1>6, <2>4, <2>5, <2>6
    <2>8. \A m \in Elements(import[i].bundle.messages) : m \in Message
      BY <1>0 DEF Elements
    <2>9. Complete(import'[i], copies')
      BY <1>6, <2>4, <2>5, <2>6, <2>8
    <2>10. QED
      BY <1>5, <2>4, <2>7, <2>9
  <1>16. CASE Commit(i)
    <2>1. /\ import'[i].pc = "idle" /\ import'[i].rows = NoRows
          /\ copies' = [m \in Message |-> copies[m] + import[i].rows[m]]
      BY <1>0, <1>16 DEF Commit, Idle
    <2>2. \A m \in Message : SameKey(m) => copies'[m] + NoRows[m] <= 1
      BY <1>0, <1>6, <2>1 DEF NoRows
    <2>3. QED
      BY <1>5, <2>1, <2>2
  <1>17. CASE Fail(i)
    <2>1. import'[i].pc = "idle" /\ import'[i].rows = NoRows /\ copies' = copies
      BY <1>0, <1>17 DEF Fail, Idle
    <2>2. QED
      BY <1>5, <1>7, <2>1
  <1>18. QED
    BY <1>10, <1>11, <1>12, <1>13, <1>14, <1>15, <1>16, <1>17 DEF Step

\* The first sync cannot make a duplicate of what hermes wrote itself.
LEMMA InitSerial == Init => SerialInv
  <1> SUFFICES ASSUME Init PROVE SerialInv
    OBVIOUS
  <1>1. \A i \in Importer : import[i].pc = "idle" /\ import[i].rows = NoRows
    BY DEF Init, Idle
  <1>2. \A m \in Message : copies[m] \in {0, 1} /\ NoRows[m] = 0
    BY DEF Init, NoRows
  <1>3. QED
    BY <1>1, <1>2 DEF SerialInv, NoDuplicatesInTurn, pc

\* As long as imports take turns, the natural key does what it is for: no message is
\* stored twice, after any number of syncs, retries and failures.
THEOREM NoMessageTwice == Spec => []NoDuplicatesInTurn
  <1>1. IInv /\ SerialInv /\ [Next]_vars => SerialInv'
    <2> SUFFICES ASSUME IInv, SerialInv, [Next]_vars PROVE SerialInv'
      OBVIOUS
    <2>1. CASE Next
      BY <2>1, StepSerial DEF Next, SerialInv
    <2>2. CASE UNCHANGED vars
      BY <2>2 DEF vars, SerialInv, NoDuplicatesInTurn, pc, SeesMessage
    <2>3. QED
      BY <2>1, <2>2
  <1>2. SerialInv => NoDuplicatesInTurn
    BY DEF SerialInv, NoDuplicatesInTurn
  <1>3. QED
    BY InitSerial, Invariance, <1>1, <1>2, PTL DEF Spec

-----------------------------------------------------------------------------
(* A conversation begun on the phone, where imports overlap *)

\* What a bundle carries of the conversation is stored as it is.
LEMMA NewAsStored ==
    ASSUME NEW b \in Bundle, NEW s \in Session, BringsNew(b, s),
           NEW c \in Bundle \cup {Empty}, NEW x \in Elements(c.messages), x.session = s
    PROVE  c = b /\ x \in Message /\ x.form = "real" /\ AsStored(x) = x
  <1>1. c \in Bundle
    BY DEF Empty, Elements
  <1>2. c = b /\ x.form = "real"
    BY <1>1 DEF BringsNew
  <1>3. c.messages \in Seq(Message)
    BY <1>1, BundleAssumption
  <1>4. x \in Message
    BY <1>3 DEF Elements
  <1>5. QED
    BY <1>2, <1>4, StoredType

\* An import of the bundle past its sessions sees the conversation: if it is not
\* committed, the import has added it, and has the write lock.
LEMMA PastSessions ==
    ASSUME IInv, NewInv, NEW b \in Bundle, NEW s \in Session, BringsNew(b, s),
           NEW i \in Importer, pc(i) = "messages", import[i].bundle = b, s \notin sessions
    PROVE  s \in import[i].added /\ writer = i
  <1>1. s \in Elements(b.sessions)
    BY DEF BringsNew
  <1>2. PICK k \in 1 .. Len(b.sessions) : s = b.sessions[k]
    BY <1>1 DEF Elements
  <1>3. MissesNothing(i)
    BY DEF IInv
  <1>4. SeesSession(i, import[i].bundle.sessions[k])
    BY <1>2, <1>3 DEF MissesNothing
  <1>5. s \in import[i].added
    BY <1>2, <1>4 DEF SeesSession
  <1>6. QED
    BY <1>5 DEF NewInv, HoldsLock

\* What a step of an import writes where, as the proofs below use it.
LEMMA StepOf ==
    ASSUME IInv, NEW i \in Importer, Step(i)
    PROVE  /\ \A j \in Importer : j # i => import'[j] = import[j]
           /\ writer' = writer \/ (writer' = i /\ writer \in {Nobody, i})
                               \/ (writer = i /\ writer' = Nobody)
  <1>1. import \in [Importer -> ImportState]
    BY DEF IInv, TypeOK
  <1>2. QED
    BY <1>1 DEF Step, Begin, LookForSession, InsertSession, SessionsDone, LoadKeys,
                SkipMessage, InsertMessage, Commit, Fail, MayWrite, Release

\* Who inserts has the write lock when the step is done.
LEMMA StepHolds ==
    ASSUME IInv, NewInv, NEW i \in Importer, Step(i)
    PROVE  \A j \in Importer : HoldsLock(j)'
  <1> USE DEF pc
  <1>1. /\ import \in [Importer -> ImportState] /\ import[i] \in ImportState
        /\ Nobody \notin Importer
    BY ThreadAssumption DEF IInv, TypeOK
  <1>2. ASSUME NEW j \in Importer, j # i PROVE HoldsLock(j)'
    BY <1>1, <1>2, StepOf DEF NewInv, HoldsLock
  <1>3. HoldsLock(i) /\ Idle.added = {} /\ Idle.rows = NoRows /\ Idle.pc = "idle"
    BY DEF NewInv, Idle
  <1>4. CASE (\E b \in Bundle : Begin(i, b)) \/ Commit(i) \/ Fail(i)
    <2>1. CASE \E b \in Bundle : Begin(i, b)
      <3>1. PICK b \in Bundle : Begin(i, b)
        BY <2>1
      <3>2. import'[i] = [Idle EXCEPT !.pc = "sessions", !.bundle = b]
        BY <1>1, <3>1 DEF Begin
      <3>3. import'[i].added = {} /\ import'[i].rows = NoRows
        BY <3>2 DEF Idle
      <3>4. QED
        BY <1>2, <3>3 DEF HoldsLock
    <2>2. CASE Commit(i) \/ Fail(i)
      <3>1. import'[i] = Idle
        BY <1>1, <2>2 DEF Commit, Fail
      <3>2. QED
        BY <1>2, <1>3, <3>1 DEF HoldsLock
    <2>3. QED
      BY <1>4, <2>1, <2>2
  <1>5. CASE LookForSession(i) \/ SessionsDone(i) \/ SkipMessage(i) \/ \E s \in Session : LoadKeys(i, s)
    <2>1. /\ import'[i].added = import[i].added /\ import'[i].rows = import[i].rows
          /\ writer' = writer
          /\ import[i].pc = "messages" => import'[i].pc = "messages"
      <3>1. CASE LookForSession(i)
        BY <1>1, <3>1 DEF LookForSession, ImportState
      <3>2. CASE SessionsDone(i)
        BY <1>1, <3>2 DEF SessionsDone, ImportState
      <3>3. CASE SkipMessage(i)
        BY <1>1, <3>3 DEF SkipMessage, ImportState
      <3>4. CASE \E s \in Session : LoadKeys(i, s)
        BY <1>1, <3>4 DEF LoadKeys, ImportState
      <3>5. QED
        BY <1>5, <3>1, <3>2, <3>3, <3>4
    <2>2. QED
      BY <1>2, <1>3, <2>1 DEF HoldsLock
  <1>6. CASE InsertSession(i)
    <2>1. import'[i].rows = import[i].rows /\ writer' = i /\ import[i].pc # "messages"
      BY <1>1, <1>6 DEF InsertSession, ImportState
    <2>2. QED
      BY <1>2, <1>3, <2>1 DEF HoldsLock
  <1>7. CASE InsertMessage(i)
    <2>1. import'[i].pc = "messages" /\ writer' = i
      BY <1>1, <1>7 DEF InsertMessage, ImportState
    <2>2. QED
      BY <1>2, <2>1 DEF HoldsLock
  <1>8. QED
    BY <1>4, <1>5, <1>6, <1>7 DEF Step

\* A commit brings the conversation with all its messages, or leaves it alone.
LEMMA CommitNew ==
    ASSUME IInv, NewInv, NEW i \in Importer, Commit(i),
           NEW b \in Bundle, NEW s \in Session, BringsNew(b, s)
    PROVE  AllOrNothing(b, s)' /\ \A j \in Importer : InsertsNew(j, s)'
  <1> USE DEF pc
  <1>0. /\ import \in [Importer -> ImportState] /\ import[i] \in ImportState
        /\ copies \in [Message -> Nat] /\ import[i].rows \in [Message -> Nat]
        /\ import[i].n \in Nat \ {0}
        /\ import[i].bundle.messages \in Seq(Message)
        /\ b.messages \in Seq(Message)
    BY BundleType, FieldType, BundleAssumption DEF IInv, TypeOK
  <1>1. /\ AllOrNothing(b, s) /\ \A j \in Importer : InsertsNew(j, s) /\ HoldsLock(j)
        /\ MissesNothing(i) /\ AddsNothingElse(i)
    BY DEF NewInv, IInv
  <1>2. /\ import'[i] = Idle /\ sessions' = sessions \cup import[i].added
        /\ \A m \in Message : copies'[m] = copies[m] + import[i].rows[m]
        /\ \A j \in Importer : j # i => import'[j] = import[j]
        /\ import[i].pc = "messages" /\ import[i].n > Len(import[i].bundle.messages)
    BY <1>0 DEF Commit, MessagesLeft
  <1>3. InsertsNew(i, s)'
    BY <1>2 DEF InsertsNew, Idle, NoRows
  <1>4. \A m \in Elements(b.messages) : m \in Message
    BY <1>0 DEF Elements
  <1>5. CASE s \notin import[i].added \ sessions
    <2>1. s \in sessions' <=> s \in sessions
      BY <1>2, <1>5
    <2>2. \A m \in Message : m.session = s => copies'[m] = copies[m]
      <3>1. \A m \in Message : m.session = s => ~(import[i].rows[m] > 0)
        BY <1>1, <1>5 DEF InsertsNew
      <3>2. QED
        BY <1>0, <1>2, <3>1
    <2>3. AllOrNothing(b, s)'
      BY <1>1, <1>4, <2>1, <2>2 DEF AllOrNothing
    <2>4. ASSUME NEW j \in Importer, j # i PROVE InsertsNew(j, s)'
      <3>1. import'[j].bundle.messages \in Seq(Message) /\ import'[j] = import[j]
        BY <1>2, <2>4, BundleType DEF IInv, TypeOK
      <3>2. \A m \in Elements(import[j].bundle.messages) : m \in Message
        BY <3>1 DEF Elements
      <3>3. \A m \in Message : m.session = s => (SeesMessage(j, m)' <=> SeesMessage(j, m))
        BY <2>2, <3>1 DEF SeesMessage
      <3>4. InsertsNew(j, s)
        BY <1>1
      <3>5. QED
        BY <2>1, <3>1, <3>2, <3>3, <3>4 DEF InsertsNew
    <2>5. QED
      BY <1>3, <2>3, <2>4
  <1>6. CASE s \in import[i].added \ sessions
    <2>1. import[i].bundle = b
      <3>1. s \in Elements(import[i].bundle.sessions)
        BY <1>1, <1>6 DEF AddsNothingElse
      <3>2. import[i].bundle \in Bundle
        BY <1>0, <3>1 DEF ImportState, Elements, Empty
      <3>3. QED
        BY <3>1, <3>2 DEF BringsNew
    <2>2. \A m \in Message : m.session = s => copies[m] = 0 /\ import[i].rows[m] \in {0, 1}
      BY <1>0, <1>1, <1>6 DEF AllOrNothing, InsertsNew
    <2>3. \A m \in Elements(b.messages) : m.session = s => import[i].rows[m] = 1
      <3> SUFFICES ASSUME NEW m \in Elements(b.messages), m.session = s
                   PROVE  import[i].rows[m] = 1
        OBVIOUS
      <3>1. m \in Message /\ AsStored(m) = m
        BY NewAsStored
      <3>2. PICK k \in 1 .. Len(b.messages) : m = b.messages[k]
        BY DEF Elements
      <3>3. SeesMessage(i, AsStored(m))
        BY <1>0, <1>1, <1>2, <2>1, <3>2 DEF MissesNothing
      <3>4. QED
        BY <2>2, <3>1, <3>3 DEF SeesMessage
    <2>4. AllOrNothing(b, s)'
      BY <1>2, <1>4, <1>6, <2>2, <2>3 DEF AllOrNothing
    <2>5. ASSUME NEW j \in Importer, j # i PROVE InsertsNew(j, s)'
      <3>1. writer = i
        BY <1>1, <1>6 DEF HoldsLock
      <3>2. import'[j] = import[j] /\ import[j].rows = NoRows
        BY <1>1, <1>2, <2>5, <3>1 DEF HoldsLock
      <3>3. ASSUME import[j].pc = "messages", NEW m \in Elements(import[j].bundle.messages),
                   m.session = s
            PROVE  FALSE
        <4>1. import[j].bundle = b
          BY <3>3, NewAsStored, BundleType DEF IInv, TypeOK, ImportState
        <4>2. QED
          BY <1>6, <2>5, <3>1, <3>3, <4>1, PastSessions
      <3>4. QED
        BY <3>2, <3>3 DEF InsertsNew, NoRows
    <2>6. QED
      BY <1>3, <2>4, <2>5
  <1>7. QED
    BY <1>5, <1>6

\* Before its commit an import inserts of the conversation what nobody has.
LEMMA InsertNew ==
    ASSUME IInv, NewInv, NEW i \in Importer, Step(i), ~Commit(i),
           NEW b \in Bundle, NEW s \in Session, BringsNew(b, s)
    PROVE  InsertsNew(i, s)'
  <1> USE DEF pc
  <1>0. /\ import \in [Importer -> ImportState] /\ import[i] \in ImportState
        /\ copies \in [Message -> Nat] /\ import[i].rows \in [Message -> Nat]
        /\ import[i].n \in Nat \ {0}
        /\ import[i].bundle \in Bundle \cup {Empty}
        /\ import[i].bundle.messages \in Seq(Message)
    BY BundleType, FieldType DEF IInv, TypeOK, ImportState
  <1>1. AllOrNothing(b, s) /\ InsertsNew(i, s) /\ HoldsLock(i)
    BY DEF NewInv
  <1>2. \A m \in Elements(import[i].bundle.messages) : m \in Message
    BY <1>0 DEF Elements
  <1>3. sessions' = sessions /\ copies' = copies
    BY DEF Step, Begin, LookForSession, InsertSession, SessionsDone, LoadKeys,
           SkipMessage, InsertMessage, Fail
  <1>4. ASSUME import'[i].pc # "messages", import'[i].rows = NoRows
        PROVE  InsertsNew(i, s)'
    BY <1>4 DEF InsertsNew, NoRows
  <1>5. CASE (\E c \in Bundle : Begin(i, c)) \/ Fail(i)
    <2>1. CASE \E c \in Bundle : Begin(i, c)
      <3>1. PICK c \in Bundle : Begin(i, c)
        BY <2>1
      <3>2. import'[i] = [Idle EXCEPT !.pc = "sessions", !.bundle = c]
        BY <1>0, <3>1 DEF Begin
      <3>3. import'[i].pc = "sessions" /\ import'[i].rows = NoRows
        BY <3>2 DEF Idle
      <3>4. QED
        BY <1>4, <3>3
    <2>2. CASE Fail(i)
      <3>1. import'[i].pc = "idle" /\ import'[i].rows = NoRows
        BY <1>0, <2>2 DEF Fail, Idle
      <3>2. QED
        BY <1>4, <3>1
    <2>3. QED
      BY <1>5, <2>1, <2>2
  <1>6. CASE LookForSession(i) \/ InsertSession(i)
    <2>1. /\ import'[i].pc \in {"sessions", "insert"}
          /\ import'[i].rows = import[i].rows /\ import[i].pc # "messages"
      BY <1>0, <1>6 DEF LookForSession, InsertSession, ImportState
    <2>2. QED
      BY <1>1, <1>4, <2>1 DEF HoldsLock
  <1>7. CASE SessionsDone(i)
    <2>1. /\ import'[i].rows = NoRows /\ import'[i].bundle = import[i].bundle
          /\ import'[i].unread = {m.session : m \in Elements(import[i].bundle.messages)}
      BY <1>0, <1>1, <1>7 DEF SessionsDone, ImportState, HoldsLock
    <2>2. QED
      BY <2>1 DEF InsertsNew, NoRows
  <1>8. ASSUME NEW t \in Session, LoadKeys(i, t) PROVE InsertsNew(i, s)'
    <2> DEFINE loaded == {NaturalKey(m) : m \in {z \in Message : z.session = t /\ SeesMessage(i, z)}}
    <2>1. /\ import[i].pc = "messages" /\ import'[i].added = import[i].added
          /\ import'[i].rows = import[i].rows /\ import'[i].bundle = import[i].bundle
          /\ import'[i].unread = import[i].unread \ {t}
          /\ import'[i].keys = import[i].keys \cup loaded
      BY <1>0, <1>8 DEF LoadKeys, ImportState
    <2>2. \A m \in Message : m.session = t /\ SeesMessage(i, m) => m \in loaded
      BY StoredType
    <2> HIDE DEF loaded
    <2>3. \A m \in Message : SeesMessage(i, m)' <=> SeesMessage(i, m)
      BY <1>3, <2>1 DEF SeesMessage
    <2>4. QED
      BY <1>1, <1>2, <1>3, <2>1, <2>2, <2>3 DEF InsertsNew
  <1>9. CASE SkipMessage(i)
    <2>1. /\ import[i].pc = "messages" /\ import'[i].added = import[i].added
          /\ import'[i].rows = import[i].rows /\ import'[i].bundle = import[i].bundle
          /\ import'[i].unread = import[i].unread /\ import'[i].keys = import[i].keys
      BY <1>0, <1>9 DEF SkipMessage, ImportState
    <2>2. \A m \in Message : SeesMessage(i, m)' <=> SeesMessage(i, m)
      BY <1>3, <2>1 DEF SeesMessage
    <2>3. QED
      BY <1>1, <1>2, <1>3, <2>1, <2>2 DEF InsertsNew
  <1>10. CASE InsertMessage(i)
    <2> DEFINE m0 == CurrentMessage(i)
    <2>1. import[i].n \in 1 .. Len(import[i].bundle.messages)
      BY <1>0, <1>10 DEF InsertMessage, MessagesLeft
    <2>2. /\ m0 \in Elements(import[i].bundle.messages) /\ m0 \in Message
      BY <1>0, <2>1 DEF Elements, CurrentMessage
    <2>3. /\ AsStored(m0) \in Message /\ AsStored(m0).session = m0.session
          /\ NaturalKey(m0) = m0
      BY <2>2, StoredType DEF AsStored, Message
    <2>4. /\ import[i].pc = "messages" /\ import'[i].added = import[i].added
          /\ import'[i].rows = [import[i].rows EXCEPT ![AsStored(m0)] = @ + 1]
          /\ import'[i].bundle = import[i].bundle
          /\ import'[i].unread = {} /\ import[i].unread = {}
          /\ import'[i].keys = import[i].keys \cup {m0}
          /\ m0 \notin import[i].keys
      BY <1>0, <1>10, <2>3 DEF InsertMessage, ImportState
    <2> HIDE DEF m0
    <2>5. \A m \in Message : import'[i].rows[m] =
             IF m = AsStored(m0) THEN import[i].rows[m] + 1 ELSE import[i].rows[m]
      BY <1>0, <2>3, <2>4
    <2>6. CASE m0.session # s
      <3>1. \A m \in Message : m.session = s => import'[i].rows[m] = import[i].rows[m]
        BY <2>3, <2>5, <2>6
      <3>2. QED
        BY <1>1, <1>2, <1>3, <2>4, <3>1 DEF InsertsNew, SeesMessage
    <2>7. CASE m0.session = s
      <3>1. import[i].bundle = b /\ AsStored(m0) = m0
        BY <1>0, <2>2, <2>7, NewAsStored
      <3>2. copies[m0] = 0 /\ import[i].rows[m0] = 0
        <4>1. ~SeesMessage(i, m0)
          BY <1>1, <2>2, <2>4, <2>7 DEF InsertsNew
        <4>2. QED
          BY <1>0, <2>2, <4>1 DEF SeesMessage
      <3>3. s \notin sessions
        BY <1>1, <2>2, <2>7, <3>1, <3>2 DEF AllOrNothing
      <3>4. s \in import[i].added
        BY <2>4, <3>1, <3>3, PastSessions
      <3>5. ASSUME NEW m \in Message, m.session = s
            PROVE  import'[i].rows[m] <= 1
        BY <1>0, <1>1, <2>5, <3>1, <3>2, <3>5 DEF InsertsNew
      <3>6. ASSUME NEW m \in Elements(import'[i].bundle.messages), m.session = s,
                   SeesMessage(i, m)'
            PROVE  m \in import'[i].keys
        <4>1. CASE m = m0
          BY <2>4, <4>1
        <4>2. CASE m # m0
          <5>1. SeesMessage(i, m) /\ m \in Elements(import[i].bundle.messages)
            BY <1>2, <1>3, <2>4, <2>5, <3>1, <3>6, <4>2 DEF SeesMessage
          <5>2. QED
            BY <1>1, <2>4, <3>6, <5>1 DEF InsertsNew
        <4>3. QED
          BY <4>1, <4>2
      <3>7. QED
        BY <1>3, <2>4, <3>3, <3>4, <3>5, <3>6 DEF InsertsNew
    <2>8. QED
      BY <2>6, <2>7
  <1>11. QED
    BY <1>5, <1>6, <1>7, <1>8, <1>9, <1>10 DEF Step

\* A step of an import keeps what is said of conversations begun on the phone.
LEMMA StepNew ==
    ASSUME IInv, NewInv, NEW i \in Importer, Step(i)
    PROVE  NewInv'
  <1>1. ASSUME NEW b \in Bundle, NEW s \in Session, BringsNew(b, s)
        PROVE  AllOrNothing(b, s)' /\ \A j \in Importer : InsertsNew(j, s)'
    <2>1. CASE Commit(i)
      BY <1>1, <2>1, CommitNew
    <2>2. CASE ~Commit(i)
      <3>1. sessions' = sessions /\ copies' = copies
        BY <2>2 DEF Step, Begin, LookForSession, InsertSession, SessionsDone, LoadKeys,
                    SkipMessage, InsertMessage, Fail
      <3>2. AllOrNothing(b, s)'
        BY <1>1, <3>1 DEF NewInv, AllOrNothing
      <3>3. InsertsNew(i, s)'
        BY <1>1, <2>2, InsertNew
      <3>4. ASSUME NEW j \in Importer, j # i PROVE InsertsNew(j, s)'
        BY <1>1, <3>1, <3>4, StepOf DEF NewInv, InsertsNew, SeesMessage, pc
      <3>5. QED
        BY <3>2, <3>3, <3>4
    <2>3. QED
      BY <2>1, <2>2
  <1>2. QED
    BY <1>1, StepHolds DEF NewInv, BringsNew

\* The messages of a conversation begun on the phone are stored once, however imports
\* overlap and fail: the INSERT of its session takes the write lock before the keys are read.
THEOREM NewStoredOnce == Spec => []NewIsStoredOnce
  <1>1. Init => NewInv
    <2> SUFFICES ASSUME Init PROVE NewInv
      OBVIOUS
    <2>1. \A i \in Importer : import[i].pc = "idle" /\ import[i].rows = NoRows /\ import[i].added = {}
      BY DEF Init, Idle
    <2>2. ASSUME NEW s \in Session, s \notin LocalSession, NEW m \in Message, m.session = s
          PROVE  copies[m] = 0
      BY <2>2, LocalAssumption DEF Init
    <2>3. QED
      BY <2>1, <2>2 DEF NewInv, HoldsLock, AllOrNothing, InsertsNew, BringsNew, NoRows, pc, Init
  <1>2. IInv /\ NewInv /\ [Next]_vars => NewInv'
    <2> SUFFICES ASSUME IInv, NewInv, [Next]_vars PROVE NewInv'
      OBVIOUS
    <2>1. CASE Next
      BY <2>1, StepNew DEF Next
    <2>2. CASE UNCHANGED vars
      BY <2>2 DEF vars, NewInv, HoldsLock, AllOrNothing, InsertsNew, BringsNew, pc, SeesMessage
    <2>3. QED
      BY <2>1, <2>2
  <1>3. NewInv => NewIsStoredOnce
    BY DEF NewInv, AllOrNothing, NewIsStoredOnce, Message
  <1>4. QED
    BY Invariance, <1>1, <1>2, <1>3, PTL DEF Spec
=============================================================================
