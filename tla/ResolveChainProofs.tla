------------------------- MODULE ResolveChainProofs -------------------------
(***************************************************************************)
(* Proofs about ResolveChain, for every database of links, well-formed or  *)
(* not, and any number of sessions inserted during the call: what is       *)
(* returned is the whole conversation of the session as it was when the    *)
(* call began, each session of it once, and nothing that is not connected  *)
(* by the time the call returns.                                           *)
(*                                                                         *)
(* The conversation is not computed anywhere: it is the least closed set   *)
(* with the session in it, and the invariant speaks of all closed sets.    *)
(***************************************************************************)
EXTENDS ResolveChain, SequenceTheorems, TLAPS

-----------------------------------------------------------------------------
\* Appending to the chain adds the session to what has been seen.
LEMMA SeenAppend ==
    ASSUME chain \in Seq(Session), NEW s \in Session, chain' = Append(chain, s)
    PROVE  /\ seen' = seen \cup {s}
           /\ chain' \in Seq(Session) /\ chain' # <<>>
           /\ Len(chain') = Len(chain) + 1 /\ chain'[Len(chain')] = s
           /\ \A k \in 1 .. Len(chain) : chain'[k] = chain[k]
  <1>1. /\ chain' \in Seq(Session) /\ Len(chain') = Len(chain) + 1
        /\ chain'[Len(chain')] = s
        /\ \A k \in 1 .. Len(chain) : chain'[k] = chain[k]
        /\ Len(chain) \in Nat
    BY AppendProperties, LenProperties
  <1>2. seen' = seen \cup {s}
    <2>1. \A k \in 1 .. Len(chain') : k \in 1 .. Len(chain) \/ k = Len(chain')
      BY <1>1
    <2>2. Len(chain') \in 1 .. Len(chain') /\ \A k \in 1 .. Len(chain) : k \in 1 .. Len(chain')
      BY <1>1
    <2>3. QED
      BY <1>1, <2>1, <2>2 DEF seen
  <1>3. QED
    BY <1>1, <1>2

\* What has been seen are sessions; nothing has been, as long as the chain is empty.
LEMMA SeenType ==
    ASSUME chain \in Seq(Session)
    PROVE  seen \subseteq Session /\ (chain = <<>> <=> seen = {})
  <1>1. seen \subseteq Session
    BY ElementOfSeq DEF seen
  <1>2. chain = <<>> => seen = {}
    BY EmptySeq DEF seen
  <1>3. ASSUME chain # <<>> PROVE seen # {}
    <2>1. 1 \in 1 .. Len(chain)
      BY <1>3, EmptySeq, LenProperties
    <2>2. QED
      BY <2>1 DEF seen
  <1>4. QED
    BY <1>1, <1>2, <1>3

\* The call begins with an inductive invariant that holds.
LEMMA InitIInv == Init => IInv
  <1> SUFFICES ASSUME Init PROVE IInv
    OBVIOUS
  <1>1. TypeOK
    BY BoundAssumption, EmptySeq DEF Init, TypeOK
  <1>2. seen = {}
    BY <1>1, SeenType DEF Init, TypeOK
  <1>3. NoRepeats /\ RootFirst
    BY EmptySeq DEF Init, NoRepeats, RootFirst
  <1>4. PathKept /\ RootIsTop /\ Collected /\ Belongs /\ Places
    BY <1>2 DEF Init, PathKept, RootIsTop, Collected, Belongs, Places
  <1>5. QED
    BY <1>1, <1>3, <1>4 DEF IInv

\* The walk begins at the session, which has a row if the walk has gone on from it.
LEMMA WalkBegins ==
    ASSUME TypeOK, PathKept, pc = "up"
    PROVE  session_id \in seen_up \cup {root} /\ seen_up \subseteq rows
  <1> DEFINE S == seen_up \cup {root}
  <1>1. S \in SUBSET Session /\ root \in S /\ seen_up \subseteq S
    BY DEF TypeOK
  <1> HIDE DEF S
  <1>2. session_id \in S
    BY <1>1 DEF PathKept
  <1>3. QED
    BY <1>2 DEF S, PathKept

\* The first loop: the walk keeps the path it came by.
LEMMA UpKeeps ==
    ASSUME IInv, UpCycle \/ UpNothing \/ UpEnds \/ UpParent
    PROVE  IInv'
  <1>0. /\ TypeOK /\ NoRepeats /\ RootFirst /\ PathKept /\ Collected /\ Belongs /\ Places
        /\ pc = "up" /\ chain = <<>> /\ stack = {} /\ chain' = chain
        /\ UNCHANGED <<rows, parent, session_id, rowsAtCall, inserts>>
        /\ seen = {} /\ seen' = seen
    <2>1. /\ TypeOK /\ NoRepeats /\ RootFirst /\ PathKept /\ Collected /\ Belongs /\ Places
          /\ pc = "up" /\ chain' = chain
          /\ UNCHANGED <<rows, parent, session_id, rowsAtCall, inserts>>
      BY DEF IInv, UpCycle, UpNothing, UpEnds, UpParent, db
    <2>2. chain = <<>> /\ stack = {}
      BY <2>1 DEF Places
    <2>3. seen = {} /\ seen' = seen
      BY <2>1, <2>2, SeenType DEF TypeOK, seen
    <2>4. QED
      BY <2>1, <2>2, <2>3
  <1>1. NoRepeats' /\ RootFirst'
    BY <1>0, EmptySeq DEF NoRepeats, RootFirst
  <1>2. CASE UpCycle
    <2>1. root \in seen_up /\ pc' = "down" /\ stack' = {root} /\ UNCHANGED <<root, seen_up>>
      BY <1>2 DEF UpCycle, SeenUp, GoDown
    <2>2. TypeOK'
      BY <1>0, <2>1 DEF TypeOK
    <2>3. PathKept'
      BY <1>0, <2>1 DEF PathKept
    <2>4. RootIsTop'
      BY <1>0, <2>1 DEF RootIsTop, PathKept
    <2>5. Collected' /\ Belongs'
      BY <1>0, <2>1 DEF Collected, Belongs, Closed
    <2>6. Places'
      BY <1>0, <2>1, WalkBegins DEF Places
    <2>7. QED
      BY <1>1, <2>2, <2>3, <2>4, <2>5, <2>6 DEF IInv
  <1>3. CASE UpNothing
    <2>1. /\ root = session_id /\ root \notin rows /\ pc' = "done"
          /\ seen_up' = seen_up \cup {root} /\ UNCHANGED <<root, stack>>
      BY <1>3 DEF UpNothing
    <2>2. TypeOK'
      BY <1>0, <2>1 DEF TypeOK
    <2>3. PathKept'
      BY <1>0, <2>1 DEF PathKept
    <2>4. RootIsTop'
      BY <1>0, <2>1 DEF RootIsTop
    <2>5. Collected' /\ Belongs' /\ Places'
      BY <1>0, <2>1 DEF Collected, Belongs, Places, Closed
    <2>6. QED
      BY <1>1, <2>2, <2>3, <2>4, <2>5 DEF IInv
  <1>4. CASE UpEnds
    <2>1. /\ root \in rows => parent[root] = NoParent
          /\ pc' = "down" /\ stack' = {root}
          /\ seen_up' = seen_up \cup {root} /\ UNCHANGED root
      BY <1>4 DEF UpEnds, GoDown
    <2>2. TypeOK'
      BY <1>0, <2>1 DEF TypeOK
    <2>3. PathKept'
      BY <1>0, <2>1 DEF PathKept
    <2>4. RootIsTop'
      BY <1>0, <2>1 DEF RootIsTop, Places
    <2>5. Collected' /\ Belongs'
      BY <1>0, <2>1 DEF Collected, Belongs, Closed
    <2>6. Places'
      <3>1. session_id \in rows
        BY <1>0, <1>4, WalkBegins DEF UpEnds
      <3>2. QED
        BY <1>0, <2>1, <3>1 DEF Places
    <2>7. QED
      BY <1>1, <2>2, <2>3, <2>4, <2>5, <2>6 DEF IInv
  <1>5. CASE UpParent
    <2>1. /\ root \in rows /\ parent[root] \in Session /\ root' = parent[root]
          /\ pc' = pc /\ stack' = stack /\ seen_up' = seen_up \cup {root}
      BY <1>5 DEF UpParent
    <2>2. TypeOK'
      BY <1>0, <2>1 DEF TypeOK
    <2>3. PathKept'
      <3>1. ASSUME NEW S \in SUBSET Session, root' \in S,
                   \A x \in seen_up' : x \in rows /\ parent[x] \in S => x \in S
            PROVE  seen_up' \cup {session_id} \subseteq S
        <4>1. root \in S /\ \A x \in seen_up : x \in rows /\ parent[x] \in S => x \in S
          BY <2>1, <3>1
        <4>2. QED
          BY <1>0, <2>1, <4>1 DEF PathKept
      <3>2. \A x \in seen_up' : x \in rows /\ parent[x] \in seen_up' \cup {root'}
        BY <1>0, <2>1 DEF PathKept
      <3>3. QED
        BY <1>0, <2>1, <3>1, <3>2 DEF PathKept
    <2>4. RootIsTop'
      BY <1>0, <2>1 DEF RootIsTop
    <2>5. Belongs'
      BY <1>0, <2>1 DEF Belongs, Closed
    <2>6. Collected' /\ Places'
      BY <1>0, <2>1 DEF Collected, Places
    <2>7. QED
      BY <1>1, <2>2, <2>3, <2>4, <2>5, <2>6 DEF IInv
  <1>6. QED
    BY <1>2, <1>3, <1>4, <1>5

\* The second loop: what is on the stack is what is missing.
LEMMA DownKeeps ==
    ASSUME IInv, DownKnown \/ DownNew \/ Return
    PROVE  IInv'
  <1>0. /\ TypeOK /\ NoRepeats /\ RootFirst /\ PathKept /\ RootIsTop
        /\ Collected /\ Belongs /\ Places
        /\ pc = "down"
        /\ UNCHANGED <<rows, parent, session_id, root, seen_up, rowsAtCall, inserts>>
        /\ chain \in Seq(Session)
    BY DEF IInv, DownKnown, DownNew, Return, db, TypeOK
  <1>1. PathKept'
    <2>1. pc' \in {"down", "done"}
      BY <1>0 DEF DownKnown, DownNew, Return
    <2>2. QED
      BY <1>0, <2>1 DEF PathKept
  <1>2. CASE DownKnown
    <2>1. PICK s \in stack : s \in seen /\ stack' = stack \ {s}
      BY <1>2 DEF DownKnown, New
    <2>2. chain' = chain /\ pc' = pc /\ seen' = seen /\ chain # <<>>
      <3>1. chain' = chain /\ pc' = pc
        BY <1>2 DEF DownKnown
      <3>2. QED
        BY <1>0, <2>1, <3>1, SeenType DEF seen
    <2>3. TypeOK'
      BY <1>0, <2>1, <2>2 DEF TypeOK
    <2>4. NoRepeats' /\ RootFirst'
      BY <1>0, <2>2 DEF NoRepeats, RootFirst
    <2>5. RootIsTop' /\ Collected' /\ Places'
      BY <1>0, <2>1, <2>2 DEF RootIsTop, Collected, Places
    <2>6. Belongs'
      BY <1>0, <2>1, <2>2 DEF Belongs, Closed
    <2>7. QED
      BY <1>1, <2>3, <2>4, <2>5, <2>6 DEF IInv
  <1>3. CASE DownNew
    <2>1. PICK s \in stack : /\ s \notin seen /\ chain' = Append(chain, s)
                             /\ stack' = (stack \ {s}) \cup Children(s)
      BY <1>3 DEF DownNew, New
    <2>2. /\ s \in Session /\ pc' = pc
          /\ \A c \in Children(s) : c \in rows /\ parent[c] = s
          /\ \A c \in rows : parent[c] = s => c \in Children(s)
      BY <1>0, <1>3 DEF TypeOK, DownNew, Children
    <2>3. /\ seen' = seen \cup {s} /\ chain' \in Seq(Session) /\ chain' # <<>>
          /\ Len(chain') = Len(chain) + 1 /\ chain'[Len(chain')] = s
          /\ \A k \in 1 .. Len(chain) : chain'[k] = chain[k]
          /\ Len(chain) \in Nat
      BY <1>0, <2>1, <2>2, SeenAppend, LenProperties
    <2>4. TypeOK'
      BY <1>0, <2>1, <2>2, <2>3 DEF TypeOK, Children
    <2>5. NoRepeats'
      <3>1. \A k \in 1 .. Len(chain) : chain[k] \in seen
        BY DEF seen
      <3>2. \A k \in 1 .. Len(chain') : k \in 1 .. Len(chain) \/ k = Len(chain')
        BY <2>3
      <3>3. QED
        BY <1>0, <2>1, <2>3, <3>1, <3>2 DEF NoRepeats
    <2>6. RootFirst'
      <3>1. CASE chain = <<>>
        <4>1. s = root /\ Len(chain') = 1
          BY <1>0, <2>1, <2>3, <3>1, EmptySeq DEF Places
        <4>2. QED
          BY <1>0, <2>3, <4>1 DEF RootFirst
      <3>2. CASE chain # <<>>
        <4>1. 1 \in 1 .. Len(chain)
          BY <1>0, <3>2, EmptySeq
        <4>2. QED
          BY <1>0, <2>3, <3>2, <4>1 DEF RootFirst
      <3>3. QED
        BY <3>1, <3>2
    <2>7. RootIsTop'
      BY <1>0, <2>1, <2>2, <2>3 DEF RootIsTop
    <2>8. Collected'
      BY <1>0, <2>1, <2>2, <2>3 DEF Collected
    <2>9. Belongs'
      BY <1>0, <2>1, <2>2, <2>3 DEF Belongs, Closed
    <2>10. Places'
      BY <1>0, <2>2, <2>3 DEF Places
    <2>11. QED
      BY <1>1, <2>4, <2>5, <2>6, <2>7, <2>8, <2>9, <2>10 DEF IInv
  <1>4. CASE Return
    <2>1. stack = {} /\ pc' = "done" /\ stack' = stack /\ chain' = chain /\ seen' = seen
      BY <1>4 DEF Return, seen
    <2>2. chain # <<>>
      BY <1>0, <2>1 DEF Places
    <2>3. TypeOK' /\ NoRepeats' /\ RootFirst'
      BY <1>0, <2>1 DEF TypeOK, NoRepeats, RootFirst
    <2>4. RootIsTop' /\ Collected' /\ Places'
      BY <1>0, <2>1, <2>2 DEF RootIsTop, Collected, Places
    <2>5. Belongs'
      BY <1>0, <2>1 DEF Belongs, Closed
    <2>6. QED
      BY <1>1, <2>3, <2>4, <2>5 DEF IInv
  <1>5. QED
    BY <1>2, <1>3, <1>4

\* A session that is inserted meanwhile breaks nothing that the call relies on: the
\* links that it has followed, and those of the rows it began with, are as they were.
LEMMA InsertKeeps ==
    ASSUME IInv, NEW s \in Session, NEW p \in Session \cup {NoParent}, Insert(s, p)
    PROVE  IInv'
  <1>0. /\ TypeOK /\ NoRepeats /\ RootFirst /\ PathKept /\ RootIsTop
        /\ Collected /\ Belongs /\ Places
        /\ pc # "done" /\ s \notin rows /\ rows' = rows \cup {s}
        /\ UNCHANGED <<session_id, pc, root, seen_up, stack, chain, rowsAtCall>>
        /\ seen' = seen
    BY DEF IInv, Insert, call, seen
  <1>1. \A x \in rows : parent'[x] = parent[x]
    BY <1>0 DEF Insert, TypeOK
  <1>2. TypeOK'
    BY <1>0, BoundAssumption DEF Insert, TypeOK
  <1>3. NoRepeats' /\ RootFirst'
    BY <1>0 DEF NoRepeats, RootFirst
  <1>4. PathKept'
    <2>1. ASSUME NEW S \in SUBSET Session, root \in S,
                 \A x \in seen_up : x \in rows' /\ parent'[x] \in S => x \in S
          PROVE  seen_up \cup {session_id} \subseteq S
      <3>1. \A x \in seen_up : x \in rows /\ parent[x] \in S => x \in S
        BY <1>0, <1>1, <2>1
      <3>2. QED
        BY <1>0, <2>1, <3>1 DEF PathKept
    <2>2. \A x \in seen_up :
             pc = "up" \/ x # root => x \in rows' /\ parent'[x] \in seen_up \cup {root}
      BY <1>0, <1>1 DEF PathKept
    <2>3. QED
      BY <1>0, <2>1, <2>2 DEF PathKept
  <1>5. RootIsTop'
    BY <1>0, <1>1 DEF RootIsTop, Places
  <1>6. Collected'
    <2>1. ASSUME NEW x \in rows' \cap (rowsAtCall \cup seen_up), parent'[x] \in seen
          PROVE  x \in seen \cup stack
      <3>1. CASE x \in rows
        BY <1>0, <1>1, <2>1, <3>1 DEF Collected
      <3>2. CASE x = s
        <4>1. s \in seen_up
          BY <1>0, <2>1, <3>2 DEF Places
        <4>2. s = root /\ pc = "down"
          BY <1>0, <4>1 DEF PathKept, TypeOK
        <4>3. QED
          BY <1>0, <3>2, <4>2 DEF RootIsTop
      <3>3. QED
        BY <1>0, <3>1, <3>2
    <2>2. \A x \in seen \cup stack : x # root => x \in rows' /\ parent'[x] \in seen
      BY <1>0, <1>1 DEF Collected
    <2>3. QED
      BY <1>0, <2>1, <2>2 DEF Collected
  <1>7. Belongs'
    <2>1. ASSUME NEW S \in SUBSET Session, Closed(S, rows)'
          PROVE  Closed(S, rows)
      BY <1>0, <1>1, <2>1 DEF Closed
    <2>2. QED
      BY <1>0, <2>1 DEF Belongs
  <1>8. Places'
    BY <1>0 DEF Places
  <1>9. QED
    BY <1>2, <1>3, <1>4, <1>5, <1>6, <1>7, <1>8 DEF IInv

\* Every step keeps the invariant.
LEMMA StepIInv == IInv /\ [Next]_vars => IInv'
  <1> SUFFICES ASSUME IInv, [Next]_vars PROVE IInv'
    OBVIOUS
  <1>1. CASE CallStep
    BY <1>1, UpKeeps, DownKeeps DEF CallStep
  <1>2. ASSUME NEW s \in Session, NEW p \in Session \cup {NoParent}, Insert(s, p)
        PROVE  IInv'
    BY <1>2, InsertKeeps
  <1>3. CASE UNCHANGED vars
    BY <1>3 DEF vars, db, call, IInv, TypeOK, NoRepeats, RootFirst, PathKept, RootIsTop,
                Collected, Belongs, Places, Closed, seen
  <1>4. QED
    BY <1>1, <1>2, <1>3 DEF Next

\* The walk and the collection keep to the conversation of the session, for every
\* database and whatever is inserted meanwhile.
THEOREM Invariance == Spec => []IInv
  BY InitIInv, StepIInv, PTL DEF Spec

\* No session is returned twice, whatever cycles there are.
THEOREM EachOnce == Spec => []NoRepeats
  <1>1. IInv => NoRepeats
    BY DEF IInv
  <1>2. QED
    BY Invariance, <1>1, PTL

\* The first session of the chain is the root, which export_session hands on as such.
THEOREM RootLeads == Spec => []RootFirst
  <1>1. IInv => RootFirst
    BY DEF IInv
  <1>2. QED
    BY Invariance, <1>1, PTL

\* What is collected at the end is closed under the links of the rows at the beginning.
LEMMA DoneReturnsAll == IInv => ReturnsAll
  <1> SUFFICES ASSUME IInv, pc = "done", session_id \in rowsAtCall
               PROVE  session_id \in seen /\ Closed(seen, rowsAtCall)
    BY DEF ReturnsAll
  <1>1. /\ chain # <<>> /\ stack = {} /\ rowsAtCall \subseteq rows /\ seen \subseteq Session
    BY SeenType DEF IInv, Places, TypeOK
  <1>2. /\ root \in seen
        /\ root \in rowsAtCall => parent[root] \in seen_up \cup {NoParent}
    BY <1>1 DEF IInv, RootIsTop
  <1>3. \A x \in seen_up : x \in rows /\ parent[x] \in seen => x \in seen
    BY <1>1 DEF IInv, Collected
  <1>4. seen_up \cup {session_id} \subseteq seen
    BY <1>1, <1>2, <1>3 DEF IInv, PathKept
  <1>5. ASSUME NEW x \in rowsAtCall, parent[x] \in Session
        PROVE  x \in seen <=> parent[x] \in seen
    <2>1. parent[x] \in seen => x \in seen
      BY <1>1, <1>5 DEF IInv, Collected
    <2>2. x \in seen /\ x # root => parent[x] \in seen
      BY <1>1 DEF IInv, Collected
    <2>3. x = root => parent[x] \in seen
      BY <1>2, <1>4, <1>5, NoParentAssumption
    <2>4. QED
      BY <2>1, <2>2, <2>3
  <1>6. QED
    BY <1>4, <1>5 DEF Closed

\* The whole conversation, as it was when the call began, is returned.
THEOREM Complete == Spec => []ReturnsAll
  BY Invariance, DoneReturnsAll, PTL

\* Nothing is returned that is not connected with the session.
THEOREM Sound == Spec => []ReturnsNothingElse
  <1>1. IInv => ReturnsNothingElse
    BY DEF IInv, Belongs, ReturnsNothingElse
  <1>2. QED
    BY Invariance, <1>1, PTL

-----------------------------------------------------------------------------
(* The call implements the lookup that its callers see *)

\* What is collected lies between the conversation at the call and that of now.
Between ==
    /\ seen \in SUBSET Lookup!Conversation(session_id, rows)
    /\ Lookup!Conversation(session_id, rowsAtCall) \subseteq seen

\* So it is when the call returns.
LEMMA ReturnsBetween == IInv /\ pc = "done" /\ (chain # <<>> => session_id \in rows) => Between
  <1> SUFFICES ASSUME IInv, pc = "done", chain # <<>> => session_id \in rows
               PROVE  Between
    OBVIOUS
  <1>1. seen \subseteq Session /\ (chain = <<>> => seen = {}) /\ session_id \in Session
    BY SeenType DEF IInv, TypeOK
  <1>2. seen \in SUBSET Lookup!Conversation(session_id, rows)
    <2> SUFFICES ASSUME NEW t \in seen PROVE t \in Lookup!Conversation(session_id, rows)
      OBVIOUS
    <2>1. t \in Session /\ session_id \in rows
      BY <1>1
    <2>2. ASSUME NEW S \in SUBSET Session, session_id \in S, Lookup!Closed(S, rows)
          PROVE  t \in S
      <3>1. Closed(S, rows)
        BY <2>2 DEF Closed, Lookup!Closed
      <3>2. QED
        BY <2>2, <3>1 DEF IInv, Belongs
    <2>3. QED
      BY <2>1, <2>2 DEF Lookup!Conversation
  <1>3. CASE session_id \in rowsAtCall
    <2>1. session_id \in seen /\ Closed(seen, rowsAtCall)
      BY <1>3, DoneReturnsAll DEF ReturnsAll
    <2>2. Lookup!Closed(seen, rowsAtCall)
      BY <2>1 DEF Closed, Lookup!Closed
    <2>3. QED
      BY <1>1, <1>2, <2>1, <2>2 DEF Between, Lookup!Conversation
  <1>4. CASE session_id \notin rowsAtCall
    BY <1>2, <1>4 DEF Between, Lookup!Conversation
  <1>5. QED
    BY <1>3, <1>4

\* Every step of the call is nothing, or the return; hermes inserts in both.
LEMMA StepLooksUp ==
    ASSUME IInv, IInv', [Next]_vars
    PROVE  [Lookup!Next]_Lookup!vars
  <1> DEFINE returned == pc = "done"
             result == IF pc = "done" THEN seen ELSE {}
  <1>1. CASE UpCycle \/ UpEnds \/ UpParent \/ DownKnown \/ DownNew
    <2>1. /\ UNCHANGED <<rows, parent, session_id, rowsAtCall>>
          /\ pc # "done" /\ pc' # "done"
      BY <1>1 DEF UpCycle, UpEnds, UpParent, DownKnown, DownNew, GoDown, db
    <2>2. QED
      BY <2>1 DEF Lookup!vars
  <1>2. CASE UpNothing \/ Return
    <2>1. /\ UNCHANGED <<rows, parent, session_id, rowsAtCall, chain>>
          /\ pc # "done" /\ pc' = "done" /\ seen' = seen
      BY <1>2 DEF UpNothing, Return, db, seen
    <2>2. chain' # <<>> => session_id' \in rows'
      BY <1>2, <2>1 DEF UpNothing, Return, IInv, Places
    <2>3. /\ seen \in SUBSET Lookup!Conversation(session_id, rows)
          /\ Lookup!Conversation(session_id, rowsAtCall) \subseteq seen
      <3>1. IInv' /\ (pc = "done")' /\ (chain # <<>> => session_id \in rows)' => Between'
        BY ReturnsBetween, PTL
      <3>2. Between'
        BY <2>1, <2>2, <3>1
      <3>3. QED
        BY <2>1, <3>2 DEF Between, Lookup!Conversation, Lookup!Closed
    <2>4. Lookup!Return
      BY <2>1, <2>3 DEF Lookup!Return
    <2>5. QED
      BY <2>4 DEF Lookup!Next
  <1>3. ASSUME NEW s \in Session, NEW p \in Session \cup {NoParent}, Insert(s, p)
        PROVE  Lookup!Next
    <2>1. /\ pc # "done" /\ pc' = pc /\ s \notin rows /\ rows' = rows \cup {s}
          /\ parent' = [parent EXCEPT ![s] = p]
          /\ UNCHANGED <<session_id, rowsAtCall>>
      BY <1>3 DEF Insert, call
    <2>2. Lookup!Insert(s, p)
      BY <2>1 DEF Lookup!Insert
    <2>3. QED
      BY <2>2 DEF Lookup!Next
  <1>4. CASE UNCHANGED vars
    BY <1>4 DEF vars, db, call, Lookup!vars, seen
  <1>5. QED
    BY <1>1, <1>2, <1>3, <1>4 DEF Next, CallStep

\* Whatever the links and whatever is inserted meanwhile, to its callers resolve_chain
\* looks a conversation up in a single step.
THEOREM ChainIsLookup == Spec => LooksUpConversation
  <1>1. Init => Lookup!Init
    BY DEF Init, Lookup!Init
  <1>2. QED
    BY Invariance, StepLooksUp, <1>1, PTL DEF LooksUpConversation, Lookup!Spec, Spec
=============================================================================
