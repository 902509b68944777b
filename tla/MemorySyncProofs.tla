-------------------------- MODULE MemorySyncProofs --------------------------
(***************************************************************************)
(* Proofs about MemorySync, for any homes, files, lines and imports: that  *)
(* an import loses nothing unless it overwrites what somebody wrote since  *)
(* it read the file, and that no text comes to stand twice in a file.      *)
(***************************************************************************)
EXTENDS MemorySync, TLAPS

-----------------------------------------------------------------------------
(* merge_memory_text *)

\* The merge of two contents is a content that has the texts of both.
LEMMA MergeKeeps ==
    ASSUME NEW c \in Content \cup {Absent}, NEW d \in Content
    PROVE  /\ Merge(c, d) \in Content
           /\ Texts(c) \cup Texts(d) \subseteq Texts(Merge(c, d))
  <1> DEFINE base == IF c = Absent THEN Blank ELSE c
             new == NewLines(c, d)
             full == [l \in Line |-> base[l] + new[l] + IF l = Marker THEN 1 ELSE 0]
  <1>1. base \in Content /\ Blank \in Content /\ Content # {}
    BY DEF Content, Blank
  <1>2. new \in Content /\ \A l \in Line : new[l] = IF Strip[l] \in Texts(c) THEN 0 ELSE d[l]
    BY DEF NewLines, Content
  <1>3. Texts(c) = {Strip[l] : l \in {k \in Line : base[k] > 0}}
    BY DEF Texts, Blank
  <1>4. Merge(c, d) = IF new = Blank THEN base ELSE full
    BY DEF Merge
  <1> HIDE DEF base, new
  <1>5. full \in Content
    BY <1>1, <1>2 DEF Content
  <1>6. Merge(c, d) \in Content
    BY <1>1, <1>4, <1>5
  <1>7. \A l \in Line : base[l] > 0 \/ new[l] > 0 => Merge(c, d)[l] > 0
    <2>1. CASE new = Blank
      BY <1>4, <2>1 DEF Blank
    <2>2. CASE new # Blank
      <3>1. \A l \in Line : base[l] \in Nat /\ new[l] \in Nat
        BY <1>1, <1>2 DEF Content
      <3>2. QED
        BY <1>4, <2>2, <3>1
    <2>3. QED
      BY <2>1, <2>2
  <1>8. Merge(c, d) # Absent /\ d # Absent
    BY <1>6, AbsentAssumption
  <1>9. Texts(Merge(c, d)) = {Strip[l] : l \in {k \in Line : Merge(c, d)[k] > 0}}
    BY <1>8 DEF Texts
  <1>10. Texts(c) \subseteq Texts(Merge(c, d))
    BY <1>3, <1>7, <1>9
  <1>11. ASSUME NEW l \in Line, d[l] > 0 PROVE Strip[l] \in Texts(Merge(c, d))
    <2>1. CASE Strip[l] \in Texts(c)
      BY <1>10, <2>1
    <2>2. CASE Strip[l] \notin Texts(c)
      BY <1>2, <1>7, <1>9, <1>11, <2>2
    <2>3. QED
      BY <2>1, <2>2
  <1>12. QED
    BY <1>6, <1>8, <1>10, <1>11 DEF Texts

\* A file that the merge leaves as it is has all the texts that came in.
LEMMA MergeOfNothing ==
    ASSUME NEW c \in Content \cup {Absent}, NEW d \in Content, Merge(c, d) = c
    PROVE  Texts(d) \subseteq Texts(c)
  BY MergeKeeps

\* The merge of contents without doubled texts has none.
LEMMA MergeIsSingle ==
    ASSUME NEW c \in Content \cup {Absent}, NEW d \in Content, Single(c), Single(d)
    PROVE  Single(Merge(c, d))
  <1> DEFINE base == IF c = Absent THEN Blank ELSE c
             new == NewLines(c, d)
  <1>1. base \in Content /\ new \in Content
    BY DEF Content, Blank, NewLines
  <1>2. Merge(c, d) = IF new = Blank THEN base
                      ELSE [l \in Line |-> base[l] + new[l] + IF l = Marker THEN 1 ELSE 0]
    BY DEF Merge
  <1>3. \A l \in Line : new[l] = IF Strip[l] \in Texts(c) THEN 0 ELSE d[l]
    BY DEF NewLines
  <1>4. \A l \in Line : base[l] > 0 => Strip[l] \in Texts(c)
    BY DEF Texts, Blank
  <1>5. \A k, l \in Line : Strip[k] # Strip[Marker] /\ Strip[k] = Strip[l] /\ base[k] > 0 /\ base[l] > 0
                             => k = l /\ base[k] = 1
    BY DEF Single, Blank
  <1>6. d # Absent
    BY AbsentAssumption
  <1>7. \A k, l \in Line : Strip[k] # Strip[Marker] /\ Strip[k] = Strip[l] /\ new[k] > 0 /\ new[l] > 0
                             => k = l /\ new[k] = 1
    BY <1>3, <1>6 DEF Single
  <1> HIDE DEF base, new
  <1>8. \A l \in Line : base[l] \in Nat /\ new[l] \in Nat /\ (base[l] = 0 \/ new[l] = 0)
    BY <1>1, <1>3, <1>4 DEF Content
  <1>9. \A l \in Line : Strip[l] # Strip[Marker] =>
          Merge(c, d)[l] = IF new = Blank THEN base[l] ELSE base[l] + new[l]
    BY <1>2, <1>8
  <1>10. ASSUME NEW k \in Line, NEW l \in Line, Strip[k] # Strip[Marker], Strip[k] = Strip[l],
                Merge(c, d)[k] > 0, Merge(c, d)[l] > 0
         PROVE  k = l /\ Merge(c, d)[k] = 1
    <2>1. /\ Merge(c, d)[k] = IF new = Blank THEN base[k] ELSE base[k] + new[k]
          /\ Merge(c, d)[l] = IF new = Blank THEN base[l] ELSE base[l] + new[l]
      BY <1>9, <1>10
    <2>2. CASE base[k] > 0
      <3>1. Strip[k] \in Texts(c)
        BY <1>4, <2>2
      <3>2. new[k] = 0 /\ new[l] = 0
        BY <1>3, <1>10, <3>1
      <3>3. QED
        BY <1>5, <1>8, <1>10, <2>1, <2>2, <3>2
    <2>3. CASE ~(base[k] > 0)
      <3>1. base[k] = 0 /\ new[k] > 0 /\ new # Blank
        BY <1>8, <1>10, <2>1, <2>3
      <3>2. Strip[k] \notin Texts(c)
        BY <1>3, <3>1
      <3>3. ~(base[l] > 0)
        BY <1>4, <1>10, <3>2
      <3>4. base[l] = 0 /\ new[l] > 0
        BY <1>8, <1>10, <2>1, <3>3
      <3>5. QED
        BY <1>7, <1>8, <1>10, <2>1, <3>1, <3>4
    <2>4. QED
      BY <2>2, <2>3
  <1>11. QED
    BY <1>10 DEF Single

\* What an import that is about to write works on.
LEMMA WritesContent ==
    ASSUME TypeOK, NEW i \in Importer, Carried(i), pc(i) = "write"
    PROVE  /\ import[i].local \in Content \cup {Absent} /\ Incoming(i) \in Content
           /\ import[i].file \in File /\ home(i) \in Home /\ Merged(i) \in Content
  <1>1. /\ import[i] \in ImportState /\ home(i) \in Home
    BY ImporterAssumption DEF TypeOK, home
  <1>2. Incoming(i) \in Content
    BY <1>1 DEF Carried, Incoming, ImportState, Files
  <1>3. QED
    BY <1>1, <1>2, MergeKeeps DEF ImportState, Merged

-----------------------------------------------------------------------------
(* Types, and what an import works on *)

\* What is under way in a home or an import has its type.
LEMMA Fields ==
    ASSUME TypeOK
    PROVE  /\ \A h \in Home : memory[h] \in Files /\ mail[h] \in Files
           /\ \A h \in Home : reading[h] \in [todo : SUBSET File, bundle : Files]
           /\ \A i \in Importer : import[i] \in ImportState /\ home(i) \in Home
           /\ NoBundle \in Files /\ Blank \in Content
           /\ import \in [Importer -> ImportState]
  BY ImporterAssumption DEF TypeOK, home, NoBundle, Files, Blank, Content

\* An import at rest.
LEMMA IdleType ==
    ASSUME TypeOK, NEW i \in Importer
    PROVE  /\ Idle(i) \in ImportState /\ Idle(i).pc = "idle" /\ Idle(i).local = Absent
           /\ Idle(i).bundle = NoBundle /\ Idle(i).todo = {} /\ Idle(i).skipped = {}
  BY Fields DEF Idle, ImportState

\* An export leaves the imports and the files alone.
LEMMA ExportTypes ==
    ASSUME TypeOK, NEW h \in Home,
           ExportBegin(h) \/ \E f \in File : ExportFile(h, f) \/ ExportPassesOver(h, f)
    PROVE  TypeOK' /\ UNCHANGED <<memory, import, kept, clashed>>
  <1>1. CASE ExportBegin(h)
    BY <1>1, Fields DEF ExportBegin, TypeOK
  <1>2. ASSUME NEW f \in File, NEW c \in Content \cup {Absent}, PutFile(h, f, c),
               faults' \in 0 .. MaxFaults
        PROVE  TypeOK' /\ UNCHANGED <<memory, import, kept, clashed>>
    <2>1. reading'[h] \in [todo : SUBSET File, bundle : Files]
          /\ reading' \in [Home -> [todo : SUBSET File, bundle : Files]]
      <3>1. reading[h].bundle \in Files /\ reading[h].todo \in SUBSET File
        BY Fields
      <3>2. [reading[h].bundle EXCEPT ![f] = c] \in Files
        BY <3>1 DEF Files
      <3>3. reading' = [reading EXCEPT ![h] = [reading[h] EXCEPT !.todo = @ \ {f}, !.bundle[f] = c]]
        BY <1>2 DEF PutFile, TypeOK
      <3>4. [reading[h] EXCEPT !.todo = @ \ {f}, !.bundle = [@ EXCEPT ![f] = c]]
               \in [todo : SUBSET File, bundle : Files]
        BY <3>1, <3>2, Fields
      <3>5. QED
        BY <3>3, <3>4 DEF TypeOK
    <2>2. mail' \in [Home -> Files]
      BY <1>2, <2>1 DEF PutFile, TypeOK
    <2>3. QED
      BY <1>2, <2>1, <2>2 DEF PutFile, TypeOK
  <1>3. ASSUME NEW f \in File, ExportFile(h, f)
        PROVE  TypeOK' /\ UNCHANGED <<memory, import, kept, clashed>>
    <2>1. memory[h][f] \in Content \cup {Absent}
      BY Fields DEF Files
    <2>2. QED
      BY <1>2, <1>3, <2>1 DEF ExportFile, TypeOK
  <1>4. ASSUME NEW f \in File, ExportPassesOver(h, f)
        PROVE  TypeOK' /\ UNCHANGED <<memory, import, kept, clashed>>
    <2>1. faults' \in 0 .. MaxFaults
      BY <1>4, BoundAssumption DEF ExportPassesOver, TypeOK
    <2>2. QED
      BY <1>2, <1>4, <2>1 DEF ExportPassesOver
  <1>5. QED
    BY <1>1, <1>3, <1>4

\* A step of an import changes that import only.
LEMMA ImportTypes ==
    ASSUME TypeOK, NEW i \in Importer, Carried(i),
           ImportStep(i) \/ ReadFails(i) \/ ImportFails(i) \/ \E g \in Home : Begin(i, g)
    PROVE  /\ TypeOK' /\ Carried(i)' /\ UNCHANGED <<mail, reading>>
           /\ \A j \in Importer : j # i => import'[j] = import[j]
  <1> USE DEF pc
  <1>0. /\ import \in [Importer -> ImportState] /\ import[i] \in ImportState
        /\ home(i) \in Home /\ Idle(i) \in ImportState
        /\ Idle(i).pc = "idle" /\ Idle(i).todo = {}
    BY Fields, IdleType
  <1>1. CASE Read(i)
    <2>1. PICK f \in import[i].todo :
            import' = [import EXCEPT ![i].pc = "write", ![i].todo = @ \ {f}, ![i].file = f,
                                     ![i].local = memory[home(i)][f]]
      BY <1>1 DEF Read
    <2>2. f \in File /\ memory[home(i)][f] \in Content \cup {Absent}
      BY <1>0, Fields DEF ImportState, Files
    <2>3. import' \in [Importer -> ImportState]
      BY <1>0, <2>1, <2>2 DEF ImportState
    <2>4. import'[i].file = f /\ import'[i].bundle = import[i].bundle
          /\ import'[i].todo = import[i].todo \ {f}
      BY <1>0, <2>1 DEF ImportState
    <2>5. QED
      BY <1>0, <1>1, <2>1, <2>3, <2>4 DEF Read, TypeOK, Carried, Incoming
  <1>2. CASE Keep(i)
    <2>1. import' \in [Importer -> ImportState]
          /\ import'[i].pc = "next" /\ import'[i].bundle = import[i].bundle
          /\ import'[i].todo = import[i].todo
      BY <1>0, <1>2 DEF Keep, ImportState
    <2>2. QED
      BY <1>0, <1>2, <2>1 DEF Keep, TypeOK, Carried
  <1>3. CASE Replace(i)
    <2>1. import' \in [Importer -> ImportState]
          /\ import'[i].pc = "next" /\ import'[i].bundle = import[i].bundle
          /\ import'[i].todo = import[i].todo
      BY <1>0, <1>3 DEF Replace, ImportState
    <2>2. Merged(i) \in Content /\ import[i].file \in File
      BY <1>3, WritesContent DEF Replace
    <2>3. memory' \in [Home -> Files] /\ clashed' \in SUBSET (Home \X File)
      <3>1. home(i) \in Home
        BY <1>0, Fields DEF TypeOK
      <3>2. memory' = [memory EXCEPT ![home(i)][import[i].file] = Merged(i)]
        BY <1>3 DEF Replace
      <3>3. memory' \in [Home -> Files]
        BY <1>0, <2>2, <3>1, <3>2 DEF TypeOK, Files
      <3>4. clashed' \in SUBSET (Home \X File)
        BY <1>0, <1>3, <2>2, <3>1 DEF Replace, TypeOK
      <3>5. QED
        BY <3>3, <3>4
    <2>4. QED
      BY <1>0, <1>3, <2>1, <2>3 DEF Replace, TypeOK, Carried
  <1>4. CASE Answer(i)
    <2>1. import' = [import EXCEPT ![i] = Idle(i)]
      BY <1>4 DEF Answer
    <2>2. \A f \in File : Texts(import[i].bundle[f]) \subseteq Text
      BY LineAssumption DEF Texts
    <2>3. kept' \in [Home -> [File -> SUBSET Text]]
      BY <1>4, <2>2 DEF Answer, TypeOK
    <2>4. QED
      BY <1>0, <1>4, <2>1, <2>3 DEF Answer, TypeOK, Carried
  <1>5. CASE ReadFails(i)
    <2>1. PICK f \in import[i].todo :
            import' = [import EXCEPT ![i].todo = @ \ {f}, ![i].skipped = @ \cup {f}]
      BY <1>5 DEF ReadFails
    <2>2. /\ import' \in [Importer -> ImportState]
          /\ import'[i].pc = "next" /\ import'[i].bundle = import[i].bundle
          /\ import'[i].todo = import[i].todo \ {f}
      <3> DEFINE new == [import[i] EXCEPT !.todo = @ \ {f}, !.skipped = @ \cup {f}]
      <3>1. import[i] \in ImportState /\ import[i].pc = "next" /\ f \in File
        BY <1>0, <1>5, <2>1 DEF ReadFails, ImportState
      <3>2. /\ new \in ImportState /\ new.pc = "next" /\ new.bundle = import[i].bundle
            /\ new.todo = import[i].todo \ {f}
        BY <3>1 DEF ImportState
      <3> HIDE DEF new
      <3>3. import' = [import EXCEPT ![i] = new]
        BY <2>1 DEF new
      <3>4. QED
        BY <1>0, <3>2, <3>3
    <2>3. faults' \in 0 .. MaxFaults
      <3>1. faults < MaxFaults /\ faults' = faults + 1 /\ faults \in 0 .. MaxFaults
        BY <1>5 DEF ReadFails, TypeOK
      <3>2. QED
        BY <3>1, BoundAssumption
    <2>4. QED
      BY <1>0, <1>5, <2>1, <2>2, <2>3 DEF ReadFails, TypeOK, Carried
  <1>6. CASE ImportFails(i)
    <2>1. faults' \in 0 .. MaxFaults
      BY <1>6, BoundAssumption DEF ImportFails, TypeOK
    <2>2. QED
      BY <1>0, <1>6, <2>1 DEF ImportFails, TypeOK, Carried
  <1>7. ASSUME NEW g \in Home, Begin(i, g)
        PROVE  /\ TypeOK' /\ Carried(i)' /\ UNCHANGED <<mail, reading>>
               /\ \A j \in Importer : j # i => import'[j] = import[j]
    <2>1. mail[g] \in Files
      BY Fields
    <2>2. /\ import' \in [Importer -> ImportState]
          /\ import'[i].pc = "next" /\ import'[i].bundle = mail[g]
          /\ import'[i].todo = {f \in File : mail[g][f] # Absent}
      BY <1>0, <1>7, <2>1 DEF Begin, ImportState
    <2>3. QED
      BY <1>0, <1>7, <2>2 DEF Begin, TypeOK, Carried
  <1>8. QED
    BY <1>1, <1>2, <1>3, <1>4, <1>5, <1>6, <1>7 DEF ImportStep

\* A line that hermes adds.
LEMMA RememberTypes ==
    ASSUME TypeOK, NEW h \in Home, NEW f \in File, NEW l \in Line, Remember(h, f, l)
    PROVE  /\ TypeOK' /\ UNCHANGED <<mail, reading, import, clashed>>
           /\ memory'[h][f] = [(IF memory[h][f] = Absent THEN Blank ELSE memory[h][f])
                                 EXCEPT ![l] = 1]
           /\ memory'[h][f] \in Content
           /\ \A g \in Home, e \in File : <<g, e>> # <<h, f>> =>
                memory'[g][e] = memory[g][e] /\ kept'[g][e] = kept[g][e]
           /\ kept'[h][f] = kept[h][f] \cup {Strip[l]}
  <1> DEFINE c == IF memory[h][f] = Absent THEN Blank ELSE memory[h][f]
  <1>1. c \in Content /\ memory \in [Home -> Files] /\ memory[h] \in Files
    BY Fields DEF TypeOK, Files
  <1>2. memory' = [memory EXCEPT ![h][f] = [c EXCEPT ![l] = 1]]
    BY <1>1 DEF Remember, Files
  <1> HIDE DEF c
  <1>3. [c EXCEPT ![l] = 1] \in Content
    BY <1>1 DEF Content
  <1>4. memory' \in [Home -> Files] /\ memory'[h][f] = [c EXCEPT ![l] = 1]
    BY <1>1, <1>2, <1>3 DEF Files
  <1>5. Strip[l] \in Text
    BY LineAssumption
  <1>6. kept' \in [Home -> [File -> SUBSET Text]] /\ kept'[h][f] = kept[h][f] \cup {Strip[l]}
    BY <1>5 DEF Remember, TypeOK
  <1>7. edits' \in 0 .. MaxEdits
    BY BoundAssumption DEF Remember, TypeOK
  <1>8. \A g \in Home, e \in File : <<g, e>> # <<h, f>> =>
          memory'[g][e] = memory[g][e] /\ kept'[g][e] = kept[g][e]
    BY <1>1, <1>2 DEF Remember, TypeOK, Files
  <1>9. QED
    BY <1>3, <1>4, <1>6, <1>7, <1>8 DEF Remember, TypeOK, c

-----------------------------------------------------------------------------
(* No text twice *)

LEMMA ExportSingle ==
    ASSUME TypeOK, SingleInv, NEW h \in Home,
           ExportBegin(h) \/ \E f \in File : ExportFile(h, f) \/ ExportPassesOver(h, f)
    PROVE  SingleInv'
  <1>1. UNCHANGED <<memory, import>>
    BY ExportTypes
  <1>2. Single(Absent) /\ \A f \in File : NoBundle[f] = Absent
    BY DEF Single, NoBundle
  <1>3. ASSUME \A g \in Home, e \in File : Single(mail'[g][e]) /\ Single(reading'[g].bundle[e])
        PROVE  SingleInv'
    BY <1>1, <1>3 DEF SingleInv, NoTextTwice, Single
  <1>4. CASE ExportBegin(h)
    <2>1. /\ mail' = mail /\ reading'[h].bundle = NoBundle
          /\ \A g \in Home : g # h => reading'[g] = reading[g]
      BY <1>4 DEF ExportBegin, TypeOK
    <2>2. QED
      BY <1>2, <1>3, <2>1 DEF SingleInv
  <1>5. ASSUME NEW f \in File, NEW c, Single(c), PutFile(h, f, c) PROVE SingleInv'
    <2>1. reading[h] \in [todo : SUBSET File, bundle : Files]
      BY Fields
    <2>2. /\ reading'[h].bundle = [reading[h].bundle EXCEPT ![f] = c]
          /\ \A g \in Home : g # h => reading'[g] = reading[g]
      BY <1>5, <2>1 DEF PutFile, TypeOK
    <2>3. \A g \in Home, e \in File : Single(reading'[g].bundle[e])
      BY <1>5, <2>1, <2>2 DEF SingleInv, Files
    <2>4. \A g \in Home : mail'[g] = mail[g] \/ mail'[g] = reading'[g].bundle
      BY <1>5 DEF PutFile, TypeOK
    <2>5. QED
      BY <1>3, <2>3, <2>4 DEF SingleInv
  <1>6. QED
    BY <1>2, <1>4, <1>5 DEF ExportFile, ExportPassesOver, SingleInv, NoTextTwice

LEMMA ImportSingle ==
    ASSUME TypeOK, SingleInv, NEW i \in Importer, Carried(i),
           ImportStep(i) \/ ReadFails(i) \/ ImportFails(i) \/ \E g \in Home : Begin(i, g)
    PROVE  SingleInv'
  <1> USE DEF pc
  <1>0. /\ import \in [Importer -> ImportState] /\ import[i] \in ImportState
        /\ home(i) \in Home /\ Idle(i).local = Absent /\ Idle(i).bundle = NoBundle
    BY Fields, IdleType
  <1>1. UNCHANGED <<mail, reading>> /\ \A j \in Importer : j # i => import'[j] = import[j]
    BY ImportTypes
  <1>2. Single(Absent) /\ \A f \in File : NoBundle[f] = Absent
    BY DEF Single, NoBundle
  <1>3. ASSUME \A h \in Home, f \in File : Single(memory'[h][f]),
               \A f \in File : Single(import'[i].bundle[f]), Single(import'[i].local)
        PROVE  SingleInv'
    <2>1. \A j \in Importer, f \in File : Single(import'[j].bundle[f]) /\ Single(import'[j].local)
      BY <1>1, <1>3 DEF SingleInv
    <2>2. QED
      BY <1>1, <1>3, <2>1 DEF SingleInv, NoTextTwice, Single
  <1>4. CASE Replace(i)
    <2>1. /\ import'[i].bundle = import[i].bundle /\ import'[i].local = Absent
      BY <1>0, <1>4 DEF Replace, ImportState
    <2>2. import[i].file \in File /\ Single(Merged(i))
      BY <1>4, WritesContent, MergeIsSingle DEF Replace, SingleInv, Merged, Incoming
    <2>3. \A h \in Home, f \in File : memory'[h][f] \in {memory[h][f], Merged(i)}
      BY <1>4, <1>0, <2>2, Fields DEF Replace, TypeOK, Files
    <2>4. QED
      BY <1>2, <1>3, <2>1, <2>2, <2>3 DEF SingleInv, NoTextTwice
  <1>5. ASSUME memory' = memory,
               import'[i].bundle = import[i].bundle \/ import'[i].bundle = NoBundle
                  \/ \E g \in Home : import'[i].bundle = mail[g],
               import'[i].local = import[i].local \/ import'[i].local = Absent
                  \/ \E f \in File : import'[i].local = memory[home(i)][f]
        PROVE  SingleInv'
    <2>1. \A f \in File : Single(import'[i].bundle[f])
      BY <1>2, <1>5 DEF SingleInv
    <2>2. Single(import'[i].local)
      <3>1. CASE import'[i].local = import[i].local
        <4>1. File # {}
          BY <1>0 DEF ImportState
        <4>2. QED
          BY <3>1, <4>1 DEF SingleInv
      <3>2. CASE import'[i].local = Absent
        BY <1>2, <3>2
      <3>3. CASE \E f \in File : import'[i].local = memory[home(i)][f]
        BY <1>0, <3>3 DEF SingleInv, NoTextTwice
      <3>4. QED
        BY <1>5, <3>1, <3>2, <3>3
    <2>3. QED
      BY <1>3, <1>5, <2>1, <2>2 DEF SingleInv, NoTextTwice
  <1>6. CASE Read(i)
    <2>1. PICK f \in import[i].todo :
            import' = [import EXCEPT ![i].pc = "write", ![i].todo = @ \ {f}, ![i].file = f,
                                     ![i].local = memory[home(i)][f]]
      BY <1>6 DEF Read
    <2>2. /\ import'[i].bundle = import[i].bundle /\ f \in File
          /\ import'[i].local = memory[home(i)][f]
      BY <1>0, <2>1 DEF ImportState
    <2>3. QED
      BY <1>5, <1>6, <2>2 DEF Read
  <1>7. CASE Keep(i)
    <2>1. import'[i].bundle = import[i].bundle /\ import'[i].local = Absent
      BY <1>0, <1>7 DEF Keep, ImportState
    <2>2. QED
      BY <1>5, <1>7, <2>1 DEF Keep
  <1>8. CASE Answer(i) \/ ImportFails(i)
    <2>1. import'[i] = Idle(i)
      BY <1>0, <1>8 DEF Answer, ImportFails
    <2>2. QED
      BY <1>0, <1>5, <1>8, <2>1 DEF Answer, ImportFails
  <1>9. CASE ReadFails(i)
    <2>1. import'[i].bundle = import[i].bundle /\ import'[i].local = import[i].local
      <3>1. PICK f \in import[i].todo :
              import' = [import EXCEPT ![i].todo = @ \ {f}, ![i].skipped = @ \cup {f}]
        BY <1>9 DEF ReadFails
      <3>2. QED
        BY <1>0, <3>1 DEF ImportState
    <2>2. QED
      BY <1>5, <1>9, <2>1 DEF ReadFails
  <1>10. ASSUME NEW g \in Home, Begin(i, g) PROVE SingleInv'
    <2>1. import'[i].bundle = mail[g] /\ import'[i].local = import[i].local
      BY <1>0, <1>10 DEF Begin, ImportState
    <2>2. QED
      BY <1>5, <1>10, <2>1 DEF Begin
  <1>11. QED
    BY <1>4, <1>6, <1>7, <1>8, <1>9, <1>10 DEF ImportStep

LEMMA RememberSingle ==
    ASSUME TypeOK, SingleInv, NEW h \in Home, NEW f \in File, NEW l \in Line, Remember(h, f, l)
    PROVE  SingleInv'
  <1> DEFINE c == IF memory[h][f] = Absent THEN Blank ELSE memory[h][f]
  <1>1. memory[h][f] \in Content \cup {Absent} /\ c \in Content /\ Blank \in Content
    BY Fields DEF Files
  <1>2. /\ UNCHANGED <<mail, reading, import>>
        /\ memory'[h][f] = [c EXCEPT ![l] = 1] /\ memory'[h][f] # Absent
        /\ \A g \in Home, e \in File : <<g, e>> # <<h, f>> => memory'[g][e] = memory[g][e]
    BY RememberTypes, AbsentAssumption
  <1>3. \A k \in Line : c[k] > 0 => Strip[k] # Strip[l]
    BY DEF Remember, Texts, Blank
  <1>4. \A k, m \in Line : Strip[k] # Strip[Marker] /\ Strip[k] = Strip[m] /\ c[k] > 0 /\ c[m] > 0
                             => k = m /\ c[k] = 1
    BY DEF SingleInv, NoTextTwice, Single, Blank
  <1> HIDE DEF c
  <1>5. \A k \in Line : memory'[h][f][k] = IF k = l THEN 1 ELSE c[k]
    BY <1>1, <1>2 DEF Content
  <1>6. Single(memory'[h][f])
    BY <1>2, <1>3, <1>4, <1>5 DEF Single
  <1>7. \A g \in Home, e \in File : Single(memory'[g][e])
    BY <1>2, <1>6 DEF SingleInv, NoTextTwice
  <1>8. QED
    BY <1>2, <1>7 DEF SingleInv, NoTextTwice, Single

-----------------------------------------------------------------------------
(* Nothing is lost *)

\* No step takes a text out of a file, unless it makes a clash.
LEMMA TextsStay ==
    ASSUME TypeOK, \A i \in Importer : Carried(i), Next
    PROVE  /\ clashed \subseteq clashed'
           /\ \A h \in Home, f \in File :
                Texts(memory[h][f]) \subseteq Texts(memory'[h][f]) \/ <<h, f>> \in clashed'
  <1>1. CASE UNCHANGED <<memory, clashed>>
    BY <1>1
  <1>2. ASSUME NEW i \in Importer, Replace(i)
        PROVE  /\ clashed \subseteq clashed'
               /\ \A h \in Home, f \in File :
                    Texts(memory[h][f]) \subseteq Texts(memory'[h][f]) \/ <<h, f>> \in clashed'
    <2>1. /\ import[i].local \in Content \cup {Absent} /\ Incoming(i) \in Content
          /\ import[i].file \in File /\ home(i) \in Home
      BY <1>2, WritesContent DEF Replace
    <2>2. Texts(import[i].local) \subseteq Texts(Merged(i))
      BY <2>1, MergeKeeps DEF Merged
    <2>3. /\ memory'[home(i)][import[i].file] = Merged(i)
          /\ \A h \in Home, f \in File : <<h, f>> # <<home(i), import[i].file>> =>
               memory'[h][f] = memory[h][f]
      BY <1>2, <2>1, Fields DEF Replace, TypeOK, Files
    <2>4. /\ clashed \subseteq clashed'
          /\ here(i) = import[i].local \/ <<home(i), import[i].file>> \in clashed'
      BY <1>2 DEF Replace
    <2>5. QED
      BY <2>2, <2>3, <2>4 DEF here
  <1>3. ASSUME NEW h \in Home, NEW f \in File, NEW l \in Line, Remember(h, f, l)
        PROVE  /\ clashed \subseteq clashed'
               /\ \A g \in Home, e \in File : Texts(memory[g][e]) \subseteq Texts(memory'[g][e])
    <2>1. /\ UNCHANGED clashed /\ memory'[h][f] \in Content
          /\ memory'[h][f] = [(IF memory[h][f] = Absent THEN Blank ELSE memory[h][f])
                                 EXCEPT ![l] = 1]
          /\ \A g \in Home, e \in File : <<g, e>> # <<h, f>> => memory'[g][e] = memory[g][e]
      BY <1>3, RememberTypes
    <2>2. \A k \in Line : memory[h][f] # Absent /\ memory[h][f][k] > 0 => memory'[h][f][k] > 0
      BY <2>1, Fields DEF Files, Content
    <2>3. Texts(memory[h][f]) \subseteq Texts(memory'[h][f])
      BY <2>1, <2>2, AbsentAssumption DEF Texts
    <2>4. QED
      BY <2>1, <2>3
  <1>4. CASE \E h \in Home : Export(h) \/ \E f \in File : ExportPassesOver(h, f)
    BY <1>4, <1>1, ExportTypes DEF Export
  <1>5. ASSUME NEW i \in Importer, ~Replace(i),
               ImportStep(i) \/ ReadFails(i) \/ ImportFails(i) \/ \E g \in Home : Begin(i, g)
        PROVE  UNCHANGED <<memory, clashed>>
    BY <1>5 DEF ImportStep, Read, Keep, Answer, ReadFails, ImportFails, Begin
  <1>6. QED
    BY <1>1, <1>2, <1>3, <1>4, <1>5 DEF Next

\* An import other than the one that steps.
LEMMA OthersThrough ==
    ASSUME TypeOK, \A i \in Importer : Carried(i), Next,
           NEW j \in Importer, Through(j), import'[j] = import[j]
    PROVE  Through(j)'
  <1>1. home(j) \in Home /\ import[j].file \in File
    BY Fields DEF ImportState
  <1>2. QED
    BY <1>1, TextsStay DEF Through, Holds, pc, home

\* The import that steps: a file it is through with is in the home it works in.
LEMMA StepThrough ==
    ASSUME SyncInv, Next, NEW i \in Importer,
           ImportStep(i) \/ ReadFails(i) \/ ImportFails(i) \/ \E g \in Home : Begin(i, g)
    PROVE  Through(i)'
  <1> USE DEF pc
  <1>0. /\ TypeOK /\ Through(i) /\ Carried(i)
        /\ import \in [Importer -> ImportState] /\ import[i] \in ImportState
        /\ home(i) \in Home /\ Idle(i).pc = "idle"
    BY Fields, IdleType DEF SyncInv, KeptInv
  <1>1. /\ clashed \subseteq clashed'
        /\ \A f \in File : \/ Texts(memory[home(i)][f]) \subseteq Texts(memory'[home(i)][f])
                           \/ <<home(i), f>> \in clashed'
    BY <1>0, TextsStay DEF SyncInv
  <1>2. ASSUME NEW f \in File, NEW T, Holds(home(i), f, T)
        PROVE  T \subseteq Texts(memory'[home(i)][f]) \/ <<home(i), f>> \in clashed'
    BY <1>1, <1>2 DEF Holds
  <1>3. CASE import'[i].pc = "idle"
    BY <1>3 DEF Through
  <1>4. CASE Read(i)
    <2>1. PICK f \in import[i].todo :
            import' = [import EXCEPT ![i].pc = "write", ![i].todo = @ \ {f}, ![i].file = f,
                                     ![i].local = memory[home(i)][f]]
      BY <1>4 DEF Read
    <2>2. /\ import'[i].pc = "write" /\ import[i].pc = "next"
          /\ import'[i].todo = import[i].todo \ {f} /\ import'[i].file = f /\ f \in File
          /\ import'[i].bundle = import[i].bundle /\ import'[i].skipped = import[i].skipped
          /\ import'[i].local = memory[home(i)][f]
      BY <1>0, <1>4, <2>1 DEF Read, ImportState
    <2>3. memory' = memory /\ clashed' = clashed
      BY <1>4 DEF Read
    <2>4. QED
      BY <1>0, <2>2, <2>3 DEF Through, Holds, home
  <1>5. CASE Keep(i) \/ Replace(i)
    <2>1. /\ import'[i].pc = "next" /\ import[i].pc = "write"
          /\ import'[i].todo = import[i].todo /\ import'[i].skipped = import[i].skipped
          /\ import'[i].bundle = import[i].bundle
      BY <1>0, <1>5 DEF Keep, Replace, ImportState
    <2>2. /\ import[i].local \in Content \cup {Absent} /\ Incoming(i) \in Content
          /\ import[i].file \in File
      BY <1>0, <2>1, WritesContent
    <2>3. \/ Texts(Incoming(i)) \subseteq Texts(memory'[home(i)][import[i].file])
          \/ <<home(i), import[i].file>> \in clashed'
      <3>1. CASE Keep(i)
        <4>1. Texts(Incoming(i)) \subseteq Texts(import[i].local)
          BY <2>2, <3>1, MergeOfNothing DEF Keep, Merged
        <4>2. Holds(home(i), import[i].file, Texts(import[i].local))
          BY <1>0, <2>1 DEF Through
        <4>3. memory' = memory /\ clashed' = clashed
          BY <3>1 DEF Keep
        <4>4. QED
          BY <4>1, <4>2, <4>3 DEF Holds
      <3>2. CASE Replace(i)
        <4>1. memory'[home(i)][import[i].file] = Merged(i)
          BY <1>0, <2>2, <3>2, Fields DEF Replace, TypeOK, Files
        <4>2. QED
          BY <2>2, <4>1, MergeKeeps DEF Merged
      <3>3. QED
        BY <1>5, <3>1, <3>2
    <2>4. \A f \in File : f \notin import[i].todo \cup import[i].skipped /\ f # import[i].file =>
            \/ Texts(import[i].bundle[f]) \subseteq Texts(memory'[home(i)][f])
            \/ <<home(i), f>> \in clashed'
      BY <1>0, <1>2, <2>1 DEF Through
    <2>5. QED
      BY <2>1, <2>3, <2>4 DEF Through, Holds, home, Incoming
  <1>6. CASE Answer(i) \/ ImportFails(i)
    <2>1. import'[i].pc = "idle"
      BY <1>0, <1>6 DEF Answer, ImportFails
    <2>2. QED
      BY <1>3, <2>1
  <1>7. CASE ReadFails(i)
    <2>1. PICK f \in import[i].todo :
            import' = [import EXCEPT ![i].todo = @ \ {f}, ![i].skipped = @ \cup {f}]
      BY <1>7 DEF ReadFails
    <2>2. /\ import'[i].pc = "next" /\ import[i].pc = "next"
          /\ import'[i].todo = import[i].todo \ {f}
          /\ import'[i].skipped = import[i].skipped \cup {f}
          /\ import'[i].bundle = import[i].bundle
      BY <1>0, <1>7, <2>1 DEF ReadFails, ImportState
    <2>3. memory' = memory /\ clashed' = clashed
      BY <1>7 DEF ReadFails
    <2>4. QED
      BY <1>0, <2>2, <2>3 DEF Through, Holds, home
  <1>8. ASSUME NEW g \in Home, Begin(i, g) PROVE Through(i)'
    <2>1. mail[g] \in Files
      BY <1>0, Fields
    <2>2. /\ import'[i].pc = "next" /\ import'[i].bundle = mail[g]
          /\ import'[i].todo = {f \in File : mail[g][f] # Absent}
      BY <1>0, <1>8, <2>1 DEF Begin, ImportState
    <2>3. \A f \in File : f \notin import'[i].todo => Texts(import'[i].bundle[f]) = {}
      BY <2>2 DEF Texts
    <2>4. QED
      BY <2>2, <2>3 DEF Through, Holds
  <1>9. QED
    BY <1>4, <1>5, <1>6, <1>7, <1>8 DEF ImportStep

\* What must be kept is: an answer promises only what the import is through with.
LEMMA StepKept ==
    ASSUME SyncInv, Next
    PROVE  KeptUnlessClash'
  <1>0. /\ TypeOK /\ KeptUnlessClash /\ \A i \in Importer : Carried(i) /\ Through(i)
    BY DEF SyncInv, KeptInv
  <1>1. /\ clashed \subseteq clashed'
        /\ \A h \in Home, f \in File :
             Texts(memory[h][f]) \subseteq Texts(memory'[h][f]) \/ <<h, f>> \in clashed'
    BY <1>0, TextsStay
  <1>2. CASE kept' = kept
    BY <1>0, <1>1, <1>2 DEF KeptUnlessClash
  <1>3. ASSUME NEW i \in Importer, Answer(i) PROVE KeptUnlessClash'
    <2>1. /\ memory' = memory /\ clashed' = clashed /\ pc(i) = "next" /\ import[i].todo = {}
          /\ kept' = [kept EXCEPT ![home(i)] =
                        [f \in File |-> @[f] \cup (IF f \in import[i].skipped THEN {}
                                                   ELSE Texts(import[i].bundle[f]))]]
      BY <1>3 DEF Answer
    <2>2. \A f \in File : f \notin import[i].skipped =>
            \/ Texts(import[i].bundle[f]) \subseteq Texts(memory[home(i)][f])
            \/ <<home(i), f>> \in clashed
      BY <1>0, <2>1 DEF Through, Holds
    <2>3. \A h \in Home, f \in File :
            \/ kept'[h][f] = kept[h][f]
            \/ h = home(i) /\ f \notin import[i].skipped
               /\ kept'[h][f] = kept[h][f] \cup Texts(import[i].bundle[f])
      BY <1>0, <2>1 DEF TypeOK
    <2>4. QED
      BY <1>0, <2>1, <2>2, <2>3 DEF KeptUnlessClash
  <1>4. ASSUME NEW h \in Home, NEW f \in File, NEW l \in Line, Remember(h, f, l)
        PROVE  KeptUnlessClash'
    <2>1. /\ memory'[h][f] \in Content
          /\ memory'[h][f] = [(IF memory[h][f] = Absent THEN Blank ELSE memory[h][f])
                                 EXCEPT ![l] = 1]
          /\ \A g \in Home, e \in File : <<g, e>> # <<h, f>> => kept'[g][e] = kept[g][e]
          /\ kept'[h][f] = kept[h][f] \cup {Strip[l]}
      BY <1>0, <1>4, RememberTypes
    <2>2. memory'[h][f][l] > 0 /\ memory'[h][f] # Absent
      <3> DEFINE old == IF memory[h][f] = Absent THEN Blank ELSE memory[h][f]
      <3>1. old \in Content
        BY <1>0, Fields DEF Files
      <3>2. memory'[h][f] = [old EXCEPT ![l] = 1]
        BY <2>1
      <3> HIDE DEF old
      <3>3. memory'[h][f][l] = 1
        BY <3>1, <3>2 DEF Content
      <3>4. memory'[h][f] # Absent
        BY <2>1, AbsentAssumption
      <3>5. QED
        BY <3>3, <3>4
    <2>3. Strip[l] \in Texts(memory'[h][f])
      BY <2>2 DEF Texts
    <2>4. ASSUME NEW g \in Home, NEW e \in File
          PROVE  kept'[g][e] \subseteq Texts(memory'[g][e]) \/ <<g, e>> \in clashed'
      <3>1. kept[g][e] \subseteq Texts(memory'[g][e]) \/ <<g, e>> \in clashed'
        BY <1>0, <1>1 DEF KeptUnlessClash
      <3>2. CASE <<g, e>> # <<h, f>>
        BY <2>1, <3>1, <3>2
      <3>3. CASE g = h /\ e = f
        BY <2>1, <2>3, <3>1, <3>3
      <3>4. QED
        BY <3>2, <3>3
    <2>5. QED
      BY <2>4 DEF KeptUnlessClash
  <1>5. CASE \E h \in Home : Export(h) \/ \E f \in File : ExportPassesOver(h, f)
    BY <1>0, <1>2, <1>5, ExportTypes DEF Export
  <1>6. ASSUME NEW i \in Importer, ~Answer(i),
               ImportStep(i) \/ ReadFails(i) \/ ImportFails(i) \/ \E g \in Home : Begin(i, g)
        PROVE  kept' = kept
    BY <1>6 DEF ImportStep, Read, Keep, Replace, ReadFails, ImportFails, Begin
  <1>7. QED
    BY <1>2, <1>3, <1>4, <1>5, <1>6 DEF Next

-----------------------------------------------------------------------------
(* The invariant *)

LEMMA InitHolds == Init => SyncInv
  <1> SUFFICES ASSUME Init PROVE SyncInv
    OBVIOUS
  <1>1. /\ \A c \in Written : c \in Content /\ Single(c)
        /\ Single(Absent) /\ Texts(Absent) = {}
    BY WrittenAssumption DEF Single, Texts
  <1>2. \A h \in Home, f \in File : memory[h][f] \in Written \cup {Absent}
    BY DEF Init
  <1>3. PICK f \in File :
          import = [i \in Importer |-> [pc |-> "idle", bundle |-> NoBundle, todo |-> {},
                                        skipped |-> {}, file |-> f, local |-> Absent]]
    BY DEF Init
  <1>4. /\ NoBundle \in Files /\ \A e \in File : NoBundle[e] = Absent
    BY DEF NoBundle, Files
  <1>5. /\ import \in [Importer -> ImportState]
        /\ \A i \in Importer : /\ import[i].pc = "idle" /\ import[i].bundle = NoBundle
                               /\ import[i].todo = {} /\ import[i].local = Absent
    BY <1>3, <1>4 DEF ImportState
  <1>6. TypeOK
    <2>1. memory \in [Home -> Files]
      BY <1>1 DEF Init, Files
    <2>2. \A h \in Home, e \in File : Texts(memory[h][e]) \subseteq Text
      BY LineAssumption DEF Texts
    <2>3. kept \in [Home -> [File -> SUBSET Text]]
      BY <2>2 DEF Init
    <2>4. /\ reading \in [Home -> [todo : SUBSET File, bundle : Files]]
          /\ mail \in [Home -> Files]
      BY <1>4 DEF Init
    <2>5. /\ edits \in 0 .. MaxEdits /\ faults \in 0 .. MaxFaults
          /\ clashed \in SUBSET (Home \X File)
      BY BoundAssumption DEF Init
    <2>6. QED
      BY <1>5, <2>1, <2>3, <2>4, <2>5 DEF TypeOK
  <1>7. SingleInv
    BY <1>1, <1>2, <1>4, <1>5 DEF SingleInv, NoTextTwice, Init
  <1>8. KeptInv /\ \A i \in Importer : Carried(i)
    BY <1>5 DEF KeptInv, KeptUnlessClash, Through, Carried, pc, Init
  <1>9. QED
    BY <1>6, <1>7, <1>8 DEF SyncInv

\* The parts are inductive together: what an import writes is a merge of contents that
\* have their type and no doubled text, and what it answers for it has been through.
THEOREM SyncInvariance == Spec => []SyncInv
  <1>1. SyncInv /\ [Next]_vars => SyncInv'
    <2> SUFFICES ASSUME SyncInv, [Next]_vars PROVE SyncInv'
      OBVIOUS
    <2>1. CASE Next
      <3>0. TypeOK /\ SingleInv /\ \A i \in Importer : Carried(i) /\ Through(i)
        BY DEF SyncInv, KeptInv
      <3>1. KeptUnlessClash'
        BY <2>1, StepKept
      <3>2. ASSUME NEW i \in Importer,
                   ImportStep(i) \/ ReadFails(i) \/ ImportFails(i) \/ \E g \in Home : Begin(i, g)
            PROVE  SyncInv'
        <4>1. /\ TypeOK' /\ Carried(i)' /\ \A j \in Importer : j # i => import'[j] = import[j]
          BY <3>0, <3>2, ImportTypes
        <4>2. \A j \in Importer : Carried(j)'
          BY <3>0, <4>1 DEF Carried, pc, Incoming
        <4>3. SingleInv'
          BY <3>0, <3>2, ImportSingle
        <4>4. Through(i)'
          BY <2>1, <3>2, StepThrough
        <4>5. ASSUME NEW j \in Importer, j # i PROVE Through(j)'
          BY <2>1, <3>0, <4>1, <4>5, OthersThrough
        <4>6. QED
          BY <3>1, <4>1, <4>2, <4>3, <4>4, <4>5 DEF SyncInv, KeptInv
      <3>3. ASSUME UNCHANGED import, TypeOK', SingleInv' PROVE SyncInv'
        <4>1. \A j \in Importer : Carried(j)'
          BY <3>0, <3>3 DEF Carried, pc, Incoming
        <4>2. \A j \in Importer : Through(j)'
          BY <2>1, <3>0, <3>3, OthersThrough
        <4>3. QED
          BY <3>1, <3>3, <4>1, <4>2 DEF SyncInv, KeptInv
      <3>4. CASE \E h \in Home : Export(h) \/ \E f \in File : ExportPassesOver(h, f)
        BY <3>0, <3>3, <3>4, ExportTypes, ExportSingle DEF Export
      <3>5. CASE \E h \in Home, f \in File, l \in Line : Remember(h, f, l)
        BY <3>0, <3>3, <3>5, RememberTypes, RememberSingle
      <3>6. QED
        BY <2>1, <3>2, <3>4, <3>5 DEF Next
    <2>2. CASE UNCHANGED vars
      <3>1. TypeOK' /\ SingleInv'
        BY <2>2 DEF vars, SyncInv, TypeOK, SingleInv, NoTextTwice, Single
      <3>2. KeptUnlessClash'
        BY <2>2 DEF vars, SyncInv, KeptInv, KeptUnlessClash
      <3>3. \A i \in Importer : Carried(i)' /\ Through(i)'
        BY <2>2 DEF vars, SyncInv, KeptInv, Carried, Through, Holds, Incoming, pc, home
      <3>4. QED
        BY <3>1, <3>2, <3>3 DEF SyncInv, KeptInv
    <2>3. QED
      BY <2>1, <2>2
  <1>2. QED
    BY InitHolds, <1>1, PTL DEF Spec

\* What hermes has remembered and what an answered import has brought stays in the file,
\* unless an import replaces what somebody has written since it read it.
THEOREM MemoryIsKept == Spec => []KeptUnlessClash
  <1>1. SyncInv => KeptUnlessClash
    BY DEF SyncInv, KeptInv
  <1>2. QED
    BY SyncInvariance, <1>1, PTL

\* Rounds of export and merge, in whatever order and with whatever faults, double no text.
THEOREM NoTextDoubles == Spec => []NoTextTwice
  <1>1. SyncInv => NoTextTwice
    BY DEF SyncInv, SingleInv
  <1>2. QED
    BY SyncInvariance, <1>1, PTL
=============================================================================
