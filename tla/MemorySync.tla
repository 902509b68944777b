----------------------------- MODULE MemorySync -----------------------------
(***************************************************************************)
(* The memory files (memories/*.md) of the computers and phones that hand  *)
(* conversations to each other: _read_memory of desktop_export.py puts     *)
(* them into a bundle, import_memory of handoff_core.py, run by import_all *)
(* on the side that receives it, merges them into its own.  Nothing is     *)
(* locked: an import reads a file, merges, and replaces the file, while    *)
(* other imports and hermes write to it.                                   *)
(*                                                                         *)
(* A file is how often each line stands in it; lines that are blank, and   *)
(* the order of lines (what is new goes to the end), are left out.  Lines  *)
(* are compared stripped: several may have the same text.  A bundle holds  *)
(* only file names that import_memory accepts, and no file is a link.      *)
(* Hermes only adds here: a line that it deletes on one side comes back    *)
(* with the next bundle of the other, as merge_memory_text says.           *)
(*                                                                         *)
(* A definition marked "Wrong:" is a plausible bug in the one after it;    *)
(* no action uses it.                                                      *)
(***************************************************************************)
EXTENDS Integers, FiniteSets

CONSTANTS
    Home,       \* the hermes homes that exchange bundles
    File,       \* the names of the memory files
    Line,       \* the lines that occur in them
    Text,       \* the lines, stripped
    Strip,      \* ln.strip()
    Marker,     \* the line that heads a merged block
    Absent,     \* the content of a file that is not there
    Written,    \* what hermes may have written to a file before the first sync
    Importer,   \* the threads that may run an import
    Where,      \* the home that each of them works in
    MaxEdits,   \* bound: how many lines hermes writes
    MaxFaults   \* bound: how many reads and writes of an import fail

ASSUME LineAssumption == Strip \in [Line -> Text] /\ Marker \in Line
ASSUME ImporterAssumption == Where \in [Importer -> Home]
ASSUME BoundAssumption == MaxEdits \in Nat /\ MaxFaults \in Nat

Content == [Line -> Nat]
Files == [File -> Content \cup {Absent}]

ASSUME AbsentAssumption == Absent \notin Content

\* No text stands twice in what hermes writes.
ASSUME WrittenAssumption ==
    \A c \in Written :
        /\ c \in Content
        /\ \A k, l \in Line : c[k] > 0 /\ c[l] > 0 /\ Strip[k] = Strip[l] => k = l /\ c[k] = 1

VARIABLES
    memory,     \* the files of every home
    reading,    \* the export under way in a home: the files still to read, the bundle so far
    mail,       \* the last bundle of every home, which may arrive any number of times
    import,     \* the imports, see ImportState
    edits, faults,
    (* observations *)
    kept,       \* the texts that hermes wrote to a file, or that an answered import brought it
    clashed     \* the files replaced by an import that had read an older content

vars == <<memory, reading, mail, import, edits, faults, kept, clashed>>

NoBundle == [f \in File |-> Absent]

ImportState ==
    [pc : {"idle", "next", "write"},
     bundle : Files, todo : SUBSET File, skipped : SUBSET File,
     file : File, local : Content \cup {Absent}]

Idle(i) == [import[i] EXCEPT !.pc = "idle", !.bundle = NoBundle, !.todo = {},
                             !.skipped = {}, !.local = Absent]

TypeOK ==
    /\ memory \in [Home -> Files]
    /\ reading \in [Home -> [todo : SUBSET File, bundle : Files]]
    /\ mail \in [Home -> Files]
    /\ import \in [Importer -> ImportState]
    /\ edits \in 0 .. MaxEdits
    /\ faults \in 0 .. MaxFaults
    /\ kept \in [Home -> [File -> SUBSET Text]]
    /\ clashed \in SUBSET (Home \X File)

\* The texts in a file.
Texts(c) == IF c = Absent THEN {} ELSE {Strip[l] : l \in {k \in Line : c[k] > 0}}

Blank == [l \in Line |-> 0]

Init ==
    /\ memory \in [Home -> [File -> Written \cup {Absent}]]
    /\ reading = [h \in Home |-> [todo |-> {}, bundle |-> NoBundle]]
    /\ mail = [h \in Home |-> NoBundle]
    /\ \E f \in File :
         import = [i \in Importer |-> [pc |-> "idle", bundle |-> NoBundle, todo |-> {},
                                       skipped |-> {}, file |-> f, local |-> Absent]]
    /\ edits = 0 /\ faults = 0
    /\ kept = [h \in Home |-> [f \in File |-> Texts(memory[h][f])]]
    /\ clashed = {}

-----------------------------------------------------------------------------
(* _read_memory *)

ExportBegin(h) ==
    /\ reading[h].todo = {}
    /\ reading' = [reading EXCEPT ![h] = [todo |-> File, bundle |-> NoBundle]]
    /\ UNCHANGED <<memory, mail, import, edits, faults, kept, clashed>>

\* A file is read, or left out; with the last one the bundle is complete.
PutFile(h, f, content) ==
    /\ f \in reading[h].todo
    /\ reading' = [reading EXCEPT ![h].todo = @ \ {f}, ![h].bundle[f] = content]
    /\ mail' = IF reading[h].todo = {f}
               THEN [mail EXCEPT ![h] = reading'[h].bundle] ELSE mail
    /\ UNCHANGED <<memory, import, edits, kept, clashed>>

\* The files are read one after the other; a replaced file is read old or new, and one
\* that is not there is left out.
ExportFile(h, f) == PutFile(h, f, memory[h][f]) /\ UNCHANGED faults

\* OSError, or text that is not UTF-8: the file is left out of the bundle in silence.
ExportPassesOver(h, f) ==
    /\ faults < MaxFaults
    /\ faults' = faults + 1
    /\ PutFile(h, f, Absent)

-----------------------------------------------------------------------------
(* merge_memory_text *)

\* Wrong: lines are compared as they are, with their indentation.
NewLinesUnstripped(local, incoming) ==
    [l \in Line |-> IF local # Absent /\ local[l] > 0 THEN 0 ELSE incoming[l]]

\* Wrong: nothing is new in a file that is there.
NewLinesOfNewFile(local, incoming) == IF local = Absent THEN incoming ELSE Blank

\* The lines of incoming whose text the local file does not have.
NewLines(local, incoming) ==
    [l \in Line |-> IF Strip[l] \in Texts(local) THEN 0 ELSE incoming[l]]

\* Wrong: what comes in replaces what is there.
MergeOver(local, incoming) == incoming

\* The local lines, the marker, and what is new; or the local lines as they are.
Merge(local, incoming) ==
    LET new  == NewLines(local, incoming)
        base == IF local = Absent THEN Blank ELSE local
    IN  IF new = Blank THEN base
        ELSE [l \in Line |-> base[l] + new[l] + IF l = Marker THEN 1 ELSE 0]

-----------------------------------------------------------------------------
(* import_memory *)

pc(i) == import[i].pc
home(i) == Where[i]
here(i) == memory[home(i)][import[i].file]
Incoming(i) == import[i].bundle[import[i].file]
Merged(i) == Merge(import[i].local, Incoming(i))

\* A bundle of another home arrives: the latest, for the first time or again.
Begin(i, g) ==
    /\ pc(i) = "idle"
    /\ g # home(i)
    /\ mail[g] # NoBundle
    /\ import' = [import EXCEPT ![i].pc = "next", ![i].bundle = mail[g],
                                ![i].todo = {f \in File : mail[g][f] # Absent}]
    /\ UNCHANGED <<memory, reading, mail, edits, faults, kept, clashed>>

Read(i) ==
    /\ pc(i) = "next"
    /\ \E f \in import[i].todo :
         import' = [import EXCEPT ![i].pc = "write", ![i].todo = @ \ {f}, ![i].file = f,
                                  ![i].local = memory[home(i)][f]]
    /\ UNCHANGED <<memory, reading, mail, edits, faults, kept, clashed>>

\* A file that is there and cannot be read is passed over in silence.
ReadFails(i) ==
    /\ pc(i) = "next"
    /\ faults < MaxFaults
    /\ faults' = faults + 1
    /\ \E f \in import[i].todo :
         /\ memory[home(i)][f] # Absent
         /\ import' = [import EXCEPT ![i].todo = @ \ {f}, ![i].skipped = @ \cup {f}]
    /\ UNCHANGED <<memory, reading, mail, edits, kept, clashed>>

\* Nothing is new: the file stays as it is.
Keep(i) ==
    /\ pc(i) = "write"
    /\ import[i].local = Merged(i)
    /\ import' = [import EXCEPT ![i].pc = "next", ![i].local = Absent]
    /\ UNCHANGED <<memory, reading, mail, edits, faults, kept, clashed>>

\* _atomic_write_text
Replace(i) ==
    /\ pc(i) = "write"
    /\ import[i].local # Merged(i)
    /\ memory' = [memory EXCEPT ![home(i)][import[i].file] = Merged(i)]
    /\ clashed' = IF here(i) = import[i].local THEN clashed
                  ELSE clashed \cup {<<home(i), import[i].file>>}
    /\ import' = [import EXCEPT ![i].pc = "next", ![i].local = Absent]
    /\ UNCHANGED <<reading, mail, edits, faults, kept>>

\* An OSError of the write, or a file that is not UTF-8, ends the import with an error;
\* files merged before stay merged.
ImportFails(i) ==
    /\ pc(i) \in {"next", "write"}
    /\ faults < MaxFaults
    /\ faults' = faults + 1
    /\ import' = [import EXCEPT ![i] = Idle(i)]
    /\ UNCHANGED <<memory, reading, mail, edits, kept, clashed>>

\* The import is answered with ok: whoever sent the bundle takes it to be there.
Answer(i) ==
    /\ pc(i) = "next"
    /\ import[i].todo = {}
    /\ kept' = [kept EXCEPT ![home(i)] =
                   [f \in File |-> @[f] \cup (IF f \in import[i].skipped THEN {}
                                              ELSE Texts(import[i].bundle[f]))]]
    /\ import' = [import EXCEPT ![i] = Idle(i)]
    /\ UNCHANGED <<memory, reading, mail, edits, faults, clashed>>

-----------------------------------------------------------------------------
\* Hermes adds a line to a file, or makes the file.
Remember(h, f, l) ==
    /\ edits < MaxEdits
    /\ edits' = edits + 1
    /\ l # Marker /\ Strip[l] \notin Texts(memory[h][f])
    /\ memory' = [memory EXCEPT ![h][f] = [IF @ = Absent THEN Blank ELSE @ EXCEPT ![l] = 1]]
    /\ kept' = [kept EXCEPT ![h][f] = @ \cup {Strip[l]}]
    /\ UNCHANGED <<reading, mail, import, faults, clashed>>

-----------------------------------------------------------------------------
Export(h) == ExportBegin(h) \/ \E f \in File : ExportFile(h, f)

ImportStep(i) == Read(i) \/ Keep(i) \/ Replace(i) \/ Answer(i)

Next ==
    \/ \E h \in Home : Export(h) \/ \E f \in File : ExportPassesOver(h, f)
    \/ \E i \in Importer :
         ImportStep(i) \/ ReadFails(i) \/ ImportFails(i) \/ \E g \in Home : Begin(i, g)
    \/ \E h \in Home, f \in File, l \in Line : Remember(h, f, l)

Spec == Init /\ [][Next]_vars

(***************************************************************************)
(* An export and an import are loops that nothing blocks.  That syncs go   *)
(* on in both directions is assumed of the phone app and its user.         *)
(***************************************************************************)
FairSpec ==
    /\ Spec
    /\ \A h \in Home : WF_vars(Export(h))
    /\ \A i \in Importer : WF_vars(ImportStep(i)) /\ \A g \in Home : WF_vars(Begin(i, g))

-----------------------------------------------------------------------------
(* Properties *)

\* What hermes remembered, and what an import that was answered with ok has brought,
\* stays in the file: an import neither deletes nor overwrites, except where it replaces
\* a file that somebody else has written since it read it.
KeptUnlessClash ==
    \A h \in Home, f \in File :
        kept[h][f] \subseteq Texts(memory[h][f]) \/ <<h, f>> \in clashed

\* No text stands twice in a file, that of the marker excepted.
Single(c) ==
    c # Absent =>
        \A k, l \in Line :
            /\ Strip[k] # Strip[Marker]
            /\ Strip[k] = Strip[l] /\ c[k] > 0 /\ c[l] > 0
            => k = l /\ c[k] = 1

\* However often bundles are sent, repeated, delayed and sent back, and whichever
\* imports overlap or fail half-way, no text comes to stand twice in a file.
NoTextTwice == \A h \in Home, f \in File : Single(memory[h][f])

\* While syncs go on, all homes come to remember the same, also after faults and
\* clashes: merging a bundle and sending it back does not go round for ever.
Converge ==
    <>[](\A g, h \in Home, f \in File : Texts(memory[g][f]) = Texts(memory[h][f]))

-----------------------------------------------------------------------------
(* The inductive invariants behind the safety properties *)

\* An import works on the files that its bundle has.
Carried(i) ==
    /\ \A f \in import[i].todo : import[i].bundle[f] # Absent
    /\ pc(i) = "write" => Incoming(i) # Absent

\* Whatever is under way is as free of doubled texts as the files.
SingleInv ==
    /\ NoTextTwice
    /\ \A h \in Home, f \in File : Single(mail[h][f]) /\ Single(reading[h].bundle[f])
    /\ \A i \in Importer, f \in File : Single(import[i].bundle[f]) /\ Single(import[i].local)

\* The texts T are in the file, unless a clash has hit it.
Holds(h, f, T) == T \subseteq Texts(memory[h][f]) \/ <<h, f>> \in clashed

\* What an import is through with is in the file, and so is still what it has read.
Through(i) ==
    /\ \A f \in File :
         /\ pc(i) # "idle" /\ f \notin import[i].todo \cup import[i].skipped
         /\ pc(i) = "write" => f # import[i].file
         => Holds(home(i), f, Texts(import[i].bundle[f]))
    /\ pc(i) = "write" => Holds(home(i), import[i].file, Texts(import[i].local))

KeptInv == KeptUnlessClash /\ \A i \in Importer : Through(i)

SyncInv == TypeOK /\ (\A i \in Importer : Carried(i)) /\ SingleInv /\ KeptInv
=============================================================================
