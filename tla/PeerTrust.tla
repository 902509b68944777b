----------------------------- MODULE PeerTrust ------------------------------
(***************************************************************************)
(* Who may use the companion: PeerStore (handoff_server.py), the           *)
(* connection handlers of MeshBroker that read and extend it, the pairing  *)
(* window, and the unpair button of the console (companion_web.py).        *)
(*                                                                         *)
(* PeerStore has no lock.  Every connection and every console request has  *)
(* a thread of its own; each first changes the dictionary in memory, then  *)
(* serialises the dictionary to a temporary file, entry by entry, and then *)
(* renames that file over peers.json.  Any two of these may interleave.    *)
(*                                                                         *)
(* A phone stands for its device id together with its public key: the id   *)
(* is a prefix of the key (pairing.py), so an entry of the dictionary is a *)
(* phone.  The cryptography of the handshake is left out: a request that   *)
(* reaches the handler was encrypted by the phone it names.                *)
(*                                                                         *)
(* As in MeshQueue, a definition marked "Wrong:" is a plausible bug in the *)
(* one after it, and no action uses it.                                    *)
(***************************************************************************)
EXTENDS Integers, FiniteSets

CONSTANTS
    Phone,      \* the phones
    Conn,       \* the connection handler threads of the broker
    Tab,        \* the request threads of the console
    NoPhone,    \* the phone of an idle thread
    MaxSavers,  \* environment: how many threads may be between a change and its rename
    MaxFaults,  \* bound: how many saves and loads fail (disk space, permission, a broken file)
    MaxStarts   \* bound: how often the process is started

ASSUME PhoneAssumption == NoPhone \notin Phone /\ IsFiniteSet(Phone)
ASSUME ThreadAssumption == Conn \cap Tab = {}
ASSUME LimitAssumption == MaxSavers \in Nat /\ MaxFaults \in Nat /\ MaxStarts \in Nat

Thread == Conn \cup Tab

VARIABLES
    file,      \* peers.json, which survives the process
    up,        \* the process is running
    peers,     \* PeerStore._peers
    window,    \* _pairing_open()
    thread,    \* the connection handlers and console requests, see ThreadState
    faults, starts,
    (* observations *)
    admitted,  \* the phones that ever came in through an open window
    latest,    \* which thread changed a phone's entry last, until it has answered
    revoked,   \* those of them whose removal the console has confirmed
    welcomed,  \* the phones whose pairing was confirmed and that were not removed since
    unsaved,   \* those of this life that were confirmed as known while the file lacked them
    forgotten, \* the welcomed that a start could not find, see Down and StartUnread
    behind,    \* the last save has failed, or the file could not be read at the start
    served,    \* the phones that had an operation carried out since they were last revoked
    overlapped \* two saves have been under way at once

losses == <<unsaved, forgotten, behind>>
ghosts == <<admitted, latest, revoked, welcomed, served, overlapped, losses>>
vars   == <<file, up, peers, window, thread, faults, starts, ghosts>>

ThreadState ==
    [pc     : {"idle", "request", "dump", "dumping", "rename", "answer"},
     who    : Phone \cup {NoPhone}, \* the phone the thread works for
     paired : BOOLEAN,              \* local variable of _handle: is_paired at the hello
     copy   : SUBSET Phone,         \* what a save has serialised
     size   : Nat]                  \* entries in the dictionary when serialising began

Idle == [pc |-> "idle", who |-> NoPhone, paired |-> FALSE, copy |-> {}, size |-> 0]

pc(x) == thread[x].pc
who(x) == thread[x].who
copy(x) == thread[x].copy

TypeOK ==
    /\ file \in SUBSET Phone
    /\ up \in BOOLEAN
    /\ peers \in SUBSET Phone
    /\ window \in BOOLEAN
    /\ thread \in [Thread -> ThreadState]
    /\ faults \in 0 .. MaxFaults
    /\ starts \in 0 .. MaxStarts
    /\ admitted \in SUBSET Phone
    /\ latest \in SUBSET (Thread \X Phone)
    /\ revoked \in SUBSET Phone
    /\ welcomed \in SUBSET Phone
    /\ unsaved \in SUBSET Phone
    /\ forgotten \in SUBSET Phone
    /\ behind \in BOOLEAN
    /\ served \in SUBSET Phone
    /\ overlapped \in BOOLEAN

Init ==
    /\ file = {}
    /\ up = FALSE
    /\ peers = {}
    /\ window = FALSE
    /\ thread = [x \in Thread |-> Idle]
    /\ faults = 0 /\ starts = 0
    /\ admitted = {} /\ latest = {} /\ revoked = {} /\ welcomed = {} /\ unsaved = {}
    /\ forgotten = {} /\ behind = FALSE
    /\ served = {} /\ overlapped = FALSE

-----------------------------------------------------------------------------
(* Threads *)

Go(x, place) == thread' = [thread EXCEPT ![x].pc = place]

\* The end of a thread's work; a new connection or request reuses its name.
Done(x) == thread' = [thread EXCEPT ![x] = Idle]

Saving == {x \in Thread : pc(x) \in {"dump", "dumping", "rename"}}

MaySave == Cardinality(Saving) < MaxSavers

\* A thread's change of a phone's entry.
Changes(x, p) == latest' = {e \in latest : e[2] # p} \cup {<<x, p>>}

\* The end of that thread.
Answered(x) ==
    /\ Done(x)
    /\ latest' = latest \ {<<x, who(x)>>}

-----------------------------------------------------------------------------
(* MeshBroker._handle *)

\* The hello: an unpaired phone gets past it only while the window is open.
\* The answer to is_paired is kept for the rest of the connection.
Hello(c, p) ==
    /\ up /\ pc(c) = "idle"
    /\ p \in peers \/ window
    /\ thread' = [thread EXCEPT ![c] =
                      [Idle EXCEPT !.pc = "request", !.who = p, !.paired = p \in peers]]
    /\ UNCHANGED <<file, up, peers, window, faults, starts, ghosts>>

\* Wrong: whoever got past the hello is served.
ServeAnyone(c) ==
    /\ pc(c) = "request"
    /\ served' = served \cup {who(c)}
    /\ Done(c)
    /\ UNCHANGED <<file, up, peers, window, faults, starts, admitted, latest, revoked, welcomed,
                   losses, overlapped>>

\* Any operation but pair: push, poll, ack, pull, push_session.
Serve(c) ==
    /\ pc(c) = "request"
    /\ thread[c].paired
    /\ served' = served \cup {who(c)}
    /\ Done(c)
    /\ UNCHANGED <<file, up, peers, window, faults, starts, admitted, latest, revoked, welcomed,
                   losses, overlapped>>

\* An operation that is refused, a connection that breaks before its request
\* arrives, and a pair operation that finds the window closed.
TurnAway(c) ==
    /\ pc(c) = "request"
    /\ Done(c)
    /\ UNCHANGED <<file, up, peers, window, faults, starts, ghosts>>

\* _op_pair of a phone that is already known.
PairKnown(c) ==
    /\ pc(c) = "request"
    /\ who(c) \in peers
    /\ welcomed' = welcomed \cup {who(c)}
    /\ unsaved' = unsaved \cup ({who(c)} \ file)
    /\ forgotten' = forgotten \ {who(c)}
    /\ Done(c)
    /\ UNCHANGED <<file, up, peers, window, faults, starts, admitted, latest, revoked, served,
                   overlapped, behind>>

\* Wrong: the window is looked at in the hello only.
PairAddLate(c) ==
    /\ pc(c) = "request"
    /\ who(c) \notin peers
    /\ MaySave
    /\ peers' = peers \cup {who(c)}
    /\ Go(c, "dump")
    /\ admitted' = admitted \cup {p \in {who(c)} : window}
    /\ Changes(c, who(c))
    /\ revoked' = revoked \ {who(c)}
    /\ served' = served \ {who(c)}
    /\ overlapped' = (overlapped \/ Saving # {})
    /\ UNCHANGED <<file, up, window, faults, starts, welcomed, losses>>

\* Wrong: the pairing is confirmed without a save.
PairAddUnsaved(c) ==
    /\ pc(c) = "request"
    /\ who(c) \notin peers
    /\ window
    /\ MaySave
    /\ peers' = peers \cup {who(c)}
    /\ Go(c, "answer")
    /\ admitted' = admitted \cup {p \in {who(c)} : window}
    /\ Changes(c, who(c))
    /\ revoked' = revoked \ {who(c)}
    /\ served' = served \ {who(c)}
    /\ overlapped' = (overlapped \/ Saving # {})
    /\ UNCHANGED <<file, up, window, faults, starts, welcomed, losses>>

\* _op_pair of a new phone: PeerStore.add changes the dictionary, then saves.
PairAdd(c) ==
    /\ pc(c) = "request"
    /\ who(c) \notin peers
    /\ window
    /\ MaySave
    /\ peers' = peers \cup {who(c)}
    /\ Go(c, "dump")
    /\ admitted' = admitted \cup {p \in {who(c)} : window}
    /\ Changes(c, who(c))
    /\ revoked' = revoked \ {who(c)}
    /\ served' = served \ {who(c)}
    /\ overlapped' = (overlapped \/ Saving # {})
    /\ UNCHANGED <<file, up, window, faults, starts, welcomed, losses>>

-----------------------------------------------------------------------------
(* The console's POST /api/unpair *)

\* Wrong: the removal stays in memory.
UnpairUnsaved(x, p) ==
    /\ up /\ pc(x) = "idle"
    /\ p \in peers
    /\ MaySave
    /\ peers' = peers \ {p}
    /\ thread' = [thread EXCEPT ![x] = [Idle EXCEPT !.pc = "answer", !.who = p]]
    /\ Changes(x, p)
    /\ welcomed' = welcomed \ {p}
    /\ UNCHANGED <<file, up, window, faults, starts, admitted, revoked, losses, served,
                   overlapped>>

\* PeerStore.remove of a known phone changes the dictionary, then saves.
Unpair(x, p) ==
    /\ up /\ pc(x) = "idle"
    /\ p \in peers
    /\ MaySave
    /\ peers' = peers \ {p}
    /\ thread' = [thread EXCEPT ![x] = [Idle EXCEPT !.pc = "dump", !.who = p]]
    /\ Changes(x, p)
    /\ welcomed' = welcomed \ {p}
    /\ overlapped' = (overlapped \/ Saving # {})
    /\ UNCHANGED <<file, up, window, faults, starts, admitted, revoked, losses, served>>

-----------------------------------------------------------------------------
(* PeerStore._save *)

\* json.dump begins to walk the dictionary.
DumpBegin(x) ==
    /\ pc(x) = "dump"
    /\ thread' = [thread EXCEPT ![x].pc = "dumping", ![x].copy = peers,
                                ![x].size = Cardinality(peers)]
    /\ UNCHANGED <<file, up, peers, window, faults, starts, ghosts>>

(***************************************************************************)
(* json.dump ends.  Either it was through before the dictionary changed,   *)
(* or the dictionary has as many entries as before, which is all that      *)
(* Python's iterator looks at: an entry that came or went meanwhile may    *)
(* then be written or not.                                                 *)
(***************************************************************************)
DumpEnd(x) ==
    /\ pc(x) = "dumping"
    /\ \E content \in SUBSET (copy(x) \cup peers) :
         /\ copy(x) \cap peers \subseteq content
         /\ content = copy(x) \/ Cardinality(peers) = thread[x].size
         /\ thread' = [thread EXCEPT ![x].pc = "rename", ![x].copy = content]
    /\ UNCHANGED <<file, up, peers, window, faults, starts, ghosts>>

\* The dictionary changed its size under the iterator: RuntimeError, the
\* thread's operation is answered with an error and nothing is renamed.
DumpRaises(x) ==
    /\ pc(x) = "dumping"
    /\ Cardinality(peers) # thread[x].size
    /\ Answered(x)
    /\ UNCHANGED <<file, up, peers, window, faults, starts, admitted, revoked, welcomed,
                   losses, served, overlapped>>

\* os.replace
Rename(x) ==
    /\ pc(x) = "rename"
    /\ file' = copy(x)
    /\ thread' = [thread EXCEPT ![x].pc = "answer", ![x].copy = {}, ![x].size = 0]
    /\ behind' = FALSE
    /\ UNCHANGED <<up, peers, window, faults, starts, admitted, latest, revoked, welcomed,
                   served, overlapped, unsaved, forgotten>>

\* An OSError anywhere in _save: the dictionary keeps the change, the file does
\* not get it, and the answer is an error.
SaveFails(x) ==
    /\ x \in Saving
    /\ faults < MaxFaults
    /\ faults' = faults + 1
    /\ behind' = TRUE
    /\ Answered(x)
    /\ UNCHANGED <<file, up, peers, window, starts, admitted, revoked, welcomed, unsaved,
                   forgotten, served, overlapped>>

\* The phone or the user is told that it worked.  A confirmation that was
\* overtaken by the opposite change no longer says anything.
Confirm(x) ==
    /\ pc(x) = "answer"
    /\ LET told == {p \in {who(x)} : <<x, p>> \in latest}
       IN  IF x \in Conn
           THEN /\ welcomed' = welcomed \cup told
                /\ unsaved' = unsaved \ told
                /\ forgotten' = forgotten \ told
                /\ UNCHANGED <<revoked, served>>
           ELSE /\ revoked' = revoked \cup told
                /\ served' = served \ told
                /\ UNCHANGED <<welcomed, unsaved, forgotten>>
    /\ Answered(x)
    /\ UNCHANGED <<file, up, peers, window, faults, starts, admitted, overlapped, behind>>

-----------------------------------------------------------------------------
(* The window and the process *)

\* open_pairing: at the start, from the console, from the tray.
OpenPairing ==
    /\ up /\ ~window
    /\ window' = TRUE
    /\ UNCHANGED <<file, up, peers, thread, faults, starts, ghosts>>

\* time.time() passes _pairing_until.
WindowEnds ==
    /\ window
    /\ window' = FALSE
    /\ UNCHANGED <<file, up, peers, thread, faults, starts, ghosts>>

\* serve(): the store is loaded, then the window opened.
Begin(loaded) ==
    /\ ~up
    /\ starts < MaxStarts
    /\ starts' = starts + 1
    /\ up' = TRUE
    /\ peers' = loaded
    /\ window' = TRUE
    /\ UNCHANGED <<thread, admitted, latest, revoked, welcomed, served, overlapped, unsaved>>

\* PeerStore._load reads the file, or finds none.
Start ==
    /\ Begin(file)
    /\ UNCHANGED <<file, faults, forgotten, behind>>

\* PeerStore._load meets an OSError or a ValueError and goes on with nobody.  The file
\* may be readable at the next start, or is broken for good; the next save replaces it.
StartUnread ==
    /\ faults < MaxFaults
    /\ faults' = faults + 1
    /\ Begin({})
    /\ file' \in {file, {}}
    /\ forgotten' = forgotten \cup welcomed
    /\ behind' = TRUE

\* The process ends, by stop() or without it; its threads are daemons.  Who was
\* confirmed as known and has not got into the file since will be unknown.
Down ==
    /\ up
    /\ starts < MaxStarts
    /\ up' = FALSE
    /\ peers' = {}
    /\ window' = FALSE
    /\ thread' = [x \in Thread |-> Idle]
    /\ latest' = {}
    /\ unsaved' = {}
    /\ forgotten' = forgotten \cup ((welcomed \cap unsaved) \ file)
    /\ behind' = FALSE
    /\ UNCHANGED <<file, faults, starts, admitted, revoked, welcomed, served, overlapped>>

-----------------------------------------------------------------------------
Handle(c) ==
    \/ \E p \in Phone : Hello(c, p)
    \/ Serve(c) \/ TurnAway(c) \/ PairKnown(c) \/ PairAdd(c)

Save(x) ==
    \/ DumpBegin(x) \/ DumpEnd(x) \/ DumpRaises(x)
    \/ Rename(x) \/ SaveFails(x) \/ Confirm(x)

Next ==
    \/ \E c \in Conn : Handle(c)
    \/ \E x \in Tab, p \in Phone : Unpair(x, p)
    \/ \E x \in Thread : Save(x)
    \/ OpenPairing \/ WindowEnds \/ Start \/ StartUnread \/ Down

Spec == Init /\ [][Next]_vars

-----------------------------------------------------------------------------
(* Properties *)

\* Nobody is trusted, in memory, in the file or in a half-done save, who did not
\* once come in through an open pairing window, whatever thread, failures and
\* restarts do to the dictionary and the file.
TrustWasGranted ==
    /\ peers \subseteq admitted
    /\ file \subseteq admitted
    /\ \A x \in Thread : copy(x) \subseteq admitted

\* No operation but pair is carried out for a phone that was never let in: not
\* even for one that said hello while the window was open.
OnlyAdmittedAreServed == served \subseteq admitted

\* A phone whose removal was confirmed is not trusted again, not even after a
\* restart, unless it pairs again.
RevokedStaysRevoked == up => revoked \cap peers = {}

\* The same as far as it is true: until two saves have overlapped, also if one fails.
RevokedUnlessOverlap == overlapped \/ RevokedStaysRevoked

\* A phone whose pairing was confirmed is trusted for as long as nobody removes it: for the
\* rest of this process, failing saves or not, and after every restart, except where saves
\* have overlapped, where a start could not read the file, and where the phone was confirmed
\* as already known without being in the file and no save has gone through before the end.
WelcomedStaysTrusted ==
    up /\ ~overlapped => welcomed \subseteq peers \cup forgotten

\* Until saves overlap, and whenever none is under way: a restart would load exactly what
\* memory holds.  A save that failed, or a file that could not be read, leaves the two
\* apart only until the next save that goes through.
FileIsCurrent ==
    up /\ ~overlapped /\ ~behind /\ (\A x \in Thread : pc(x) \in {"idle", "request"})
        => file = peers

\* A phone whose removal was confirmed has no operation carried out any more.
RevokedSendsNothing == revoked \cap served = {}
=============================================================================
