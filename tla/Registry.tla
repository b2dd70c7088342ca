------------------------------- MODULE Registry -------------------------------
(***************************************************************************)
(* The project registry <state root>/registry.json as concurrent handlers  *)
(* of the daemon and of CLI processes update it (daemon.py,                *)
(* _register_project, _unregister_projects, _read_registry,                *)
(* _write_registry): read the whole file, change it in memory, write       *)
(* registry.tmp, rename it over registry.json.  No lock covers the cycle:  *)
(* a handler at best holds the lock of the one project it is about, and    *)
(* all writers share one temporary name.                                   *)
(*                                                                         *)
(* Files are inodes, because a writer that has the temporary file open     *)
(* keeps writing to it after another writer has renamed it.                *)
(***************************************************************************)
EXTENDS RegistryRecords, FiniteSets

CONSTANTS
  Actor,   \* threads and processes that call a handler
  Locked,  \* the actors that hold the project's lock while they register it
  Asked,   \* bound: the modes that callers ask for
  Inode,   \* inodes of registry.json and registry.tmp
  NoInode

ASSUME RegistryAssumption ==
  /\ Locked \subseteq Actor
  /\ Asked \subseteq Mode
  /\ NoMode \notin Mode
  /\ NoInode \notin Inode

\* A file holds a registry, was truncated and not written yet, or carries two
\* writes overlaid, which is no JSON document.
Json(r) == [form |-> "json", records |-> r]
Empty == [form |-> "empty", records |-> NoRecords]
Torn == [form |-> "torn", records |-> NoRecords]

VARIABLES
  file,     \* the inode named registry.json, or NoInode
  tmp,      \* the inode named registry.tmp, or NoInode
  content,  \* what each inode holds
  pc,       \* where each actor is in the read-write-rename cycle
  about,    \* the projects whose records each actor is changing
  wants,    \* the mode each actor gives them: one of Asked, NoMode or "absent"
  records,  \* the registry each actor has in memory
  handle,   \* the inode each actor is writing to
  asked     \* the modes a caller has ever asked for, for each project

vars == <<file, tmp, content, pc, about, wants, records, handle, asked>>

Content == [form : {"json", "empty", "torn"}, records : Records]
PC == {"idle", "changed", "opened", "written"}

TypeOK ==
  /\ file \in Inode \cup {NoInode}
  /\ tmp \in Inode \cup {NoInode}
  /\ content \in [Inode -> Content]
  /\ pc \in [Actor -> PC]
  /\ about \in [Actor -> SUBSET Project]
  /\ wants \in [Actor -> Mode \cup {NoMode, "absent"}]
  /\ records \in [Actor -> Records]
  /\ handle \in [Actor -> Inode \cup {NoInode}]
  /\ asked \in [Project -> SUBSET Asked]

Init ==
  /\ file = NoInode
  /\ tmp = NoInode
  /\ content = [i \in Inode |-> Empty]
  /\ pc = [a \in Actor |-> "idle"]
  /\ about = [a \in Actor |-> {}]
  /\ wants = [a \in Actor |-> NoMode]
  /\ records = [a \in Actor |-> NoRecords]
  /\ handle = [a \in Actor |-> NoInode]
  /\ asked = [p \in Project |-> {}]

-----------------------------------------------------------------------------

\* _read_registry: a missing file and one that is not JSON read as no records.
Published ==
  IF file = NoInode THEN NoRecords ELSE content[file].records

\* Mutant of MayStart: registering before the lock is taken.
MayStartUnlocked(a, S) == pc[a] = "idle"

\* A call about the projects S may start: a locked one waits for the others
\* that hold the lock of the same project.
MayStart(a, S) ==
  /\ pc[a] = "idle"
  /\ a \in Locked => \A b \in Locked : pc[b] = "idle" \/ about[b] \cap S = {}

\* Reads the registry and changes it in memory.
Change(a, S, m, new) ==
  /\ MayStart(a, S)
  /\ pc' = [pc EXCEPT ![a] = "changed"]
  /\ about' = [about EXCEPT ![a] = S]
  /\ wants' = [wants EXCEPT ![a] = m]
  /\ records' = [records EXCEPT ![a] = new]
  /\ UNCHANGED <<file, tmp, content, handle>>

\* _register_project with a mode: project_mode_set and, after a stop, start_projects.
SetMode(a, p, m) ==
  /\ a \in Locked
  /\ Change(a, {p}, m, Registered(Published, p, m))
  /\ asked' = [asked EXCEPT ![p] = @ \cup {m}]

\* _register_project without one: every handler, and the unlocked readers.
Touch(a, p) ==
  /\ Change(a, {p}, NoMode, Registered(Published, p, NoMode))
  /\ UNCHANGED asked

\* _unregister_projects, called when the projects' locks are released again.
Unregister(a, S) ==
  /\ a \notin Locked
  /\ Change(a, S, "absent", Unregistered(Published, S))
  /\ UNCHANGED asked

\* open("registry.tmp", "w") truncates the file of that name, or creates one.
OpenTmp(a) ==
  /\ pc[a] = "changed"
  /\ \/ tmp # NoInode /\ tmp' = tmp
     \/ /\ tmp = NoInode
        /\ \E i \in Inode \ ({file} \cup {handle[b] : b \in Actor}) : tmp' = i
  /\ content' = [content EXCEPT ![tmp'] = Empty]
  /\ handle' = [handle EXCEPT ![a] = tmp']
  /\ pc' = [pc EXCEPT ![a] = "opened"]
  /\ UNCHANGED <<file, about, wants, records, asked>>

\* One write at offset 0: over a longer text it leaves that text's tail behind.
WriteTmp(a) ==
  /\ pc[a] = "opened"
  /\ \E c \in {Json(records[a])} \cup
              (IF content[handle[a]].form = "empty" THEN {} ELSE {Torn}) :
       content' = [content EXCEPT ![handle[a]] = c]
  /\ handle' = [handle EXCEPT ![a] = NoInode]
  /\ pc' = [pc EXCEPT ![a] = "written"]
  /\ UNCHANGED <<file, tmp, about, wants, records, asked>>

Finish(a) ==
  /\ pc' = [pc EXCEPT ![a] = "idle"]
  /\ about' = [about EXCEPT ![a] = {}]
  /\ wants' = [wants EXCEPT ![a] = NoMode]
  /\ records' = [records EXCEPT ![a] = NoRecords]

\* tmp.replace(registry.json): the old file loses its last name.
Replace(a) ==
  /\ pc[a] = "written"
  /\ tmp # NoInode
  /\ file' = tmp
  /\ tmp' = NoInode
  /\ content' = [i \in Inode |-> IF i = file THEN Empty ELSE content[i]]
  /\ Finish(a)
  /\ UNCHANGED <<handle, asked>>

\* FileNotFoundError: another writer has renamed the shared temporary file.
ReplaceFails(a) ==
  /\ pc[a] = "written"
  /\ tmp = NoInode
  /\ Finish(a)
  /\ UNCHANGED <<file, tmp, content, handle, asked>>

\* The process dies inside the cycle.
Crash(a) ==
  /\ pc[a] # "idle"
  /\ handle' = [handle EXCEPT ![a] = NoInode]
  /\ Finish(a)
  /\ UNCHANGED <<file, tmp, content, asked>>

Step(a) ==
  \/ \E p \in Project, m \in Asked : SetMode(a, p, m)
  \/ \E p \in Project : Touch(a, p)
  \/ \E S \in SUBSET Project : Unregister(a, S)
  \/ OpenTmp(a) \/ WriteTmp(a) \/ Replace(a) \/ ReplaceFails(a) \/ Crash(a)

Next == \E a \in Actor : Step(a)

Spec == Init /\ [][Next]_vars

-----------------------------------------------------------------------------

\* No interleaving, torn file or crash makes a mode up: a project published
\* or remembered as start or stop was once set to it by a caller
\* (daemon.py:2749-2753).
NoInventedMode ==
  LET Vouched(r) == \A p \in Project : ModeIn(r, p) \in asked[p] \cup {"lazy"} IN
  /\ \A i \in Inode : Vouched(content[i].records)
  /\ \A a \in Actor : Vouched(records[a])

\* The off switch is persistent: a stopped project stays stopped while no call
\* about it is in progress (docs/poc-scope.md:38).
PersistentStop ==
  [][\A p \in Project : Published[p] = "stop" /\ Published'[p] # "stop" =>
       \E a \in Actor : p \in about[a]]_vars

\* The registry is a JSON document at every moment, also across a crash in
\* the middle of a write (daemon.py:2770-2776).
NeverTorn == file # NoInode => content[file].form = "json"

Calls == [a \in Actor |-> [about |-> about[a], mode |-> wants[a]]]

Abstract == INSTANCE AtomicRegistry WITH reg <- Published, call <- Calls

\* Refinement: every call takes effect at one instant, on the registry of that
\* instant, or not at all (daemon.py:2735-2785).
Atomic == Abstract!Spec
=============================================================================
