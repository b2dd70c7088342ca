-------------------------------- MODULE Runbook --------------------------------
(***************************************************************************)
(* A project's runbook (runbooks.py, daemon.py): the markdown file in the  *)
(* project's state with its metadata and the snapshots taken before every  *)
(* update, and the copy in the repository.  Updates, exports and imports   *)
(* hold the project's lock; a status creates what is missing without it.   *)
(* A text is the set of the updates that can be read in it.                *)
(***************************************************************************)
EXTENDS FiniteSets

CONSTANTS
  Update,    \* what agents and people write, each once
  Secret,    \* those that look like a secret value
  Reader,    \* handlers of statuses, which hold no lock
  NoText     \* a file that does not exist, and a handler that writes nothing

ASSUME RunbookAssumption == Secret \subseteq Update /\ \A text \in SUBSET Update : text # NoText

VARIABLES
  runbook,   \* project-runbook.md
  described, \* project-runbook.json, the metadata, is there
  snapshots, \* the runbooks as they were before each update
  repo,      \* docs/workerbee-runbook.md of the checkout
  holder,    \* the handler with the project's lock: where it is, its command and its text
  reader,    \* [Reader -> where a status is: "idle", "missing" or "describe"]
  accepted,  \* history: texts of the updates that reported success, since the last purge
  written,   \* history: updates written so far
  overrun    \* history: texts lost to a status that had found no runbook

runbookVars ==
  <<runbook, described, snapshots, repo, holder, reader, accepted, written, overrun>>

Idle == [at |-> "idle", command |-> "none", text |-> NoText]

\* A runbook, its copies and what was written are sets of updates.
Text == SUBSET Update
RunbookTypeOK ==
  /\ runbook \in Text \cup {NoText} /\ repo \in Text \cup {NoText}
  /\ described \in BOOLEAN
  /\ snapshots \subseteq Text /\ accepted \subseteq Text /\ overrun \subseteq Text
  /\ written \subseteq Update
  /\ holder \in [at : {"idle", "snapshot", "ensure", "ensured", "export", "open", "write",
                      "describe", "purge", "done"},
                command : {"none", "append", "replace", "import", "export", "ensure", "purge"},
                text : Text \cup {NoText}]
  /\ reader \in [Reader -> {"idle", "missing", "describe"}]

RunbookInit ==
  /\ runbook = NoText /\ described = FALSE /\ snapshots = {} /\ repo = NoText
  /\ holder = Idle /\ reader = [r \in Reader |-> "idle"]
  /\ accepted = {} /\ written = {} /\ overrun = {}

files == <<runbook, described, snapshots, repo>>
past == <<accepted, written, overrun>>
HolderAt(s) == holder' = [holder EXCEPT !.at = s]

\* _raise_if_runbook_secrets, and the refusal of an update with nothing in it.
Acceptable(text) == text # {} /\ text \cap Secret = {}

-----------------------------------------------------------------------------
(* Under the project's lock. *)

\* An update of somebody's text, by appending or by replacing; an import of the copy in the
\* repository; an export; the ensure of a session start; a purge of the project's state.
BeginRunbook ==
  /\ holder = Idle
  /\ \/ \E u \in Update \ written, c \in {"append", "replace"} :
          /\ Acceptable({u}) /\ written' = written \cup {u}
          /\ holder' = [at |-> "snapshot", command |-> c, text |-> {u}]
     \/ /\ repo # NoText /\ Acceptable(repo) /\ UNCHANGED written
        /\ holder' = [at |-> "snapshot", command |-> "import", text |-> repo]
     \/ /\ UNCHANGED written
        /\ \E c \in {"export", "ensure"} :
             holder' = [at |-> "ensure", command |-> c, text |-> NoText]
     \/ /\ UNCHANGED written
        /\ holder' = [at |-> "purge", command |-> "purge", text |-> NoText]
  /\ UNCHANGED <<files, reader, accepted, overrun>>

\* Mutant of Snapshot: only an append keeps what it finds.
SnapshotAppends ==
  /\ holder.at = "snapshot"
  /\ snapshots' = IF holder.command = "append" THEN snapshots \cup ({runbook} \ {NoText})
                ELSE snapshots
  /\ HolderAt(IF holder.command = "append" /\ runbook = NoText THEN "ensure" ELSE "open")
  /\ UNCHANGED <<runbook, described, repo, reader, past>>

\* The runbook as it is goes to the snapshots.
Snapshot ==
  /\ holder.at = "snapshot"
  /\ snapshots' = snapshots \cup ({runbook} \ {NoText})
  /\ HolderAt(IF holder.command = "append" /\ runbook = NoText THEN "ensure" ELSE "open")
  /\ UNCHANGED <<runbook, described, repo, reader, past>>

\* ensure_project_runbook: a runbook without updates, and metadata, where there is none.
EnsureRunbook ==
  /\ holder.at = "ensure"
  /\ runbook' = IF runbook = NoText THEN {} ELSE runbook
  /\ HolderAt("ensured")
  /\ UNCHANGED <<described, snapshots, repo, reader, past>>

EnsureMetadata ==
  /\ holder.at = "ensured"
  /\ described' = TRUE
  /\ HolderAt(CASE holder.command = "append" -> "open"
            [] holder.command = "export" -> "export"
            [] holder.command = "ensure" -> "done")
  /\ UNCHANGED <<runbook, snapshots, repo, reader, past>>

\* write_text empties the file, and then writes it.
OpenRunbook ==
  /\ holder.at = "open"
  /\ holder' = [holder EXCEPT !.at = "write",
                  !.text = IF holder.command = "append" /\ runbook # NoText
                             THEN runbook \cup @ ELSE @]
  /\ runbook' = {}
  /\ UNCHANGED <<described, snapshots, repo, reader, past>>

WriteRunbook ==
  /\ holder.at = "write"
  /\ runbook' = holder.text /\ HolderAt("describe")
  /\ UNCHANGED <<described, snapshots, repo, reader, past>>

\* The metadata is read, changed and written.
DescribeRunbook ==
  /\ holder.at = "describe"
  /\ described' = TRUE
  /\ accepted' = IF holder.text = NoText THEN accepted ELSE accepted \cup {holder.text}
  /\ HolderAt("done")
  /\ UNCHANGED <<runbook, snapshots, repo, reader, written, overrun>>

\* An export does not write over a copy unless it is told to.
ExportRunbook ==
  /\ holder.at = "export"
  /\ \/ repo' = runbook /\ HolderAt("describe")
     \/ repo # NoText /\ UNCHANGED repo /\ HolderAt("done")
  /\ UNCHANGED <<runbook, described, snapshots, reader, past>>

\* rmtree of the project's state.
PurgeRunbook ==
  /\ holder.at = "purge"
  /\ runbook' = NoText /\ described' = FALSE /\ snapshots' = {} /\ accepted' = {}
  /\ HolderAt("done")
  /\ UNCHANGED <<repo, reader, written, overrun>>

EndRunbook ==
  /\ holder.at = "done" /\ holder' = Idle
  /\ UNCHANGED <<files, reader, past>>

-----------------------------------------------------------------------------
(* Without the lock. *)

ReaderAt(r, s) == reader' = [reader EXCEPT ![r] = s]

\* A status looks whether the runbook and the metadata are there.
ReadStatus ==
  /\ \E r \in Reader :
       /\ reader[r] = "idle"
       /\ \/ runbook = NoText /\ ReaderAt(r, "missing")
          \/ runbook # NoText /\ ~described /\ ReaderAt(r, "describe")
  /\ UNCHANGED <<files, holder, past>>

\* It writes the runbook it has found missing, and then the metadata.
CreateRunbook ==
  /\ \E r \in Reader :
       /\ reader[r] = "missing" /\ ReaderAt(r, "describe")
       /\ overrun' = IF runbook \in {NoText, {}} THEN overrun ELSE overrun \cup {runbook}
       /\ runbook' = {}
  /\ UNCHANGED <<described, snapshots, repo, holder, accepted, written>>

CreateMetadata ==
  /\ \E r \in Reader : reader[r] = "describe" /\ ReaderAt(r, "idle")
  /\ described' = TRUE
  /\ UNCHANGED <<runbook, snapshots, repo, holder, past>>

\* Somebody edits the copy in the repository.
RepoEdited ==
  /\ \E u \in Update \ written :
       /\ written' = written \cup {u}
       /\ repo' = IF repo = NoText THEN {u} ELSE repo \cup {u}
  /\ UNCHANGED <<runbook, described, snapshots, holder, reader, accepted, overrun>>

\* The daemon dies, and every handler with it.
RunbookDies ==
  /\ holder # Idle \/ \E r \in Reader : reader[r] # "idle"
  /\ holder' = Idle /\ reader' = [r \in Reader |-> "idle"]
  /\ UNCHANGED <<files, past>>

RunbookNext ==
  \/ BeginRunbook \/ Snapshot \/ EnsureRunbook \/ EnsureMetadata \/ OpenRunbook
  \/ WriteRunbook \/ DescribeRunbook \/ ExportRunbook \/ PurgeRunbook \/ EndRunbook
  \/ ReadStatus \/ CreateRunbook \/ CreateMetadata \/ RepoEdited \/ RunbookDies

RunbookSpec == RunbookInit /\ [][RunbookNext]_runbookVars

-----------------------------------------------------------------------------
(* What it promises. *)

\* What an update, or an import, has reported as written can still be read in the runbook or
\* in a snapshot of it, though later updates replace it or die half-way through, until the
\* project is purged (update_project_runbook takes the snapshot before it opens the file).
\* The exception is a status that found no runbook before the first update wrote it, and
\* creates one over it (ensure_project_runbook without the project's lock).
UpdatesKept ==
  \A t \in accepted :
    \/ \E s \in snapshots \cup ({runbook} \ {NoText}) \cup overrun : t \subseteq s
    \/ holder.at = "write" /\ t \subseteq holder.text
=============================================================================
