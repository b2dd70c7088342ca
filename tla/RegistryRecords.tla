--------------------------- MODULE RegistryRecords ---------------------------
(***************************************************************************)
(* The records of registry.json as values.  A record is reduced to the     *)
(* project's mode, the field that decides what the project may do; the     *)
(* working-directory hint, git fields and timestamps are merged in the     *)
(* same way and travel with it.                                            *)
(***************************************************************************)
CONSTANTS Project, NoMode

Mode == {"lazy", "start", "stop"}

(* The records of a registry: a project has a mode, or no record. *)
Records == [Project -> Mode \cup {"absent"}]

NoRecords == [p \in Project |-> "absent"]

(* _safe_project_mode: a project without a record is lazy. *)
ModeIn(records, p) == IF records[p] = "absent" THEN "lazy" ELSE records[p]

(* Mutant of Registered: new projects start by default. *)
RegisteredToStart(records, p, m) ==
  [records EXCEPT ![p] =
     IF m # NoMode THEN m ELSE IF @ = "absent" THEN "start" ELSE @]

(* _register_project: the caller's mode, or the mode p has already. *)
Registered(records, p, m) ==
  [records EXCEPT ![p] = IF m = NoMode THEN ModeIn(records, p) ELSE m]

(* _unregister_projects: the records of S are popped. *)
Unregistered(records, S) ==
  [q \in Project |-> IF q \in S THEN "absent" ELSE records[q]]
=============================================================================
