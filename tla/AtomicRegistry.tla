---------------------------- MODULE AtomicRegistry ----------------------------
(***************************************************************************)
(* What the project registry promises (daemon.py, registry.json): a call   *)
(* that registers or unregisters projects takes effect at one instant      *)
(* between its beginning and its end, on the records of that instant, or   *)
(* not at all.  Registry is the detailed protocol of reads, temporary      *)
(* files and renames.                                                      *)
(***************************************************************************)
EXTENDS RegistryRecords

CONSTANT Actor

VARIABLES
  reg,  \* the registered projects with their modes
  call  \* what each actor is about to change

Idle == [about |-> {}, mode |-> NoMode]

Init ==
  /\ reg = NoRecords
  /\ call = [a \in Actor |-> Idle]

Begin(a) ==
  /\ call[a] = Idle
  /\ \/ \E p \in Project, m \in Mode \cup {NoMode} :
          call' = [call EXCEPT ![a] = [about |-> {p}, mode |-> m]]
     \/ \E S \in SUBSET Project :
          call' = [call EXCEPT ![a] = [about |-> S, mode |-> "absent"]]
  /\ UNCHANGED reg

End(a) == call' = [call EXCEPT ![a] = Idle]

Register(a) ==
  /\ \E p \in Project :
       /\ call[a].about = {p}
       /\ call[a].mode \in Mode \cup {NoMode}
       /\ reg' = Registered(reg, p, call[a].mode)
  /\ End(a)

Unregister(a) ==
  /\ call[a].mode = "absent"
  /\ reg' = Unregistered(reg, call[a].about)
  /\ End(a)

\* The actor died, or its rename failed.
Abandon(a) == End(a) /\ UNCHANGED reg

\* A step is the beginning or the end of a call.
Next ==
  \E a \in Actor :
    /\ call'[a] # call[a]
    /\ Begin(a) \/ Register(a) \/ Unregister(a) \/ Abandon(a)

Spec == Init /\ [][Next]_<<reg, call>>
=============================================================================
