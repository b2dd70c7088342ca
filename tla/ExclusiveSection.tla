-------------------------- MODULE ExclusiveSection --------------------------
(***************************************************************************)
(* What the per-project lock of WorkerBee promises: at any moment at most  *)
(* one actor is inside the critical section of a project.  ProjectLock is  *)
(* the detailed protocol; it is shown to implement this one for the actors *)
(* whose lock file is still the project's.                                 *)
(***************************************************************************)

CONSTANT Actor

VARIABLE inside \* the actors in the critical section

Init == inside = {}

Enter(a) == /\ inside = {}
            /\ inside' = {a}

\* A set of actors leaves: one releases the lock, its process dies, or the
\* lock file is purged.
Leave(S) == inside' = inside \ S

Next == \/ \E a \in Actor : Enter(a)
        \/ \E S \in SUBSET Actor : Leave(S)

Spec == Init /\ [][Next]_inside
=============================================================================
