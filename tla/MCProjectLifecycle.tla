-------------------------- MODULE MCProjectLifecycle --------------------------
(* Small instances of ProjectLifecycle. *)
EXTENDS ProjectLifecycle, TLC

Symmetry == Permutations(Thread)

\* What the next steps depend on: an actor that does nothing has no call, and
\* `met` tells something of those that are inside.  (StopIsOff reads `cut`.)
Pending == [a \in Actor |-> IF Idle(a) THEN None ELSE call[a]]
View == <<registry, dir, stack, lockFile, handle, inside, Pending, todo, snap, met \cap inside>>
=============================================================================
