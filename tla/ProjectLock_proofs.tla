-------------------------- MODULE ProjectLock_proofs --------------------------
(***************************************************************************)
(* What ProjectLock guarantees for every set of actors and processes, with *)
(* and without purges.                                                     *)
(***************************************************************************)
EXTENDS ProjectLock, TLAPS

(* The RLock of a process is owned by the one actor of it that is in a     *)
(* handler; a flock is owned by the actor inside that has the inode open.  *)
MutexOwner == \A a \in Actor : pc[a] # "idle" <=> rlock[ProcOf[a]] = a
MutexHome == \A p \in Process : rlock[p] # None => ProcOf[rlock[p]] = p
HandleOpen == \A a \in Actor :
                pc[a] \in {"opened", "critical"} <=> handle[a] # NoFile
FlockOwner == \A a \in Actor : pc[a] = "critical" => flocked[handle[a]] = a
FlockHeld == \A f \in File :
               flocked[f] # None => /\ pc[flocked[f]] = "critical"
                                    /\ handle[flocked[f]] = f

(* The next lock file is a new one. *)
Fresh ==
  /\ linked <= created
  /\ \A a \in Actor : handle[a] <= created
  /\ linked = NoFile => created < MaxFiles

(* The inductive invariant of ProjectLock. *)
IInv == /\ TypeOK /\ MutexOwner /\ MutexHome
        /\ HandleOpen /\ FlockOwner /\ FlockHeld /\ Fresh

LEMMA InitInv == Init => IInv
  BY LockAssumption
  DEF Init, IInv, TypeOK, MutexOwner, MutexHome, HandleOpen, FlockOwner,
      FlockHeld, Fresh, File, NoFile, PC

LEMMA StepInv == IInv /\ [Next]_vars => IInv'
<1> SUFFICES ASSUME IInv, [Next]_vars PROVE IInv'
  OBVIOUS
<1> USE LockAssumption DEF IInv, TypeOK, MutexOwner, MutexHome, HandleOpen,
                           FlockOwner, FlockHeld, Fresh, File, NoFile, PC
<1>1. ASSUME NEW a \in Actor, EnterMutex(a) PROVE IInv'
  BY <1>1 DEF EnterMutex
<1>2. ASSUME NEW a \in Actor, Open(a) PROVE IInv'
  BY <1>2 DEF Open
<1>3. ASSUME NEW a \in Actor, OpenFails(a) PROVE IInv'
  BY <1>3 DEF OpenFails
<1>4. ASSUME NEW a \in Actor, Flock(a) PROVE IInv'
  BY <1>4 DEF Flock
<1>5. ASSUME NEW a \in Actor, FlockFails(a) PROVE IInv'
  BY <1>5 DEF FlockFails
<1>6. ASSUME NEW a \in Actor, Purge(a) PROVE IInv'
  BY <1>6 DEF Purge
<1>7. ASSUME NEW a \in Actor, Release(a) PROVE IInv'
  BY <1>7 DEF Release
<1>8. ASSUME NEW p \in Process, Crash(p) PROVE IInv'
  BY <1>8 DEF Crash
<1>9. CASE UNCHANGED vars
  BY <1>9 DEF vars
<1> QED
  BY <1>1, <1>2, <1>3, <1>4, <1>5, <1>6, <1>7, <1>8, <1>9 DEF Next, Step

(* The invariant holds in every behaviour (daemon.py:281-313). *)
THEOREM Invariant == Spec => []IInv
<1>1. Init => IInv
  BY InitInv
<1>2. IInv /\ [Next]_vars => IInv'
  BY StepInv
<1> QED
  BY <1>1, <1>2, PTL DEF Spec

(* The lock's variables keep their types. *)
THEOREM TypeCorrect == Spec => []TypeOK
<1>1. IInv => TypeOK
  BY DEF IInv
<1> QED
  BY <1>1, Invariant, PTL

(* Two threads of one process are never inside together, whatever is       *)
(* purged (daemon.py:281, _project_lock).                                  *)
THEOREM ThreadsExclude == Spec => []ThreadExclusion
<1>1. IInv => ThreadExclusion
  BY LockAssumption
  DEF IInv, TypeOK, MutexOwner, ThreadExclusion, InCritical
<1> QED
  BY <1>1, Invariant, PTL

(* No refused call, no finished one and no crash leaves a lock behind.     *)
THEOREM NoLeak == Spec => []NoLeakedLock
<1>1. IInv => NoLeakedLock
  BY LockAssumption
  DEF IInv, TypeOK, MutexOwner, MutexHome, FlockHeld, NoLeakedLock, InCritical
<1> QED
  BY <1>1, Invariant, PTL

-----------------------------------------------------------------------------

(* Every step is a step of ExclusiveSection, or a stutter. *)
LEMMA StepExclusive == IInv /\ [Next]_vars => [Abstract!Next]_Inside
<1> SUFFICES ASSUME IInv, [Next]_vars PROVE [Abstract!Next]_Inside
  OBVIOUS
<1> USE LockAssumption DEF Inside, InCritical, IInv, TypeOK, HandleOpen, File, NoFile, PC
<1>1. ASSUME NEW a \in Actor, EnterMutex(a) \/ OpenFails(a) \/ FlockFails(a)
      PROVE UNCHANGED Inside
  BY <1>1 DEF EnterMutex, OpenFails, FlockFails
<1>2. ASSUME NEW a \in Actor, Open(a) PROVE UNCHANGED Inside
  BY <1>2 DEF Open, Fresh
<1>3. ASSUME NEW a \in Actor, Flock(a) PROVE Abstract!Enter(a) \/ UNCHANGED Inside
  <2>1. CASE handle[a] = linked
    <3>1. Inside = {}
      BY <2>1, <1>3 DEF Flock, FlockOwner
    <3>2. Inside' = {a}
      BY <2>1, <3>1, <1>3 DEF Flock
    <3> QED
      BY <3>1, <3>2 DEF Abstract!Enter
  <2>2. CASE handle[a] # linked
    BY <2>2, <1>3 DEF Flock
  <2> QED
    BY <2>1, <2>2
<1>4. ASSUME NEW a \in Actor, Purge(a) PROVE Inside' = Inside \ Actor
  BY <1>4 DEF Purge
<1>5. ASSUME NEW a \in Actor, Release(a) PROVE Inside' = Inside \ {a}
  BY <1>5 DEF Release
<1>6. ASSUME NEW p \in Process, Crash(p)
      PROVE Inside' = Inside \ {a \in Actor : ProcOf[a] = p}
  BY <1>6 DEF Crash
<1>7. CASE UNCHANGED vars
  BY <1>7 DEF vars
<1>8. ASSUME NEW S \in SUBSET Actor, Inside' = Inside \ S PROVE Abstract!Next
  BY <1>8 DEF Abstract!Next, Abstract!Leave
<1>9. ASSUME NEW a \in Actor, Step(a) PROVE Abstract!Next \/ UNCHANGED Inside
  <2>1. CASE Flock(a)
    BY <2>1, <1>3 DEF Abstract!Next
  <2>2. CASE Purge(a)
    BY <2>2, <1>4, <1>8
  <2>3. CASE Release(a)
    <3>1. Inside' = Inside \ {a} /\ {a} \in SUBSET Actor
      BY <2>3, <1>5
    <3> HIDE DEF Inside
    <3> QED
      BY <3>1, <1>8
  <2> QED
    BY ONLY <1>1, <1>2, <1>9, <2>1, <2>2, <2>3 DEF Step
<1>10. ASSUME NEW p \in Process, Crash(p) PROVE Abstract!Next
  BY <1>10, <1>6, <1>8
<1> QED
  BY <1>7, <1>9, <1>10 DEF Next

(* The lock protocol implements ExclusiveSection for the handlers that     *)
(* hold the lock file of the project (locks.py:27-72): while nothing is    *)
(* purged they are all of them, and of two handlers inside at once all but *)
(* one have a lock file that was purged (supervisor.py:1842).              *)
THEOREM Refinement == Spec => Exclusive
<1>1. Init => Abstract!Init
  BY DEF Init, Abstract!Init, Inside, InCritical
<1>2. IInv /\ [Next]_vars => [Abstract!Next]_Inside
  BY StepExclusive
<1> QED
  BY <1>1, <1>2, Invariant, PTL DEF Spec, Exclusive, Abstract!Spec
=============================================================================
