----------------------------- MODULE ProjectLock -----------------------------
(***************************************************************************)
(* The lock every project handler of the WorkerBee daemon takes:           *)
(* an in-process threading.RLock for the project (daemon.py,               *)
(* _project_lock) and, inside it, an advisory flock on                     *)
(* <state root>/projects/<project>/.lock (locks.py, FileLock), which       *)
(* excludes the other processes (the MCP daemon and any number of CLI      *)
(* commands).  One project is modelled: locks of two projects share        *)
(* nothing.                                                                *)
(*                                                                         *)
(* flock locks an inode, not a name.  The lock file lives in the very      *)
(* directory that a purge removes while it holds the lock, so the name     *)
(* may come to mean a new inode: the model keeps inodes apart.             *)
(***************************************************************************)
EXTENDS Naturals, FiniteSets

CONSTANTS
  Process,   \* operating-system processes that use the state root
  Actor,     \* threads that call a project handler
  ProcOf,    \* the process of each actor
  Purger,    \* the actors whose handler may purge the state directory
  MaxFiles,  \* bound: how many lock files are ever created
  None       \* "no actor"

ASSUME LockAssumption ==
  /\ ProcOf \in [Actor -> Process]
  /\ Purger \subseteq Actor
  /\ MaxFiles \in Nat \ {0}
  /\ None \notin Actor

File == 1..MaxFiles   \* inodes created under the name .lock
NoFile == 0

VARIABLES
  linked,   \* the inode the name .lock stands for, or NoFile
  created,  \* how many lock files were created so far
  rlock,    \* owner of the project's RLock in each process
  flocked,  \* owner of the flock on each inode
  handle,   \* the inode each actor has open, or NoFile
  pc        \* where each actor is

vars == <<linked, created, rlock, flocked, handle, pc>>

PC == {"idle", "mutex", "opened", "critical"}

TypeOK ==
  /\ linked \in File \cup {NoFile}
  /\ created \in 0..MaxFiles
  /\ rlock \in [Process -> Actor \cup {None}]
  /\ flocked \in [File -> Actor \cup {None}]
  /\ handle \in [Actor -> File \cup {NoFile}]
  /\ pc \in [Actor -> PC]

Init ==
  /\ linked = NoFile
  /\ created = 0
  /\ rlock = [p \in Process |-> None]
  /\ flocked = [f \in File |-> None]
  /\ handle = [a \in Actor |-> NoFile]
  /\ pc = [a \in Actor |-> "idle"]

-----------------------------------------------------------------------------

\* Mutant of EnterMutex: no RLock, flock alone is trusted.
MutexNotTaken(a) ==
  /\ pc[a] = "idle"
  /\ rlock' = [rlock EXCEPT ![ProcOf[a]] = a]
  /\ pc' = [pc EXCEPT ![a] = "mutex"]
  /\ UNCHANGED <<linked, created, flocked, handle>>

\* `with self._project_lock(name)`: blocks until the RLock is free.
EnterMutex(a) ==
  /\ pc[a] = "idle"
  /\ rlock[ProcOf[a]] = None
  /\ rlock' = [rlock EXCEPT ![ProcOf[a]] = a]
  /\ pc' = [pc EXCEPT ![a] = "mutex"]
  /\ UNCHANGED <<linked, created, flocked, handle>>

\* open(path, "a+"): opens the inode of that name, creating it if there is none.
Open(a) ==
  /\ pc[a] = "mutex"
  /\ \/ /\ linked # NoFile
        /\ handle' = [handle EXCEPT ![a] = linked]
        /\ UNCHANGED <<linked, created>>
     \/ /\ linked = NoFile
        /\ created' = created + 1
        /\ linked' = created + 1
        /\ handle' = [handle EXCEPT ![a] = created + 1]
  /\ pc' = [pc EXCEPT ![a] = "opened"]
  /\ UNCHANGED <<rlock, flocked>>

\* A purge removes the directory between mkdir and open: FileNotFoundError
\* leaves the RLock's `with`.
OpenFails(a) ==
  /\ pc[a] = "mutex"
  /\ \E b \in Purger \ {a} : pc[b] = "critical"
  /\ rlock' = [rlock EXCEPT ![ProcOf[a]] = None]
  /\ pc' = [pc EXCEPT ![a] = "idle"]
  /\ UNCHANGED <<linked, created, flocked, handle>>

\* Mutant of Flock: a shared lock.
FlockShared(a) ==
  /\ pc[a] = "opened"
  /\ flocked' = [flocked EXCEPT ![handle[a]] = a]
  /\ pc' = [pc EXCEPT ![a] = "critical"]
  /\ UNCHANGED <<linked, created, rlock, handle>>

\* flock(LOCK_EX | LOCK_NB) succeeds: nobody locks the inode that was opened.
Flock(a) ==
  /\ pc[a] = "opened"
  /\ flocked[handle[a]] = None
  /\ flocked' = [flocked EXCEPT ![handle[a]] = a]
  /\ pc' = [pc EXCEPT ![a] = "critical"]
  /\ UNCHANGED <<linked, created, rlock, handle>>

\* Mutant of FlockFails: acquire and release without `with`, the error leaks.
FlockFailsLeaking(a) ==
  /\ pc[a] = "opened"
  /\ flocked[handle[a]] # None
  /\ handle' = [handle EXCEPT ![a] = NoFile]
  /\ pc' = [pc EXCEPT ![a] = "idle"]
  /\ UNCHANGED <<linked, created, rlock, flocked>>

\* BlockingIOError: the handle is closed, STATE_LOCKED leaves both `with`s.
FlockFails(a) ==
  /\ pc[a] = "opened"
  /\ flocked[handle[a]] # None
  /\ handle' = [handle EXCEPT ![a] = NoFile]
  /\ rlock' = [rlock EXCEPT ![ProcOf[a]] = None]
  /\ pc' = [pc EXCEPT ![a] = "idle"]
  /\ UNCHANGED <<linked, created, flocked>>

\* shutil.rmtree(state_dir) by the actor inside: the name .lock is gone.
Purge(a) ==
  /\ pc[a] = "critical"
  /\ a \in Purger
  /\ created < MaxFiles  \* bound: the next Open creates a file
  /\ linked' = NoFile
  /\ UNCHANGED <<created, rlock, flocked, handle, pc>>

\* LOCK_UN and close, then the RLock.
Release(a) ==
  /\ pc[a] = "critical"
  /\ flocked' = [flocked EXCEPT ![handle[a]] = None]
  /\ handle' = [handle EXCEPT ![a] = NoFile]
  /\ rlock' = [rlock EXCEPT ![ProcOf[a]] = None]
  /\ pc' = [pc EXCEPT ![a] = "idle"]
  /\ UNCHANGED <<linked, created>>

\* A process dies: the kernel closes its descriptors, which drops its flocks.
Crash(p) ==
  LET dead == {a \in Actor : ProcOf[a] = p} IN
  /\ \E a \in dead : pc[a] # "idle"
  /\ rlock' = [rlock EXCEPT ![p] = None]
  /\ flocked' = [f \in File |-> IF flocked[f] \in dead THEN None ELSE flocked[f]]
  /\ handle' = [a \in Actor |-> IF a \in dead THEN NoFile ELSE handle[a]]
  /\ pc' = [a \in Actor |-> IF a \in dead THEN "idle" ELSE pc[a]]
  /\ UNCHANGED <<linked, created>>

Step(a) == \/ EnterMutex(a) \/ Open(a) \/ OpenFails(a) \/ Flock(a) 
           \/ FlockFails(a) \/ Purge(a) \/ Release(a)

Next == \/ \E a \in Actor : Step(a)
        \/ \E p \in Process : Crash(p)

Spec == Init /\ [][Next]_vars

\* Code that has entered a handler runs on; nothing makes an idle actor call
\* one, and nothing orders the threads that wait for an RLock.
Fairness ==
  \A a \in Actor : WF_vars(Open(a) \/ Flock(a) \/ FlockFails(a) \/ Release(a))

FairSpec == Spec /\ Fairness

-----------------------------------------------------------------------------

InCritical(a) == pc[a] = "critical"

\* Two handlers of one project never overlap, in one process or in two
\* (locks.py:1).
ProjectExclusion ==
  \A a, b \in Actor : InCritical(a) /\ InCritical(b) => a = b

\* Threads of one process never overlap in a project, purge or not: the RLock
\* does not depend on the file system.
ThreadExclusion ==
  \A a, b \in Actor :
    InCritical(a) /\ InCritical(b) /\ ProcOf[a] = ProcOf[b] => a = b

\* A refused, finished or crashed call leaves no lock behind: every owner of
\* an RLock or of an inode's flock is an actor in the matching section.
NoLeakedLock ==
  /\ \A p \in Process : rlock[p] # None =>
       pc[rlock[p]] # "idle" /\ ProcOf[rlock[p]] = p
  /\ \A f \in File : flocked[f] # None =>
       InCritical(flocked[f]) /\ handle[flocked[f]] = f

\* Nobody waits forever for somebody inside: flock is non-blocking and every
\* path out of a handler releases the RLock.
LockIsReleased ==
  \A p \in Process : rlock[p] # None ~> rlock[p] = None

\* The actors whose lock file is the one now named .lock; a purge puts its own
\* handler, and who had locked the file before, outside.
Inside == {a \in Actor : InCritical(a) /\ handle[a] = linked}

Abstract == INSTANCE ExclusiveSection WITH inside <- Inside

\* Refinement: among the handlers that hold the file now named .lock there is
\* an exclusive section, whatever is purged and whoever dies (locks.py:27-72).
Exclusive == Abstract!Spec
=============================================================================
