----------------------- MODULE ProjectLifecycle_proofs -----------------------
(***************************************************************************)
(* What the project handlers guarantee, for every set of actors and        *)
(* projects, with crashes and errors: that switching a project off ends    *)
(* with its stack down unless a purge has let another handler in, that the *)
(* locks, as long as they have their names, are sections of                *)
(* ExclusiveSection, and that handlers end and none waits for a lock while *)
(* it holds one; and, for the handlers named in each theorem, which purge  *)
(* nothing, and as long as no registration undoes that of another project  *)
(* (Orderly), that the mode decides about the stack.                       *)
(***************************************************************************)
EXTENDS ProjectLifecycle, Integers, SequenceTheorems, TLAPS

(* The steps of a script that need the project's lock. *)
Guarded == {"unlock", "auto", "start", "ready", "stop", "purge"}

Entering == {"open", "lock"}

Has(s, x) == \E i \in 1..Len(s) : s[i] = x
Unlocks(s) == Has(s, "unlock")

(* What is left of a handler: it needs the lock only after taking it, and  *)
(* takes it only on a file it has opened ...                               *)
Sheltered(s) ==
  \A i \in 1..Len(s) : s[i] \in Guarded => \E j \in 1..(i - 1) : s[j] = "lock"
Opens(s) == \A i \in 1..Len(s) : s[i] = "lock" => \E j \in 1..(i - 1) : s[j] = "open"
(* ... needs neither after releasing it, releases what it takes, takes it  *)
(* once and skips only a start.                                            *)
WellFormed(s) ==
  /\ \A i, j \in 1..Len(s) : s[i] = "unlock" /\ i < j => s[j] \notin Guarded \cup {"lock"}
  /\ \A i \in 1..Len(s) : s[i] \in Entering => \E j \in (i + 1)..Len(s) : s[j] = "unlock"
  /\ \A i, j \in 1..Len(s) : s[i] \in Entering /\ i < j => s[j] # s[i]
  /\ \A i \in 1..Len(s) : s[i] = "auto" => i + 1 \in 1..Len(s) /\ s[i + 1] = "start"

(* project_mode_set(stop) checks, launches and runs nothing, and stops the *)
(* stack before it unlocks.                                                *)
QuietSteps == {"open", "lock", "set", "register", "sync", "stop", "unlock"}
Quiet(s) == \A i \in 1..Len(s) : s[i] \in QuietSteps
StopsFirst(s) ==
  \A i \in 1..Len(s) : s[i] = "unlock" => \E j \in 1..(i - 1) : s[j] = "stop"

(* "previous" belongs to start_projects: no other call changes its mode.   *)
Remembers(s) == \E i \in 1..Len(s) : s[i] = "previous"

-----------------------------------------------------------------------------
(* Sequences of steps. *)

LEMMA TailIndex ==
  ASSUME NEW s \in Seq(Steps), s # <<>>
  PROVE  /\ Tail(s) \in Seq(Steps)
         /\ Len(s) \in Nat \ {0}
         /\ Len(Tail(s)) = Len(s) - 1
         /\ Head(s) = s[1]
         /\ \A i \in 1..Len(Tail(s)) : Tail(s)[i] = s[i + 1]
<1>1. Len(s) \in Nat /\ Len(s) # 0
  BY EmptySeq, LenProperties
<1> QED
  BY <1>1, HeadTailProperties

LEMMA ReadyIndex ==
  ASSUME NEW s \in Seq(Steps), s # <<>>
  PROVE  LET t == <<"ready">> \o Tail(s) IN
         /\ t \in Seq(Steps)
         /\ Len(t) = Len(s)
         /\ t[1] = "ready"
         /\ \A i \in 2..Len(t) : t[i] = s[i]
<1>1. <<"ready">> \in Seq(Steps) /\ Len(<<"ready">>) = 1
  BY DEF Steps
<1> QED
  BY <1>1, TailIndex, ConcatProperties

(* Every handler is a well-formed script: the lock is taken around every   *)
(* step that needs it and released after them (daemon.py:268-313).         *)
LEMMA Handlers ==
  ASSUME NEW o \in Ops, NEW m \in Mode \cup {NoMode}
  PROVE  /\ Script(o, m) \in Seq(Steps)
         /\ WellFormed(Script(o, m)) /\ Sheltered(Script(o, m)) /\ Opens(Script(o, m))
         /\ o # "start_projects" => ~Remembers(Script(o, m))
         /\ o = "mode_set" /\ m = "stop" =>
              Quiet(Script(o, m)) /\ StopsFirst(Script(o, m))
<1> DEFINE Good(s) == s \in Seq(Steps) /\ WellFormed(s) /\ Sheltered(s) /\ Opens(s)
<1> USE DEF WellFormed, Sheltered, Opens, Remembers, Guarded, Entering, Steps
<1>1. Good(Script("operation", m)) /\ ~Remembers(Script("operation", m))
  BY DEF Script
<1>2. Good(Script("active_only", m)) /\ ~Remembers(Script("active_only", m))
  BY DEF Script
<1>3. Good(Script("remote_deploy", m)) /\ ~Remembers(Script("remote_deploy", m))
  BY DEF Script
<1>4. Good(Script("session_start", m)) /\ ~Remembers(Script("session_start", m))
  BY DEF Script
<1>5. Good(Script("start_projects", m))
  BY DEF Script
<1>6. Good(Script("stop_projects", m)) /\ ~Remembers(Script("stop_projects", m))
  BY DEF Script
<1>7. Good(Script("delete_projects", m)) /\ ~Remembers(Script("delete_projects", m))
  BY DEF Script
<1>8. Good(Script("project_stop", m)) /\ ~Remembers(Script("project_stop", m))
  BY DEF Script
<1>9. Good(Script("project_purge", m)) /\ ~Remembers(Script("project_purge", m))
  BY DEF Script
<1>10. Good(Script("profile_deploy", m)) /\ ~Remembers(Script("profile_deploy", m))
  BY DEF Script
<1>11. Good(Script("profile_start", m)) /\ ~Remembers(Script("profile_start", m))
  BY DEF Script
<1>12. Good(Script("mode_get", m)) /\ ~Remembers(Script("mode_get", m))
  BY DEF Script
<1>13. Good(Script("mode_set", m)) /\ ~Remembers(Script("mode_set", m))
  <2>1. CASE m = "stop"
    <3> DEFINE s == <<"open", "lock", "set", "register", "sync", "stop", "set", "unlock">>
    <3>1. Script("mode_set", m) = s
      BY <2>1, Zenon DEF Script, SetScript
    <3>2. Good(s) /\ ~Remembers(s)
      OBVIOUS
    <3> HIDE DEF s, Good, Remembers
    <3> QED
      BY <3>1, <3>2
  <2>2. CASE m = "start"
    <3> DEFINE s == <<"open", "lock", "set", "register", "sync", "start", "set", "unlock">>
    <3>1. Script("mode_set", m) = s
      BY <2>2, Zenon DEF Script, SetScript
    <3>2. Good(s) /\ ~Remembers(s)
      OBVIOUS
    <3> HIDE DEF s, Good, Remembers
    <3> QED
      BY <3>1, <3>2
  <2>3. CASE m \notin {"stop", "start"}
    <3> DEFINE s == <<"open", "lock", "set", "register", "sync", "set", "unlock">>
    <3>1. Script("mode_set", m) = s
      BY <2>3, Zenon DEF Script, SetScript
    <3>2. Good(s) /\ ~Remembers(s)
      OBVIOUS
    <3> HIDE DEF s, Good, Remembers
    <3> QED
      BY <3>1, <3>2
  <2> QED
    BY <2>1, <2>2, <2>3
<1>14. Quiet(Script("mode_set", "stop")) /\ StopsFirst(Script("mode_set", "stop"))
  BY DEF Script, SetScript, Quiet, QuietSteps, StopsFirst
<1>15. Good(Script(o, m)) /\ (o # "start_projects" => ~Remembers(Script(o, m)))
  <2> HIDE DEF Good, Remembers
  <2> QED
    BY <1>1, <1>2, <1>3, <1>4, <1>5, <1>6, <1>7, <1>8, <1>9, <1>10, <1>11,
       <1>12, <1>13 DEF Ops
<1>16. o = "mode_set" /\ m = "stop" => Quiet(Script(o, m)) /\ StopsFirst(Script(o, m))
  BY <1>14, Zenon
<1> QED
  BY <1>15, <1>16

LEMMA TailSteps ==
  ASSUME NEW s \in Seq(Steps), s # <<>>, WellFormed(s)
  PROVE  /\ Tail(s) \in Seq(Steps)
         /\ Head(s) \in Steps
         /\ WellFormed(Tail(s))
         /\ Head(s) \in Entering => Unlocks(Tail(s)) /\ ~Has(Tail(s), Head(s))
         /\ Head(s) = "unlock" => Sheltered(Tail(s)) /\ Opens(Tail(s)) /\ StopsFirst(Tail(s))
         /\ Sheltered(s) => /\ Head(s) \notin Guarded
                            /\ Head(s) # "lock" => Sheltered(Tail(s))
         /\ Opens(s) => Head(s) # "lock" /\ (Head(s) # "open" => Opens(Tail(s)))
         /\ Head(s) # "unlock" /\ Unlocks(s) => Unlocks(Tail(s))
         /\ Has(s, Head(s)) /\ \A x : ~Has(s, x) => ~Has(Tail(s), x)
         /\ Quiet(s) => Quiet(Tail(s)) /\ Head(s) \in QuietSteps
         /\ StopsFirst(s) => /\ Head(s) # "unlock"
                             /\ Head(s) # "stop" => StopsFirst(Tail(s))
         /\ ~Remembers(s) => ~Remembers(Tail(s)) /\ Head(s) # "previous"
         /\ Head(s) = "auto" => Tail(s) # <<>> /\ Head(Tail(s)) = "start"
<1> DEFINE t == Tail(s)
<1>1. /\ t \in Seq(Steps) /\ Len(s) \in Nat \ {0} /\ Len(t) = Len(s) - 1
      /\ Head(s) = s[1] /\ Head(s) \in Steps
      /\ \A i \in 1..Len(t) : t[i] = s[i + 1]
  BY TailIndex, HeadTailProperties
<1>2. \A i \in 2..Len(s) : i - 1 \in 1..Len(t) /\ t[i - 1] = s[i]
  BY <1>1
<1> HIDE DEF t
<1>3. WellFormed(t)
  <2>1. \A i, j \in 1..Len(t) : t[i] = "unlock" /\ i < j => t[j] \notin Guarded \cup {"lock"}
    BY <1>1 DEF WellFormed
  <2>2. ASSUME NEW i \in 1..Len(t), t[i] \in Entering
        PROVE  \E j \in (i + 1)..Len(t) : t[j] = "unlock"
    <3>1. PICK j \in (i + 2)..Len(s) : s[j] = "unlock"
      BY <1>1, <2>2 DEF WellFormed
    <3> QED
      BY <1>1, <1>2, <3>1
  <2>3. \A i, j \in 1..Len(t) : t[i] \in Entering /\ i < j => t[j] # t[i]
    BY <1>1 DEF WellFormed
  <2>4. \A i \in 1..Len(t) : t[i] = "auto" => i + 1 \in 1..Len(t) /\ t[i + 1] = "start"
    BY <1>1 DEF WellFormed
  <2> QED
    BY <2>1, <2>2, <2>3, <2>4 DEF WellFormed
<1>4. Head(s) \in Entering => Unlocks(t) /\ ~Has(t, Head(s))
  BY <1>1, <1>2 DEF WellFormed, Unlocks, Has
<1>5. Head(s) = "unlock" => Sheltered(t) /\ Opens(t) /\ StopsFirst(t)
  BY <1>1 DEF WellFormed, Sheltered, Opens, StopsFirst, Guarded
<1>6. Sheltered(s) => Head(s) \notin Guarded
  BY <1>1 DEF Sheltered
<1>7. ASSUME Sheltered(s), Head(s) # "lock", NEW i \in 1..Len(t), t[i] \in Guarded
      PROVE  \E j \in 1..(i - 1) : t[j] = "lock"
  <2>1. PICK j \in 1..i : s[j] = "lock"
    BY <1>1, <1>7 DEF Sheltered
  <2>2. j \in 2..Len(s) /\ j - 1 \in 1..(i - 1)
    BY <1>1, <1>7, <2>1
  <2> QED
    BY <1>2, <2>1, <2>2
<1>8. Head(s) # "unlock" /\ Unlocks(s) => Unlocks(t)
  BY <1>1, <1>2 DEF Unlocks, Has
<1>9. Quiet(s) => Quiet(t) /\ Head(s) \in QuietSteps
  BY <1>1 DEF Quiet
<1>10. StopsFirst(s) => Head(s) # "unlock"
  BY <1>1 DEF StopsFirst
<1>11. ASSUME StopsFirst(s), Head(s) # "stop", NEW i \in 1..Len(t), t[i] = "unlock"
       PROVE  \E j \in 1..(i - 1) : t[j] = "stop"
  <2>1. PICK j \in 1..i : s[j] = "stop"
    BY <1>1, <1>11 DEF StopsFirst
  <2>2. j \in 2..Len(s) /\ j - 1 \in 1..(i - 1)
    BY <1>1, <1>11, <2>1
  <2> QED
    BY <1>2, <2>1, <2>2
<1>12. ~Remembers(s) => ~Remembers(t) /\ Head(s) # "previous"
  BY <1>1 DEF Remembers
<1>13. Head(s) = "auto" => t # <<>> /\ Head(t) = "start"
  BY <1>1, TailIndex DEF WellFormed
<1>14. Has(s, Head(s)) /\ \A x : ~Has(s, x) => ~Has(t, x)
  BY <1>1 DEF Has
<1>15. Opens(s) => Head(s) # "lock"
  BY <1>1 DEF Opens
<1>16. ASSUME Opens(s), Head(s) # "open", NEW i \in 1..Len(t), t[i] = "lock"
       PROVE  \E j \in 1..(i - 1) : t[j] = "open"
  <2>1. PICK j \in 1..i : s[j] = "open"
    BY <1>1, <1>16 DEF Opens
  <2>2. j \in 2..Len(s) /\ j - 1 \in 1..(i - 1)
    BY <1>1, <1>16, <2>1
  <2> QED
    BY <1>2, <2>1, <2>2
<1> QED
  BY <1>1, <1>3, <1>4, <1>5, <1>6, <1>7, <1>8, <1>9, <1>10, <1>11, <1>12, <1>13, <1>14,
     <1>15, <1>16
     DEF t, Sheltered, Opens, StopsFirst

LEMMA ReadySteps ==
  ASSUME NEW s \in Seq(Steps), s # <<>>, Head(s) = "start", WellFormed(s)
  PROVE  LET t == <<"ready">> \o Tail(s) IN
         /\ t \in Seq(Steps) /\ t # <<>>
         /\ WellFormed(t)
         /\ Unlocks(s) => Unlocks(t)
         /\ \A x : x # "ready" /\ ~Has(s, x) => ~Has(t, x)
         /\ ~Remembers(s) => ~Remembers(t)
<1> DEFINE t == <<"ready">> \o Tail(s)
<1>1. /\ t \in Seq(Steps) /\ Len(t) = Len(s) /\ Len(s) \in Nat \ {0}
      /\ t[1] = "ready" /\ s[1] = "start"
      /\ \A i \in 2..Len(t) : t[i] = s[i]
  BY ReadyIndex, TailIndex
<1> HIDE DEF t
<1>2. t # <<>>
  BY <1>1
<1>3. WellFormed(t)
  <2>1. \A i, j \in 1..Len(t) : t[i] = "unlock" /\ i < j => t[j] \notin Guarded \cup {"lock"}
    BY <1>1 DEF WellFormed
  <2>2. ASSUME NEW i \in 1..Len(t), t[i] \in Entering
        PROVE  \E j \in (i + 1)..Len(t) : t[j] = "unlock"
    BY <1>1, <2>2 DEF WellFormed, Entering
  <2>3. \A i, j \in 1..Len(t) : t[i] \in Entering /\ i < j => t[j] # t[i]
    BY <1>1 DEF WellFormed, Entering
  <2>4. \A i \in 1..Len(t) : t[i] = "auto" => i + 1 \in 1..Len(t) /\ t[i + 1] = "start"
    BY <1>1 DEF WellFormed
  <2> QED
    BY <2>1, <2>2, <2>3, <2>4 DEF WellFormed
<1> QED
  BY <1>1, <1>2, <1>3 DEF t, Unlocks, Has, Remembers

LEMMA NoSteps ==
  /\ <<>> \in Seq(Steps)
  /\ WellFormed(<<>>) /\ Sheltered(<<>>) /\ Opens(<<>>) /\ Quiet(<<>>) /\ StopsFirst(<<>>)
  /\ ~Remembers(<<>>) /\ \A x : ~Has(<<>>, x)
BY DEF WellFormed, Sheltered, Opens, Quiet, StopsFirst, Remembers, Has

-----------------------------------------------------------------------------
(* The inductive invariant. *)

Holds(a) == a \in inside

(* A snapshot of the registry is held only inside a registration.          *)
RegistrySteps == {"register", "set", "unregister"}
SnapshotHeld ==
  \A a \in Actor : snap[a] # None => todo[a] # <<>> /\ Head(todo[a]) \in RegistrySteps

(* What is left of a handler is the rest of a well-formed script: the lock *)
(* is held wherever the rest needs it, only by who has a file open, and    *)
(* both only by who will give them back and takes neither again.           *)
Scripted == \A a \in Actor : WellFormed(todo[a])
Protected ==
  \A a \in Actor :
    /\ Holds(a) \/ Sheltered(todo[a])
    /\ handle[a] # None \/ Opens(todo[a])
Owed ==
  \A a \in Actor :
    /\ Holds(a) => handle[a] # None /\ ~Has(todo[a], "lock")
    /\ handle[a] # None => Unlocks(todo[a]) /\ ~Has(todo[a], "open")

(* No inode is locked twice, and who meets another one knows.              *)
Flocked == \A a, b \in inside : handle[a] = handle[b] => a = b
Noticed == \A a, b \in inside : a # b /\ On(a) = On(b) => a \in met

BulkRemembers ==
  \A a \in Actor : call[a].op # "start_projects" => ~Remembers(todo[a])

GoesDown ==
  \A a \in Actor : SwitchingOff(a) =>
    /\ Quiet(todo[a])
    /\ StopsFirst(todo[a]) \/ (Holds(a) /\ (a \in met \/ stack[On(a)] = "down"))

IInv == /\ TypeOK /\ SnapshotHeld /\ Scripted /\ Protected /\ Owed /\ Flocked /\ Noticed
        /\ BulkRemembers /\ GoesDown

LEMMA InitInv == Init => IInv
BY NoSteps, LifecycleAssumption
DEF Init, IInv, TypeOK, SnapshotHeld, Scripted, Protected, Owed, Flocked, Noticed,
    BulkRemembers, GoesDown, SwitchingOff, Records, NoRecords, On, Holds

LEMMA RecordsType ==
  ASSUME NEW r \in Records, NEW p \in Project, NEW m \in Mode \cup {NoMode}
  PROVE  Registered(r, p, m) \in Records /\ Unregistered(r, {p}) \in Records
BY DEF Records, Registered, Unregistered, ModeIn, Mode

LEMMA CutType ==
  ASSUME TypeOK, NEW S \in SUBSET Actor
  PROVE  CutOff(S) \in SUBSET Project
BY DEF TypeOK, CutOff, On

(* Leaving a handler by an exception keeps the invariant. *)
LEMMA RaiseInv ==
  ASSUME IInv, NEW a \in Actor, Raise(a),
         registry' = registry, call' = call, met' = met,
         dir' \in [Project -> BOOLEAN], cut' \in SUBSET Project,
         lockFile' \in [Project -> Inode \cup {None}],
         stack' = stack \/ stack' = [stack EXCEPT ![On(a)] = "down"]
  PROVE  IInv'
<1>1. TypeOK'
  BY NoSteps DEF IInv, TypeOK, Raise, Go, On
<1>2. SnapshotHeld'
  BY DEF IInv, TypeOK, Raise, Go, SnapshotHeld
<1>3. Scripted'
  BY NoSteps DEF IInv, TypeOK, Raise, Go, Scripted
<1>4. Protected' /\ Owed'
  BY NoSteps DEF IInv, TypeOK, Raise, Go, Protected, Owed, Holds
<1>5. Flocked' /\ Noticed'
  BY DEF IInv, TypeOK, Raise, Flocked, Noticed, On
<1>6. BulkRemembers'
  BY NoSteps DEF IInv, TypeOK, Raise, Go, BulkRemembers
<1>7. GoesDown'
  BY NoSteps DEF IInv, TypeOK, Raise, Go, GoesDown, SwitchingOff, Holds, On
<1> QED
  BY <1>1, <1>2, <1>3, <1>4, <1>5, <1>6, <1>7 DEF IInv

(* So does a step that neither takes nor releases the lock and launches    *)
(* nothing, provided it stops the stack where it is to.                    *)
LEMMA ProceedInv ==
  ASSUME IInv, NEW a \in Actor, ~Idle(a), Proceed(a),
         Head(todo[a]) \notin {"open", "lock", "unlock"},
         registry' \in Records, dir' \in [Project -> BOOLEAN], cut' \in SUBSET Project,
         lockFile' \in [Project -> Inode \cup {None}],
         handle' = handle, inside' = inside, met' = met, call' = call,
         snap' = [snap EXCEPT ![a] = None] \/ (snap' = snap /\ Head(todo[a]) \notin RegistrySteps),
         \/ stack' = stack /\ Head(todo[a]) # "stop"
         \/ Holds(a) /\ stack' = [stack EXCEPT ![On(a)] = "down"]
  PROVE  IInv'
<1>1. TypeOK'
  BY TailSteps DEF IInv, TypeOK, Proceed, Go, Idle, Scripted, On
<1>2. SnapshotHeld'
  BY TailSteps DEF IInv, TypeOK, Proceed, Go, Idle, SnapshotHeld
<1>3. Scripted'
  BY TailSteps DEF IInv, TypeOK, Proceed, Go, Idle, Scripted
<1>4. Protected' /\ Owed'
  BY TailSteps DEF IInv, TypeOK, Proceed, Go, Idle, Scripted, Protected, Owed, Holds
<1>5. Flocked' /\ Noticed'
  BY DEF IInv, Flocked, Noticed, On
<1>6. BulkRemembers'
  BY TailSteps DEF IInv, TypeOK, Proceed, Go, Idle, Scripted, BulkRemembers
<1>7. GoesDown'
  BY TailSteps
  DEF IInv, TypeOK, Proceed, Go, Idle, Scripted, GoesDown, SwitchingOff, Holds, On
<1> QED
  BY <1>1, <1>2, <1>3, <1>4, <1>5, <1>6, <1>7 DEF IInv

(* A step that the lock must cover is taken inside. *)
LEMMA GuardedInside ==
  ASSUME IInv, NEW a \in Actor, ~Idle(a), Head(todo[a]) \in Guarded
  PROVE  Holds(a)
BY TailSteps DEF Idle, IInv, TypeOK, Scripted, Protected

(* Whoever is about to open or lock the file has not done so. *)
LEMMA NotInsideYet ==
  ASSUME IInv, NEW a \in Actor, ~Idle(a), Head(todo[a]) \in Entering
  PROVE  /\ ~Holds(a)
         /\ Head(todo[a]) = "open" => handle[a] = None
         /\ Head(todo[a]) = "lock" => handle[a] # None
BY TailSteps DEF Idle, IInv, TypeOK, Scripted, Protected, Owed, Entering

LEMMA StepInv == IInv /\ [Next]_vars => IInv'
<1> SUFFICES ASSUME IInv, [Next]_vars PROVE IInv'
  OBVIOUS
<1> USE LifecycleAssumption
<1>1. ASSUME NEW a \in Actor, NEW o \in Op, NEW p \in Project,
             NEW m \in Mode \cup {NoMode}, Call(a, o, p, m)
      PROVE  IInv'
  <2> DEFINE s == Script(o, m)
  <2>1. /\ s \in Seq(Steps) /\ WellFormed(s) /\ Sheltered(s) /\ Opens(s)
        /\ o # "start_projects" => ~Remembers(s)
        /\ o = "mode_set" /\ m = "stop" => Quiet(s) /\ StopsFirst(s)
    BY Handlers
  <2>2. /\ todo[a] = <<>> /\ todo' = [todo EXCEPT ![a] = s]
        /\ call' = [call EXCEPT ![a] = [op |-> o, project |-> p, mode |-> m]]
        /\ UNCHANGED <<registry, dir, stack, lockFile, handle, inside, snap, met, cut>>
    BY <1>1 DEF Call, Idle, Go
  <2> HIDE DEF s
  <2>3. handle[a] = None /\ ~Holds(a)
    BY <2>2, NoSteps DEF IInv, Owed, Unlocks
  <2>4. TypeOK'
    BY <2>1, <2>2 DEF IInv, TypeOK
  <2>5. SnapshotHeld' /\ Scripted'
    BY <2>1, <2>2 DEF IInv, TypeOK, SnapshotHeld, Scripted
  <2>6. Protected' /\ Owed'
    BY <2>1, <2>2, <2>3 DEF IInv, TypeOK, Protected, Owed, Holds
  <2>7. Flocked' /\ Noticed'
    BY <2>2, <2>3 DEF IInv, TypeOK, Flocked, Noticed, Holds, On
  <2>8. BulkRemembers' /\ GoesDown'
    BY <2>1, <2>2 DEF IInv, TypeOK, BulkRemembers, GoesDown, SwitchingOff, Holds, On
  <2> QED
    BY <2>4, <2>5, <2>6, <2>7, <2>8 DEF IInv
<1>2. ASSUME NEW a \in Actor, Open(a) PROVE IInv'
  <2>1. /\ ~Idle(a) /\ Head(todo[a]) = "open" /\ todo' = [todo EXCEPT ![a] = Tail(todo[a])]
        /\ dir' = [dir EXCEPT ![On(a)] = TRUE]
        /\ handle' = [handle EXCEPT ![a] = lockFile'[On(a)]]
        /\ UNCHANGED <<registry, stack, inside, call, snap, met, cut>>
    BY <1>2 DEF Open, At, Proceed, Go
  <2>2. ~Holds(a) /\ handle[a] = None
    BY <2>1, NotInsideYet DEF Entering
  <2>3. On(a) \in Project
    BY DEF IInv, TypeOK, On
  <2>4. lockFile' \in [Project -> Inode \cup {None}] /\ lockFile'[On(a)] \in Inode
    BY <1>2, <2>3 DEF Open, IInv, TypeOK
  <2>5. /\ Tail(todo[a]) \in Seq(Steps) /\ WellFormed(Tail(todo[a]))
        /\ Unlocks(Tail(todo[a])) /\ ~Has(Tail(todo[a]), "open")
        /\ Sheltered(todo[a]) => Sheltered(Tail(todo[a]))
        /\ ~Remembers(todo[a]) => ~Remembers(Tail(todo[a]))
        /\ Quiet(todo[a]) => Quiet(Tail(todo[a]))
        /\ StopsFirst(todo[a]) => StopsFirst(Tail(todo[a]))
    BY <2>1, TailSteps DEF Idle, IInv, TypeOK, Scripted, Entering
  <2>6. TypeOK' /\ SnapshotHeld' /\ Scripted'
    BY <2>1, <2>3, <2>4, <2>5 DEF IInv, TypeOK, SnapshotHeld, Scripted, RegistrySteps
  <2>7. Protected' /\ Owed'
    BY <2>1, <2>2, <2>4, <2>5 DEF IInv, TypeOK, Protected, Owed, Holds
  <2>8. Flocked' /\ Noticed'
    BY <2>1, <2>2 DEF IInv, TypeOK, Flocked, Noticed, Holds, On
  <2>9. BulkRemembers' /\ GoesDown'
    BY <2>1, <2>5 DEF IInv, TypeOK, BulkRemembers, GoesDown, SwitchingOff, Holds, On
  <2> QED
    BY <2>6, <2>7, <2>8, <2>9 DEF IInv
<1>3. ASSUME NEW a \in Actor, OpenFails(a) PROVE IInv'
  BY <1>3, RaiseInv DEF OpenFails, IInv, TypeOK
<1>4. ASSUME NEW a \in Actor, Lock(a) PROVE IInv'
  <2>1. /\ ~Idle(a) /\ Head(todo[a]) = "lock" /\ todo' = [todo EXCEPT ![a] = Tail(todo[a])]
        /\ inside' = inside \cup {a}
        /\ met' = IF Others(a) = {} THEN met \ {a} ELSE met \cup {a} \cup Others(a)
        /\ \A b \in inside : handle[b] # handle[a]
        /\ UNCHANGED <<registry, dir, stack, lockFile, handle, call, snap, cut>>
    BY <1>4 DEF Lock, At, Proceed, Go
  <2>2. ~Holds(a) /\ handle[a] # None
    BY <2>1, NotInsideYet DEF Entering
  <2>3. Others(a) \in SUBSET Actor /\ \A b \in inside : On(b) = On(a) => b \in Others(a)
    BY <2>2 DEF Others, IInv, TypeOK, Holds
  <2>4. /\ Tail(todo[a]) \in Seq(Steps) /\ WellFormed(Tail(todo[a]))
        /\ ~Has(Tail(todo[a]), "lock")
        /\ Unlocks(todo[a]) => Unlocks(Tail(todo[a]))
        /\ ~Has(todo[a], "open") => ~Has(Tail(todo[a]), "open")
        /\ ~Remembers(todo[a]) => ~Remembers(Tail(todo[a]))
        /\ Quiet(todo[a]) => Quiet(Tail(todo[a]))
        /\ StopsFirst(todo[a]) => StopsFirst(Tail(todo[a]))
    BY <2>1, TailSteps DEF Idle, IInv, TypeOK, Scripted, Entering
  <2>5. met' \in SUBSET Actor
    BY <2>1, <2>3 DEF IInv, TypeOK
  <2>6. TypeOK' /\ SnapshotHeld' /\ Scripted'
    BY <2>1, <2>4, <2>5 DEF IInv, TypeOK, SnapshotHeld, Scripted, RegistrySteps
  <2>7. Protected' /\ Owed'
    BY <2>1, <2>2, <2>4 DEF IInv, TypeOK, Protected, Owed, Holds
  <2>8. Flocked'
    BY <2>1 DEF IInv, Flocked
  <2>9. Noticed'
    BY <2>1, <2>2, <2>3 DEF IInv, TypeOK, Noticed, Holds, On
  <2>10. BulkRemembers'
    BY <2>1, <2>4 DEF IInv, TypeOK, BulkRemembers
  <2>11. GoesDown'
    BY <2>1, <2>2, <2>4 DEF IInv, TypeOK, GoesDown, SwitchingOff, Holds, On
  <2> QED
    BY <2>6, <2>7, <2>8, <2>9, <2>10, <2>11 DEF IInv
<1>5. ASSUME NEW a \in Actor, Locked(a) PROVE IInv'
  BY <1>5, RaiseInv DEF Locked, IInv, TypeOK
<1>6. ASSUME NEW a \in Actor, Unlock(a) PROVE IInv'
  <2>1. /\ ~Idle(a) /\ Head(todo[a]) = "unlock" /\ todo' = [todo EXCEPT ![a] = Tail(todo[a])]
        /\ inside' = inside \ {a} /\ handle' = [handle EXCEPT ![a] = None]
        /\ UNCHANGED <<registry, dir, stack, lockFile, call, snap, met, cut>>
    BY <1>6 DEF Unlock, At, Proceed, Go
  <2>2. /\ Tail(todo[a]) \in Seq(Steps) /\ WellFormed(Tail(todo[a]))
        /\ Sheltered(Tail(todo[a])) /\ Opens(Tail(todo[a])) /\ StopsFirst(Tail(todo[a]))
        /\ ~Remembers(todo[a]) => ~Remembers(Tail(todo[a]))
        /\ Quiet(todo[a]) => Quiet(Tail(todo[a]))
    BY <2>1, TailSteps DEF Idle, IInv, TypeOK, Scripted
  <2>3. TypeOK' /\ SnapshotHeld' /\ Scripted'
    BY <2>1, <2>2 DEF IInv, TypeOK, SnapshotHeld, Scripted, RegistrySteps
  <2>4. Protected' /\ Owed'
    BY <2>1, <2>2 DEF IInv, TypeOK, Protected, Owed, Holds
  <2>5. Flocked' /\ Noticed'
    BY <2>1 DEF IInv, TypeOK, Flocked, Noticed, On
  <2>6. BulkRemembers' /\ GoesDown'
    BY <2>1, <2>2 DEF IInv, TypeOK, BulkRemembers, GoesDown, SwitchingOff, Holds, On
  <2> QED
    BY <2>3, <2>4, <2>5, <2>6 DEF IInv
<1>7. ASSUME NEW a \in Actor, ReadRegistry(a) PROVE IInv'
  BY <1>7
  DEF ReadRegistry, At, Idle, IInv, TypeOK, SnapshotHeld, RegistrySteps, Scripted, Protected,
      Owed, Flocked, Noticed, Holds, On, BulkRemembers, GoesDown, SwitchingOff
<1>8. ASSUME NEW a \in Actor, WriteRegistry(a) PROVE IInv'
  <2>1. snap[a] \in Records /\ ~Idle(a) /\ Head(todo[a]) \in RegistrySteps
    BY <1>8 DEF WriteRegistry, IInv, TypeOK, SnapshotHeld, Idle
  <2>2. registry' \in Records
    <3>1. On(a) \in Project /\ call[a].mode \in Mode \cup {NoMode}
      BY DEF IInv, TypeOK, On
    <3>2. \/ registry' = Registered(snap[a], On(a), NoMode)
          \/ registry' = Registered(snap[a], On(a), call[a].mode)
          \/ registry' = Unregistered(snap[a], {On(a)})
      BY <1>8 DEF WriteRegistry
    <3> QED
      BY <2>1, <3>1, <3>2, RecordsType
  <2>3. /\ Proceed(a) /\ UNCHANGED <<dir, stack, lockFile, handle, inside, call, met, cut>>
        /\ snap' = [snap EXCEPT ![a] = None]
    BY <1>8 DEF WriteRegistry
  <2>4. Head(todo[a]) \notin {"open", "lock", "unlock", "stop"}
    BY <2>1 DEF RegistrySteps
  <2>5. /\ dir' \in [Project -> BOOLEAN] /\ cut' \in SUBSET Project
        /\ lockFile' \in [Project -> Inode \cup {None}]
    BY <2>3 DEF IInv, TypeOK
  <2> QED
    BY <2>1, <2>2, <2>3, <2>4, <2>5, ProceedInv
<1>9. ASSUME NEW a \in Actor, WriteFails(a) PROVE IInv'
  <2>1. {a} \in SUBSET Actor /\ cut' = CutOff({a})
    BY <1>9 DEF WriteFails
  <2>2. cut' \in SUBSET Project
    BY <2>1, CutType DEF IInv
  <2> QED
    BY <1>9, <2>2, RaiseInv DEF WriteFails, IInv, TypeOK
<1>10. ASSUME NEW a \in Actor, SyncIngress(a) PROVE IInv'
  <2>1. CASE Proceed(a) /\ UNCHANGED <<handle, inside, snap, cut>>
    BY <1>10, <2>1, ProceedInv DEF SyncIngress, At, RegistrySteps, IInv, TypeOK
  <2>2. CASE Raise(a) /\ cut' = CutOff({a})
    <3>1. {a} \in SUBSET Actor
      OBVIOUS
    <3>2. cut' \in SUBSET Project
      BY <2>2, <3>1, CutType DEF IInv
    <3> QED
      BY <1>10, <2>2, <3>2, RaiseInv DEF SyncIngress, IInv, TypeOK
  <2> QED
    BY <1>10, <2>1, <2>2 DEF SyncIngress
<1>11. ASSUME NEW a \in Actor, CheckKnown(a) PROVE IInv'
  <2>1. CASE Proceed(a) /\ UNCHANGED <<handle, inside, snap>>
    BY <1>11, <2>1, ProceedInv DEF CheckKnown, At, RegistrySteps, IInv, TypeOK
  <2>2. CASE Raise(a)
    BY <1>11, <2>2, RaiseInv DEF CheckKnown, IInv, TypeOK
  <2> QED
    BY <1>11, <2>1, <2>2 DEF CheckKnown
<1>12. ASSUME NEW a \in Actor, RememberMode(a) PROVE IInv'
  <2> DEFINE c == [call EXCEPT ![a].mode =
                     IF ModeIn(registry, On(a)) = "stop" THEN "start" ELSE NoMode]
  <2>1. /\ ~Idle(a) /\ Head(todo[a]) = "previous"
        /\ todo' = [todo EXCEPT ![a] = Tail(todo[a])]
        /\ call' = c
        /\ UNCHANGED <<registry, dir, stack, lockFile, handle, inside, snap, met, cut>>
    BY <1>12 DEF RememberMode, At, Proceed, Go
  <2>2. call[a].op = "start_projects"
    BY <2>1, TailSteps DEF Idle, IInv, TypeOK, Scripted, BulkRemembers
  <2>3. c \in [Actor -> [op : Ops, project : Project, mode : Mode \cup {NoMode}]]
        /\ c[a].op = "start_projects" /\ c[a].project = call[a].project
        /\ \A b \in Actor \ {a} : c[b] = call[b]
    BY <2>2, ZenonT(60) DEF IInv, TypeOK, Mode
  <2> HIDE DEF c
  <2>4. /\ Tail(todo[a]) \in Seq(Steps) /\ WellFormed(Tail(todo[a]))
        /\ Unlocks(todo[a]) => Unlocks(Tail(todo[a]))
        /\ \A x : ~Has(todo[a], x) => ~Has(Tail(todo[a]), x)
        /\ Sheltered(todo[a]) => Sheltered(Tail(todo[a]))
        /\ Opens(todo[a]) => Opens(Tail(todo[a]))
    BY <2>1, TailSteps DEF Idle, IInv, TypeOK, Scripted
  <2>5. TypeOK' /\ SnapshotHeld' /\ Scripted'
    BY <2>1, <2>3, <2>4 DEF IInv, TypeOK, SnapshotHeld, Scripted, RegistrySteps
  <2>6. Protected' /\ Owed'
    BY <2>1, <2>4 DEF IInv, TypeOK, Protected, Owed, Holds
  <2>7. \A b \in Actor : On(b)' = On(b)
    BY <2>1, <2>3 DEF On
  <2>8. Flocked' /\ Noticed'
    BY <2>1, <2>7 DEF IInv, TypeOK, Flocked, Noticed
  <2>9. BulkRemembers' /\ GoesDown'
    BY <2>1, <2>2, <2>3, <2>7
    DEF IInv, TypeOK, BulkRemembers, GoesDown, SwitchingOff, Holds
  <2> QED
    BY <2>5, <2>6, <2>8, <2>9 DEF IInv
<1>13. ASSUME NEW a \in Actor, CheckStopped(a) PROVE IInv'
  <2>1. CASE Proceed(a) /\ UNCHANGED <<handle, inside, snap>>
    BY <1>13, <2>1, ProceedInv DEF CheckStopped, At, RegistrySteps, IInv, TypeOK
  <2>2. CASE Raise(a)
    BY <1>13, <2>2, RaiseInv DEF CheckStopped, IInv, TypeOK
  <2> QED
    BY <1>13, <2>1, <2>2 DEF CheckStopped
<1>14. ASSUME NEW a \in Actor, CheckActive(a) PROVE IInv'
  <2>1. CASE Proceed(a) /\ UNCHANGED <<handle, inside, snap>>
    BY <1>14, <2>1, ProceedInv DEF CheckActive, At, RegistrySteps, IInv, TypeOK
  <2>2. CASE Raise(a)
    BY <1>14, <2>2, RaiseInv DEF CheckActive, IInv, TypeOK
  <2> QED
    BY <1>14, <2>1, <2>2 DEF CheckActive
<1>15. ASSUME NEW a \in Actor, AutoStart(a) PROVE IInv'
  <2>1. CASE todo' = [todo EXCEPT ![a] = Tail(todo[a])]
    BY <1>15, <2>1, ProceedInv
    DEF AutoStart, At, Proceed, Go, RegistrySteps, IInv, TypeOK
  <2>2. CASE todo' = [todo EXCEPT ![a] = Tail(Tail(todo[a]))]
    <3> DEFINE s == Tail(todo[a])
    <3>1. /\ s \in Seq(Steps) /\ s # <<>> /\ WellFormed(s) /\ Head(s) = "start"
          /\ Unlocks(todo[a]) => Unlocks(s)
          /\ \A x : ~Has(todo[a], x) => ~Has(s, x)
          /\ ~Remembers(todo[a]) => ~Remembers(s)
          /\ Holds(a) /\ ~SwitchingOff(a)
      BY <1>15, TailSteps
      DEF AutoStart, At, Idle, IInv, TypeOK, Scripted, Protected, GoesDown, Guarded, QuietSteps
    <3> DEFINE t == Tail(s)
    <3> HIDE DEF s
    <3>2. /\ t \in Seq(Steps) /\ WellFormed(t)
          /\ Unlocks(todo[a]) => Unlocks(t)
          /\ \A x : ~Has(todo[a], x) => ~Has(t, x)
          /\ ~Remembers(todo[a]) => ~Remembers(t)
      BY <3>1, TailSteps
    <3>3. /\ todo' = [todo EXCEPT ![a] = t] /\ snap[a] = None
          /\ UNCHANGED <<registry, dir, stack, lockFile, handle, inside, call, snap, met, cut>>
      BY <1>15, <2>2 DEF AutoStart, At, IInv, SnapshotHeld, RegistrySteps, s
    <3> HIDE DEF t
    <3>4. TypeOK' /\ SnapshotHeld' /\ Scripted' /\ Flocked' /\ Noticed'
      BY <3>2, <3>3 DEF IInv, TypeOK, SnapshotHeld, Scripted, Flocked, Noticed, On
    <3>5. Protected' /\ Owed'
      BY <3>1, <3>2, <3>3 DEF IInv, TypeOK, Protected, Owed, Holds
    <3>6. BulkRemembers' /\ GoesDown'
      BY <3>1, <3>2, <3>3
      DEF IInv, TypeOK, BulkRemembers, GoesDown, SwitchingOff, Holds, On
    <3> QED
      BY <3>4, <3>5, <3>6 DEF IInv
  <2> QED
    BY <1>15, <2>1, <2>2 DEF AutoStart, Go
<1>16. ASSUME NEW a \in Actor, AlreadyUp(a) PROVE IInv'
  BY <1>16, ProceedInv DEF AlreadyUp, At, RegistrySteps, IInv, TypeOK
<1>17. ASSUME NEW a \in Actor, Launch(a) PROVE IInv'
  <2> DEFINE s == <<"ready">> \o Tail(todo[a])
  <2>1. Holds(a) /\ ~SwitchingOff(a)
    BY <1>17, TailSteps, GuardedInside
    DEF Launch, At, Idle, IInv, TypeOK, Scripted, GoesDown, Guarded, QuietSteps
  <2>2. /\ s \in Seq(Steps) /\ s # <<>> /\ WellFormed(s)
        /\ Unlocks(todo[a]) => Unlocks(s)
        /\ \A x : x # "ready" /\ ~Has(todo[a], x) => ~Has(s, x)
        /\ ~Remembers(todo[a]) => ~Remembers(s)
    BY <1>17, ReadySteps DEF Launch, At, Idle, IInv, TypeOK, Scripted
  <2>3. /\ todo' = [todo EXCEPT ![a] = s] /\ snap[a] = None
        /\ stack' = [stack EXCEPT ![On(a)] = "starting"]
        /\ dir' = [dir EXCEPT ![On(a)] = TRUE]
        /\ UNCHANGED <<registry, lockFile, handle, inside, call, snap, met, cut>>
    BY <1>17 DEF Launch, At, Go, IInv, SnapshotHeld, RegistrySteps
  <2> HIDE DEF s
  <2>4. TypeOK' /\ SnapshotHeld' /\ Scripted' /\ Flocked' /\ Noticed'
    BY <2>2, <2>3 DEF IInv, TypeOK, SnapshotHeld, Scripted, Flocked, Noticed, On
  <2>5. Protected' /\ Owed' /\ BulkRemembers'
    BY <2>1, <2>2, <2>3 DEF IInv, TypeOK, Protected, Owed, Holds, BulkRemembers
  <2>6. GoesDown'
    <3>1. \A b \in Actor : SwitchingOff(b) /\ Holds(b) /\ On(b) = On(a) => b \in met
      BY <2>1 DEF IInv, Noticed, Holds
    <3> QED
      BY <2>1, <2>3, <3>1 DEF IInv, TypeOK, GoesDown, SwitchingOff, Holds, On
  <2> QED
    BY <2>4, <2>5, <2>6 DEF IInv
<1>18. ASSUME NEW a \in Actor, LaunchFails(a) PROVE IInv'
  BY <1>18, RaiseInv DEF LaunchFails, IInv, TypeOK
<1>19. ASSUME NEW a \in Actor, Ready(a) PROVE IInv'
  BY <1>19, ProceedInv DEF Ready, At, RegistrySteps, IInv, TypeOK
<1>20. ASSUME NEW a \in Actor, ReadyTimesOut(a) PROVE IInv'
  BY <1>20, RaiseInv DEF ReadyTimesOut, IInv, TypeOK
<1>21. ASSUME NEW a \in Actor, StopStack(a) PROVE IInv'
  <2>1. Holds(a)
    BY <1>21, GuardedInside DEF StopStack, At, Guarded
  <2>2. cut' \in SUBSET Project
    BY <1>21 DEF StopStack, IInv, TypeOK
  <2>3. CASE Proceed(a) /\ UNCHANGED <<handle, inside, snap>>
    BY <1>21, <2>1, <2>2, <2>3, ProceedInv DEF StopStack, At, RegistrySteps, IInv, TypeOK
  <2>4. CASE Raise(a)
    BY <1>21, <2>2, <2>4, RaiseInv DEF StopStack, IInv, TypeOK
  <2> QED
    BY <1>21, <2>3, <2>4 DEF StopStack
<1>22. ASSUME NEW a \in Actor, PurgeStack(a) PROVE IInv'
  <2>1. Holds(a)
    BY <1>22, GuardedInside DEF PurgeStack, At, Guarded
  <2>2. /\ dir' \in [Project -> BOOLEAN] /\ cut' \in SUBSET Project
        /\ lockFile' \in [Project -> Inode \cup {None}]
    BY <1>22 DEF PurgeStack, IInv, TypeOK
  <2>3. CASE Proceed(a) /\ UNCHANGED <<handle, inside, snap>>
    BY <1>22, <2>1, <2>2, <2>3, ProceedInv DEF PurgeStack, At, RegistrySteps, IInv, TypeOK
  <2>4. CASE Raise(a)
    BY <1>22, <2>2, <2>4, RaiseInv DEF PurgeStack, IInv, TypeOK
  <2> QED
    BY <1>22, <2>3, <2>4 DEF PurgeStack
<1>23. ASSUME NEW a \in Actor, Run(a) PROVE IInv'
  <2>1. CASE Proceed(a) /\ UNCHANGED <<handle, inside, snap>>
    BY <1>23, <2>1, ProceedInv DEF Run, At, RegistrySteps, IInv, TypeOK
  <2>2. CASE Raise(a)
    BY <1>23, <2>2, RaiseInv DEF Run, IInv, TypeOK
  <2> QED
    BY <1>23, <2>1, <2>2 DEF Run
<1>24. ASSUME NEW a \in Crasher, Crash(a) PROVE IInv'
  <2> DEFINE D == IF a \in Thread THEN Thread ELSE {a}
  <2>1. D \in SUBSET Actor
    OBVIOUS
  <2>2. /\ todo' = [b \in Actor |-> IF b \in D THEN <<>> ELSE todo[b]]
        /\ handle' = [b \in Actor |-> IF b \in D THEN None ELSE handle[b]]
        /\ inside' = inside \ D
        /\ snap' = [b \in Actor |-> IF b \in D THEN None ELSE snap[b]]
        /\ cut' = CutOff(D)
        /\ UNCHANGED <<registry, dir, stack, lockFile, call, met>>
    BY <1>24 DEF Crash
  <2> HIDE DEF D
  <2>3. cut' \in SUBSET Project
    BY <2>1, <2>2, CutType DEF IInv
  <2>4. TypeOK' /\ SnapshotHeld' /\ Scripted'
    BY <2>1, <2>2, <2>3, NoSteps DEF IInv, TypeOK, SnapshotHeld, Scripted
  <2>5. Protected' /\ Owed' /\ BulkRemembers'
    BY <2>1, <2>2, NoSteps DEF IInv, TypeOK, Protected, Owed, Holds, BulkRemembers
  <2>6. Flocked' /\ Noticed'
    BY <2>1, <2>2 DEF IInv, TypeOK, Flocked, Noticed, On
  <2>7. GoesDown'
    BY <2>1, <2>2, NoSteps DEF IInv, TypeOK, GoesDown, SwitchingOff, Holds, On
  <2> QED
    BY <2>4, <2>5, <2>6, <2>7 DEF IInv
<1>25. ASSUME NEW p \in Project, BecomeHealthy(p) \/ StackDies(p) PROVE IInv'
  <2>1. /\ UNCHANGED <<registry, dir, lockFile, handle, inside, call, todo, snap, met, cut>>
        /\ stack' \in [Project -> {"down", "starting", "healthy"}]
        /\ \A q \in Project : stack[q] = "down" => stack'[q] = "down"
    BY <1>25 DEF BecomeHealthy, StackDies, IInv, TypeOK
  <2> QED
    BY <2>1
    DEF IInv, TypeOK, SnapshotHeld, Scripted, Protected, Owed, Flocked, Noticed,
        Holds, On, BulkRemembers, GoesDown, SwitchingOff
<1>26. CASE UNCHANGED vars
  BY <1>26
  DEF vars, IInv, TypeOK, SnapshotHeld, Scripted, Protected, Owed, Flocked, Noticed, Holds, On,
      BulkRemembers, GoesDown, SwitchingOff
<1> QED
  BY <1>1, <1>2, <1>3, <1>4, <1>5, <1>6, <1>7, <1>8, <1>9, <1>10, <1>11, <1>12, <1>13,
     <1>14, <1>15, <1>16, <1>17, <1>18, <1>19, <1>20, <1>21, <1>22, <1>23, <1>24, <1>25, <1>26
  DEF Next, Advance

(* The invariant holds in every behaviour of the handlers. *)
THEOREM Invariant == Spec => []IInv
<1>1. Init => IInv
  BY InitInv
<1>2. IInv /\ [Next]_vars => IInv'
  BY StepInv
<1> QED
  BY <1>1, <1>2, PTL DEF Spec

(* Type correctness of the handlers and of what they change                *)
(* (daemon.py:268-2156).                                                   *)
THEOREM TypeCorrect == Spec => []TypeOK
<1>1. IInv => TypeOK
  BY DEF IInv
<1> QED
  BY <1>1, Invariant, PTL

(* project_mode_set(stop) returns only with the stack down, whichever      *)
(* handlers, crashes and failed starts came before it or run beside it     *)
(* (daemon.py:577-579), as long as no purge has unlinked the lock file and *)
(* so let another handler into the project with it (supervisor.py:1842).   *)
THEOREM SwitchesOff == Spec => StopSwitchesOff
<1> DEFINE A == \A a \in Actor :
              Unlock(a) /\ SwitchingOff(a) /\ a \notin met => stack[On(a)] = "down"
<1>1. IInv => A
  <2> SUFFICES ASSUME IInv, NEW a \in Actor, Unlock(a), SwitchingOff(a), a \notin met
               PROVE  stack[On(a)] = "down"
    OBVIOUS
  <2> QED
    BY TailSteps DEF Unlock, At, Idle, IInv, TypeOK, Scripted, GoesDown
<1>2. IInv /\ [Next]_vars => [A]_vars
  BY <1>1
<1> HIDE DEF A
<1>3. Spec => [][A]_vars
  BY <1>2, Invariant, PTL DEF Spec
<1> QED
  BY <1>3 DEF A, StopSwitchesOff

-----------------------------------------------------------------------------
(* What a step does to the handlers, whichever step it is. *)

Stays(a) == /\ todo'[a] = todo[a] /\ call'[a] = call[a] /\ snap'[a] = snap[a]
            /\ Holds(a)' <=> Holds(a)

(* It leaves by an error or dies; a switch-off that ends before its stop   *)
(* is remembered.                                                          *)
Quits(a) ==
  /\ todo'[a] = <<>> /\ call'[a] = call[a] /\ ~Holds(a)'
  /\ Holds(a) /\ SwitchingOff(a) /\ Has(todo[a], "stop") =>
       stack'[On(a)] = "down" \/ On(a) \in cut'

(* No stack comes up, and a switch-off that was cut stays remembered until *)
(* the stack is stopped.                                                   *)
StackFalls == \A p \in Project : stack[p] = "down" => stack'[p] = "down"
CutKept == \A p \in cut : p \in cut' \/ stack'[p] = "down"

(* The actor goes on, in the same call and with the registry as it is. *)
Ahead(a) == todo[a] # <<>> /\ call'[a] = call[a] /\ registry' = registry

Begins(a) ==
  /\ todo[a] = <<>> /\ ~Holds(a) /\ ~Holds(a)' /\ registry' = registry
  /\ \E o \in Op, m \in Mode \cup {NoMode} :
       /\ o = "mode_set" <=> m # NoMode
       /\ todo'[a] = Script(o, m) /\ call'[a].op = o /\ call'[a].mode = m

Takes(a) ==
  /\ Ahead(a) /\ Head(todo[a]) = "lock" /\ todo'[a] = Tail(todo[a])
  /\ ~Holds(a) /\ Holds(a)' /\ snap'[a] = None

Frees(a) ==
  /\ Ahead(a) /\ Head(todo[a]) = "unlock" /\ todo'[a] = Tail(todo[a])
  /\ Holds(a) /\ ~Holds(a)'

Reads(a) == ReadRegistry(a) /\ call'[a] = call[a] /\ todo'[a] = todo[a]
            /\ snap'[a] = registry /\ (Holds(a)' <=> Holds(a))

Writes(a) == /\ WriteRegistry(a) /\ call'[a] = call[a] /\ todo'[a] = Tail(todo[a])
             /\ snap[a] \in Records /\ snap'[a] = None /\ (Holds(a)' <=> Holds(a))

(* Any other step: only start_projects changes its mode.                   *)
Moves(a) ==
  /\ todo[a] # <<>> /\ todo'[a] = Tail(todo[a]) /\ registry' = registry /\ snap'[a] = None
  /\ Head(todo[a]) \notin {"lock", "unlock"} \cup RegistrySteps
  /\ call'[a].op = call[a].op /\ On(a)' = On(a)
  /\ call[a].op # "start_projects" => call'[a] = call[a]
  /\ Holds(a)' <=> Holds(a)
  /\ Head(todo[a]) = "check" => ModeIn(registry, On(a)) # "stop"
  /\ Head(todo[a]) = "auto" => registry[On(a)] = "start"
  /\ Head(todo[a]) = "stop" => stack'[On(a)] = "down"

Skips(a) == /\ Ahead(a) /\ Head(todo[a]) = "auto" /\ todo'[a] = Tail(Tail(todo[a]))
            /\ snap'[a] = None /\ (Holds(a)' <=> Holds(a))

Lifts(a) == /\ Ahead(a) /\ Head(todo[a]) = "start" /\ todo'[a] = <<"ready">> \o Tail(todo[a])
            /\ snap'[a] = None /\ Holds(a) /\ Holds(a)'
            /\ \A p \in Project \ {On(a)} : stack'[p] = stack[p]

Works(a) == \/ /\ StackFalls
               /\ \/ Begins(a) \/ Takes(a) \/ Frees(a) \/ Reads(a) \/ Writes(a)
                  \/ Moves(a) \/ Skips(a)
            \/ Lifts(a)

LEMMA RaiseEffect ==
  ASSUME IInv, NEW a \in Actor, ~Idle(a), Raise(a), call' = call,
         \/ Head(todo[a]) \notin QuietSteps \/ Head(todo[a]) \in Entering
         \/ stack'[On(a)] = "down" \/ cut' = CutOff({a})
  PROVE  \A b \in Actor : Stays(b) \/ Quits(b)
<1>1. \A b \in Actor \ {a} : Stays(b)
  BY DEF Raise, Go, Stays, Holds, IInv, TypeOK
<1>2. todo'[a] = <<>> /\ call'[a] = call[a] /\ ~Holds(a)'
  BY DEF Raise, Go, Holds, IInv, TypeOK
<1>3. ASSUME Holds(a), SwitchingOff(a), Has(todo[a], "stop")
      PROVE  stack'[On(a)] = "down" \/ On(a) \in cut'
  <2>1. Head(todo[a]) \in QuietSteps
    BY <1>3, TailSteps DEF Idle, IInv, TypeOK, Scripted, GoesDown
  <2>2. Head(todo[a]) \notin Entering
    BY <1>3, NotInsideYet
  <2>3. HalfOff(a)
    BY <1>3 DEF HalfOff, Holds, Has
  <2>4. On(a) \in CutOff({a})
    BY <2>3 DEF CutOff
  <2> QED
    BY <2>1, <2>2, <2>4
<1> QED
  BY <1>1, <1>2, <1>3 DEF Quits

LEMMA MoveEffect ==
  ASSUME IInv, NEW a \in Actor, ~Idle(a), Proceed(a),
         Head(todo[a]) \notin {"lock", "unlock"} \cup RegistrySteps,
         Head(todo[a]) = "check" => ModeIn(registry, On(a)) # "stop",
         Head(todo[a]) = "auto" => registry[On(a)] = "start",
         Head(todo[a]) = "stop" => stack'[On(a)] = "down", StackFalls,
         UNCHANGED <<registry, inside, call, snap>>
  PROVE  Works(a) /\ \A b \in Actor \ {a} : Stays(b)
<1>1. \A b \in Actor \ {a} : Stays(b)
  BY DEF Proceed, Go, Stays, Holds, IInv, TypeOK
<1>2. Moves(a)
  BY DEF Proceed, Go, Idle, Moves, Holds, On, IInv, TypeOK, SnapshotHeld
<1> QED
  BY <1>1, <1>2 DEF Works

LEMMA CutEffect ==
  ASSUME IInv, [Next]_vars
  PROVE  CutKept
<1>1. \A S : cut \subseteq CutOff(S)
  BY DEF CutOff
<1>2. ASSUME NEW a \in Actor, StopStack(a) \/ PurgeStack(a) PROVE CutKept
  <2>1. cut' = cut \ {On(a)} /\ stack' = [stack EXCEPT ![On(a)] = "down"] /\ On(a) \in Project
    BY <1>2 DEF StopStack, PurgeStack, On, IInv, TypeOK
  <2> QED
    BY <2>1 DEF CutKept, IInv, TypeOK
<1>3. cut \subseteq cut' => CutKept
  BY DEF CutKept
<1>4. ASSUME NEW a \in Actor, WriteFails(a) \/ SyncIngress(a) PROVE cut \subseteq cut'
  BY <1>1, <1>4 DEF WriteFails, SyncIngress
<1>5. ASSUME NEW a \in Crasher, Crash(a) PROVE cut \subseteq cut'
  BY <1>1, <1>5 DEF Crash
<1>6. ASSUME NEW a \in Actor, Advance(a) PROVE CutKept
  BY <1>2, <1>3, <1>4, <1>6
  DEF Advance, Open, OpenFails, Lock, Locked, Unlock, ReadRegistry, WriteRegistry, CheckKnown,
      RememberMode, CheckStopped, CheckActive, AutoStart, AlreadyUp, Launch, LaunchFails, Ready,
      ReadyTimesOut, Run
<1>7. ASSUME NEW a \in Actor, NEW o \in Op, NEW p \in Project, NEW m \in Mode \cup {NoMode},
             Call(a, o, p, m)
      PROVE  cut' = cut
  BY <1>7 DEF Call
<1>8. ASSUME NEW p \in Project, BecomeHealthy(p) \/ StackDies(p) PROVE cut' = cut
  BY <1>8 DEF BecomeHealthy, StackDies
<1>9. UNCHANGED vars => cut' = cut
  BY DEF vars
<1> QED
  BY <1>3, <1>5, <1>6, <1>7, <1>8, <1>9 DEF Next

LEMMA Effects ==
  ASSUME IInv, [Next]_vars
  PROVE  \/ \E a \in Actor : Works(a) /\ \A b \in Actor \ {a} : Stays(b)
         \/ registry' = registry /\ StackFalls /\ \A b \in Actor : Stays(b) \/ Quits(b)
<1> DEFINE One(a) == Works(a) /\ \A b \in Actor \ {a} : Stays(b)
           Some == registry' = registry /\ StackFalls /\ \A b \in Actor : Stays(b) \/ Quits(b)
<1> SUFFICES (\E a \in Actor : One(a)) \/ Some
  OBVIOUS
<1> USE LifecycleAssumption
<1>1. ASSUME NEW a \in Actor, NEW o \in Op, NEW p \in Project,
             NEW m \in Mode \cup {NoMode}, Call(a, o, p, m)
      PROVE  One(a)
  <2>1. /\ todo[a] = <<>> /\ todo' = [todo EXCEPT ![a] = Script(o, m)]
        /\ call' = [call EXCEPT ![a] = [op |-> o, project |-> p, mode |-> m]]
        /\ o = "mode_set" <=> m # NoMode
        /\ UNCHANGED <<registry, inside, snap>>
    BY <1>1 DEF Call, Idle, Go
  <2>2. ~Holds(a)
    BY <2>1, NoSteps DEF IInv, Owed, Unlocks
  <2>3. call'[a] = [op |-> o, project |-> p, mode |-> m] /\ todo'[a] = Script(o, m)
    BY <2>1 DEF IInv, TypeOK
  <2>4. Begins(a)
    BY <2>1, <2>2, <2>3 DEF Begins, Holds
  <2>5. \A b \in Actor \ {a} : Stays(b)
    BY <2>1 DEF Stays, Holds, IInv, TypeOK
  <2> QED
    BY <1>1, <2>4, <2>5 DEF Works, StackFalls, Call
<1>2. ASSUME NEW a \in Actor, Open(a) PROVE One(a)
  BY <1>2, MoveEffect DEF StackFalls, Open, At, RegistrySteps
<1>3. ASSUME NEW a \in Actor, OpenFails(a) PROVE Some
  BY <1>3, RaiseEffect DEF OpenFails, At, StackFalls, Entering
<1>4. ASSUME NEW a \in Actor, Lock(a) PROVE One(a)
  <2>0. ~Holds(a)
    BY <1>4, NotInsideYet DEF Lock, At, Entering
  <2>1. Takes(a)
    BY <1>4, <2>0
    DEF Lock, At, Idle, Proceed, Go, Takes, Ahead, Holds, IInv, TypeOK, SnapshotHeld,
        RegistrySteps
  <2>2. \A b \in Actor \ {a} : Stays(b)
    BY <1>4 DEF Lock, Proceed, Go, Stays, Holds, IInv, TypeOK
  <2> QED
    BY <1>4, <2>1, <2>2 DEF Works, StackFalls, Lock
<1>5. ASSUME NEW a \in Actor, Locked(a) PROVE Some
  BY <1>5, RaiseEffect DEF At, StackFalls, Locked, Entering
<1>6. ASSUME NEW a \in Actor, Unlock(a) PROVE One(a)
  <2>1. Holds(a)
    BY <1>6, GuardedInside DEF Unlock, At, Guarded
  <2>2. Frees(a)
    BY <1>6, <2>1 DEF Unlock, At, Idle, Proceed, Go, Frees, Ahead, Holds, IInv, TypeOK
  <2>3. \A b \in Actor \ {a} : Stays(b)
    BY <1>6, <2>1 DEF Unlock, Proceed, Go, Stays, Holds, IInv, TypeOK
  <2> QED
    BY <1>6, <2>2, <2>3 DEF Works, StackFalls, Unlock
<1>7. ASSUME NEW a \in Actor, ReadRegistry(a) PROVE One(a)
  <2>1. Reads(a)
    BY <1>7 DEF ReadRegistry, Reads, Holds, IInv, TypeOK
  <2>2. \A b \in Actor \ {a} : Stays(b)
    BY <1>7 DEF ReadRegistry, Stays, Holds, IInv, TypeOK
  <2> QED
    BY <1>7, <2>1, <2>2 DEF Works, StackFalls, ReadRegistry
<1>8. ASSUME NEW a \in Actor, WriteRegistry(a) PROVE One(a)
  <2>1. /\ snap[a] \in Records /\ snap' = [snap EXCEPT ![a] = None]
        /\ todo' = [todo EXCEPT ![a] = Tail(todo[a])] /\ UNCHANGED <<inside, call>>
    BY <1>8 DEF WriteRegistry, Proceed, Go, IInv, TypeOK
  <2>2. Writes(a)
    BY <1>8, <2>1 DEF Writes, Holds, IInv, TypeOK
  <2>3. \A b \in Actor \ {a} : Stays(b)
    BY <2>1 DEF Stays, Holds, IInv, TypeOK
  <2> QED
    BY <1>8, <2>2, <2>3 DEF Works, StackFalls, WriteRegistry
<1>9. ASSUME NEW a \in Actor, WriteFails(a) PROVE Some
  <2>1. ~Idle(a)
    BY <1>9 DEF WriteFails, IInv, SnapshotHeld, Idle
  <2> QED
    BY <1>9, <2>1, RaiseEffect DEF WriteFails, StackFalls
<1>10. ASSUME NEW a \in Actor, SyncIngress(a) PROVE One(a) \/ Some
  <2>1. CASE Proceed(a) /\ UNCHANGED <<handle, inside, snap, cut>>
    BY <1>10, <2>1, MoveEffect DEF StackFalls, SyncIngress, At, RegistrySteps
  <2>2. CASE Raise(a) /\ cut' = CutOff({a})
    BY <1>10, <2>2, RaiseEffect DEF At, SyncIngress, StackFalls
  <2> QED
    BY <1>10, <2>1, <2>2 DEF SyncIngress
<1>11. ASSUME NEW a \in Actor, CheckKnown(a) PROVE One(a) \/ Some
  <2>1. CASE Proceed(a) /\ UNCHANGED <<handle, inside, snap>>
    BY <1>11, <2>1, MoveEffect DEF StackFalls, CheckKnown, At, RegistrySteps
  <2>2. CASE Raise(a)
    BY <1>11, <2>2, RaiseEffect DEF At, CheckKnown, StackFalls, QuietSteps
  <2> QED
    BY <1>11, <2>1, <2>2 DEF CheckKnown
<1>12. ASSUME NEW a \in Actor, RememberMode(a) PROVE One(a)
  <2>1. call[a].op = "start_projects"
    BY <1>12, TailSteps DEF RememberMode, At, Idle, IInv, TypeOK, Scripted, BulkRemembers
  <2>2. /\ call'[a].op = call[a].op /\ On(a)' = On(a)
        /\ \A b \in Actor \ {a} : call'[b] = call[b] /\ todo'[b] = todo[b]
        /\ UNCHANGED <<registry, inside, snap>>
        /\ todo[a] # <<>> /\ Head(todo[a]) = "previous" /\ todo'[a] = Tail(todo[a])
    BY <1>12 DEF RememberMode, At, Idle, Proceed, Go, On, IInv, TypeOK
  <2>3. Moves(a)
    BY <2>1, <2>2 DEF Moves, Holds, RegistrySteps, IInv, SnapshotHeld
  <2>4. \A b \in Actor \ {a} : Stays(b)
    BY <2>2 DEF Stays, Holds
  <2> QED
    BY <1>12, <2>3, <2>4 DEF Works, StackFalls, RememberMode
<1>13. ASSUME NEW a \in Actor, CheckStopped(a) PROVE One(a) \/ Some
  <2>1. CASE Proceed(a) /\ UNCHANGED <<handle, inside, snap>> /\ ModeIn(registry, On(a)) # "stop"
    BY <1>13, <2>1, MoveEffect DEF StackFalls, CheckStopped, At, RegistrySteps
  <2>2. CASE Raise(a)
    BY <1>13, <2>2, RaiseEffect DEF At, StackFalls, CheckStopped, QuietSteps
  <2> QED
    BY <1>13, <2>1, <2>2 DEF CheckStopped
<1>14. ASSUME NEW a \in Actor, CheckActive(a) PROVE One(a) \/ Some
  <2>1. CASE Proceed(a) /\ UNCHANGED <<handle, inside, snap>>
    BY <1>14, <2>1, MoveEffect DEF StackFalls, CheckActive, At, RegistrySteps
  <2>2. CASE Raise(a)
    BY <1>14, <2>2, RaiseEffect DEF At, StackFalls, CheckActive, QuietSteps
  <2> QED
    BY <1>14, <2>1, <2>2 DEF CheckActive
<1>15. ASSUME NEW a \in Actor, AutoStart(a) PROVE One(a)
  <2>1. CASE Go(a, Tail(todo[a])) /\ ModeIn(registry, On(a)) = "start"
    <3>1. registry[On(a)] = "start"
      BY <2>1 DEF ModeIn
    <3> QED
      BY <1>15, <2>1, <3>1, MoveEffect DEF AutoStart, At, Proceed, RegistrySteps, StackFalls
  <2>2. CASE Go(a, Tail(Tail(todo[a])))
    <3>1. Skips(a)
      BY <1>15, <2>2
      DEF AutoStart, At, Idle, Go, Skips, Ahead, Holds, IInv, TypeOK, SnapshotHeld,
          RegistrySteps
    <3>2. \A b \in Actor \ {a} : Stays(b)
      BY <1>15, <2>2 DEF AutoStart, Go, Stays, Holds, IInv, TypeOK
    <3> QED
      BY <1>15, <3>1, <3>2 DEF Works, StackFalls, AutoStart
  <2> QED
    BY <1>15, <2>1, <2>2 DEF AutoStart
<1>16. ASSUME NEW a \in Actor, AlreadyUp(a) PROVE One(a)
  BY <1>16, MoveEffect DEF StackFalls, AlreadyUp, At, RegistrySteps
<1>17. ASSUME NEW a \in Actor, Launch(a) PROVE One(a)
  <2> DEFINE s == <<"ready">> \o Tail(todo[a])
  <2>1. /\ todo[a] # <<>> /\ Head(todo[a]) = "start" /\ snap[a] = None
        /\ todo' = [todo EXCEPT ![a] = s]
        /\ UNCHANGED <<registry, inside, call, snap>>
        /\ stack' = [stack EXCEPT ![On(a)] = "starting"]
    BY <1>17 DEF Launch, At, Idle, Go, IInv, SnapshotHeld, RegistrySteps
  <2>2. todo'[a] = s /\ \A b \in Actor \ {a} : todo'[b] = todo[b]
    BY <2>1 DEF IInv, TypeOK
  <2>3. Holds(a)
    BY <2>1, GuardedInside DEF Idle, Guarded
  <2>4. \A p \in Project \ {On(a)} : stack'[p] = stack[p]
    BY <2>1 DEF IInv, TypeOK
  <2>5. Lifts(a)
    BY <2>1, <2>2, <2>3, <2>4 DEF Lifts, Ahead, Holds
  <2>6. \A b \in Actor \ {a} : Stays(b)
    BY <2>1, <2>2 DEF Stays, Holds
  <2> QED
    BY <2>5, <2>6 DEF Works
<1>18. ASSUME NEW a \in Actor, LaunchFails(a) PROVE Some
  <2>1. StackFalls
    BY <1>18 DEF LaunchFails, StackFalls, IInv, TypeOK
  <2> QED
    BY <1>18, <2>1, RaiseEffect DEF LaunchFails, At, QuietSteps
<1>19. ASSUME NEW a \in Actor, Ready(a) PROVE One(a)
  BY <1>19, MoveEffect DEF StackFalls, Ready, At, RegistrySteps
<1>20. ASSUME NEW a \in Actor, ReadyTimesOut(a) PROVE Some
  BY <1>20, RaiseEffect DEF At, StackFalls, ReadyTimesOut, QuietSteps
<1>21. ASSUME NEW a \in Actor, StopStack(a) PROVE One(a) \/ Some
  <2>0. stack' = [stack EXCEPT ![On(a)] = "down"] /\ StackFalls /\ stack'[On(a)] = "down"
    BY <1>21 DEF StopStack, StackFalls, IInv, TypeOK, On
  <2>1. CASE Proceed(a) /\ UNCHANGED <<handle, inside, snap>>
    BY <1>21, <2>0, <2>1, MoveEffect DEF StopStack, At, RegistrySteps
  <2>2. CASE Raise(a)
    BY <1>21, <2>0, <2>2, RaiseEffect DEF At, StopStack
  <2> QED
    BY <1>21, <2>0, <2>1, <2>2 DEF StopStack
<1>22. ASSUME NEW a \in Actor, PurgeStack(a) PROVE One(a) \/ Some
  <2>0. stack' = [stack EXCEPT ![On(a)] = "down"] /\ StackFalls /\ stack'[On(a)] = "down"
    BY <1>22 DEF PurgeStack, StackFalls, IInv, TypeOK, On
  <2>1. CASE Proceed(a) /\ UNCHANGED <<handle, inside, snap>>
    BY <1>22, <2>0, <2>1, MoveEffect DEF PurgeStack, At, RegistrySteps
  <2>2. CASE Raise(a)
    BY <1>22, <2>0, <2>2, RaiseEffect DEF At, PurgeStack
  <2> QED
    BY <1>22, <2>0, <2>1, <2>2 DEF PurgeStack
<1>23. ASSUME NEW a \in Actor, Run(a) PROVE One(a) \/ Some
  <2>1. CASE Proceed(a) /\ UNCHANGED <<handle, inside, snap>>
    BY <1>23, <2>1, MoveEffect DEF StackFalls, Run, At, RegistrySteps
  <2>2. CASE Raise(a)
    BY <1>23, <2>2, RaiseEffect DEF At, Run, StackFalls, QuietSteps
  <2> QED
    BY <1>23, <2>1, <2>2 DEF Run
<1>24. ASSUME NEW a \in Crasher, Crash(a) PROVE Some
  <2> DEFINE D == IF a \in Thread THEN Thread ELSE {a}
  <2>1. /\ todo' = [b \in Actor |-> IF b \in D THEN <<>> ELSE todo[b]]
        /\ inside' = inside \ D
        /\ snap' = [b \in Actor |-> IF b \in D THEN None ELSE snap[b]]
        /\ cut' = CutOff(D)
        /\ UNCHANGED <<registry, stack, call>>
    BY <1>24 DEF Crash
  <2> HIDE DEF D
  <2>2. ASSUME NEW b \in Actor, b \notin D PROVE Stays(b)
    BY <2>1, <2>2 DEF Stays, Holds, IInv, TypeOK
  <2>3. ASSUME NEW b \in Actor, b \in D PROVE Quits(b)
    <3>1. HalfOff(b) => On(b) \in cut'
      BY <2>1, <2>3 DEF CutOff
    <3> QED
      BY <2>1, <2>3, <3>1 DEF Quits, Holds, HalfOff, Has, IInv, TypeOK
  <2> QED
    BY <2>1, <2>2, <2>3 DEF StackFalls
<1>25. ASSUME NEW p \in Project, BecomeHealthy(p) \/ StackDies(p) PROVE Some
  BY <1>25 DEF BecomeHealthy, StackDies, StackFalls, IInv, TypeOK, Stays, Holds
<1>26. CASE UNCHANGED vars
  BY <1>26 DEF vars, StackFalls, Stays, Holds
<1> HIDE DEF One, Some
<1>27. ASSUME NEW a \in Actor, Advance(a) PROVE One(a) \/ Some
  BY <1>2, <1>3, <1>4, <1>5, <1>6, <1>7, <1>8, <1>9, <1>10, <1>11, <1>12, <1>13, <1>14,
     <1>15, <1>16, <1>17, <1>18, <1>19, <1>20, <1>21, <1>22, <1>23, <1>27, ZenonT(60)
  DEF Advance
<1>28. Next \/ UNCHANGED vars
  OBVIOUS
<1> QED
  BY <1>1, <1>24, <1>25, <1>26, <1>27, <1>28, ZenonT(60) DEF Next

-----------------------------------------------------------------------------
(* Where nothing is purged, the file that is named .lock stays the one     *)
(* that is open, and nobody meets another one inside.                      *)

Purging == {"project_purge", "delete_projects"}

(* The handlers purge nothing, and have open the file of that name.        *)
Keeping == \A a \in Actor : ~Has(todo[a], "purge")
Named == \A a \in Actor : handle[a] # None => handle[a] = lockFile[On(a)]

Alone == \A a, b \in Actor : Holds(a) /\ Holds(b) /\ On(a) = On(b) => a = b

LEMMA NamedAlone == IInv /\ Named => Alone
BY DEF IInv, Owed, Flocked, Named, Alone, Holds

LEMMA KeepingScripts ==
  ASSUME NEW o \in Ops \ Purging, NEW m \in Mode \cup {NoMode}
  PROVE  ~Has(Script(o, m), "purge")
<1> USE DEF Has, Script
<1>1. CASE o = "mode_set"
  <2>1. CASE m = "stop"
    BY <1>1, <2>1 DEF SetScript
  <2>2. CASE m = "start"
    BY <1>1, <2>2 DEF SetScript
  <2>3. CASE m \notin {"stop", "start"}
    BY <1>1, <2>3 DEF SetScript
  <2> QED
    BY <2>1, <2>2, <2>3
<1>2. CASE o = "operation"
  BY <1>2
<1>3. CASE o = "active_only"
  BY <1>3
<1>4. CASE o = "remote_deploy"
  BY <1>4
<1>5. CASE o = "session_start"
  BY <1>5
<1>6. CASE o = "start_projects"
  BY <1>6
<1>7. CASE o = "stop_projects"
  BY <1>7
<1>8. CASE o = "project_stop"
  BY <1>8
<1>9. CASE o = "profile_deploy"
  BY <1>9
<1>10. CASE o = "profile_start"
  BY <1>10
<1>11. CASE o = "mode_get"
  BY <1>11
<1> QED
  BY ONLY <1>1, <1>2, <1>3, <1>4, <1>5, <1>6, <1>7, <1>8, <1>9, <1>10, <1>11,
     o \in Ops \ Purging DEF Ops, Purging

LEMMA StepKeeping ==
  ASSUME Op \cap Purging = {}, IInv, Keeping, [Next]_vars
  PROVE  Keeping'
<1> DEFINE K(a) == ~Has(todo[a], "purge")
<1>1. \A a \in Actor : K(a) /\ todo[a] \in Seq(Steps) /\ WellFormed(todo[a])
  BY DEF Keeping, IInv, TypeOK, Scripted
<1>2. ASSUME NEW s \in Seq(Steps), s # <<>>, WellFormed(s), ~Has(s, "purge")
      PROVE  ~Has(Tail(s), "purge")
  BY <1>2, TailSteps
<1>3. ASSUME NEW a \in Actor, Stays(a) \/ Quits(a) PROVE K(a)'
  BY <1>1, <1>3, NoSteps DEF Stays, Quits
<1>4. ASSUME NEW a \in Actor, Works(a) PROVE K(a)'
  <2>1. ASSUME Begins(a) PROVE K(a)'
    <3>1. PICK o \in Op, m \in Mode \cup {NoMode} : todo'[a] = Script(o, m)
      BY <2>1 DEF Begins
    <3> QED
      BY <3>1, KeepingScripts, LifecycleAssumption
  <2>2. ASSUME Takes(a) \/ Frees(a) PROVE K(a)'
    BY <1>1, <1>2, <2>2 DEF Takes, Frees, Ahead
  <2>3. ASSUME Reads(a) PROVE K(a)'
    BY <1>1, <2>3 DEF Reads
  <2>4. ASSUME Writes(a) PROVE K(a)'
    BY <1>1, <1>2, <2>4 DEF Writes, WriteRegistry, At, Idle
  <2>5. ASSUME Moves(a) PROVE K(a)'
    BY <1>1, <1>2, <2>5 DEF Moves
  <2>6. ASSUME Skips(a) PROVE K(a)'
    <3> DEFINE s == Tail(todo[a])
    <3>1. s \in Seq(Steps) /\ s # <<>> /\ WellFormed(s) /\ ~Has(s, "purge")
      BY <1>1, <2>6, TailSteps DEF Skips, Ahead
    <3> HIDE DEF s
    <3>2. ~Has(Tail(s), "purge")
      BY <1>2, <3>1
    <3> QED
      BY <2>6, <3>2 DEF Skips, s
  <2>7. ASSUME Lifts(a) PROVE K(a)'
    BY <1>1, <2>7, ReadySteps DEF Lifts, Ahead
  <2> QED
    BY ONLY <1>4, <2>1, <2>2, <2>3, <2>4, <2>5, <2>6, <2>7 DEF Works
<1> HIDE DEF K
<1>5. \A a \in Actor : K(a)'
  BY <1>3, <1>4, Effects
<1> QED
  BY <1>5 DEF Keeping, K

LEMMA StepNamed ==
  ASSUME IInv, Keeping, Named, [Next]_vars
  PROVE  Named'
<1> USE LifecycleAssumption
<1> DEFINE Same == lockFile' = lockFile /\ \A b \in Actor : On(b)' = On(b)
           Closes == \A b \in Actor : handle'[b] \in {handle[b], None}
<1>1. Same /\ Closes => Named'
  BY DEF Named
<1>2. ASSUME NEW a \in Actor, NEW o \in Op, NEW p \in Project, NEW m \in Mode \cup {NoMode},
             Call(a, o, p, m)
      PROVE  Named'
  <2>1. handle[a] = None
    BY <1>2, NoSteps DEF Call, Idle, IInv, Owed, Unlocks
  <2> QED
    BY <1>2, <2>1 DEF Call, Named, On, IInv, TypeOK
<1>3. ASSUME NEW a \in Actor, Open(a) PROVE Named'
  <2>1. /\ handle' = [handle EXCEPT ![a] = lockFile'[On(a)]] /\ call' = call
        /\ \A p \in Project : lockFile[p] # None => lockFile'[p] = lockFile[p]
    BY <1>3 DEF Open, IInv, TypeOK
  <2>2. \A b \in Actor : On(b) \in Project
    BY DEF IInv, TypeOK, On
  <2> QED
    BY <2>1, <2>2 DEF Named, On, IInv, TypeOK
<1>4. \A a \in Actor : ~At(a, "purge")
  BY TailSteps DEF At, Idle, IInv, TypeOK, Scripted, Keeping
<1>5. \A a \in Actor : Raise(a) => Closes
  BY DEF Raise, IInv, TypeOK
<1>6. handle' = handle => Closes
  OBVIOUS
<1>7. call' = call => \A b \in Actor : On(b)' = On(b)
  BY DEF On
<1>8. ASSUME NEW a \in Actor, Advance(a), ~Open(a) PROVE Same /\ Closes
  <2>1. ASSUME Unlock(a) PROVE Closes
    BY <2>1 DEF Unlock, IInv, TypeOK
  <2>2. ASSUME RememberMode(a) PROVE \A b \in Actor : On(b)' = On(b)
    BY <2>2 DEF RememberMode, On, IInv, TypeOK
  <2>3. ~PurgeStack(a)
    BY <1>4 DEF PurgeStack
  <2> HIDE DEF Closes
  <2>4. Closes
    BY <1>5, <1>6, <1>8, <2>1, <2>3
    DEF Advance, OpenFails, Lock, Locked, ReadRegistry, WriteRegistry, WriteFails, SyncIngress,
        CheckKnown, RememberMode, CheckStopped, CheckActive, AutoStart, AlreadyUp, Launch,
        LaunchFails, Ready, ReadyTimesOut, StopStack, Run
  <2>5. Same
    BY <1>7, <1>8, <2>2, <2>3
    DEF Advance, OpenFails, Lock, Locked, Unlock, ReadRegistry, WriteRegistry, WriteFails,
        SyncIngress, CheckKnown, RememberMode, CheckStopped, CheckActive, AutoStart, AlreadyUp,
        Launch, LaunchFails, Ready, ReadyTimesOut, StopStack, Run
  <2> QED
    BY <2>4, <2>5
<1>9. ASSUME NEW a \in Crasher, Crash(a) PROVE Same /\ Closes
  BY <1>9 DEF Crash, On
<1>10. ASSUME NEW p \in Project, BecomeHealthy(p) \/ StackDies(p) PROVE Same /\ Closes
  BY <1>10 DEF BecomeHealthy, StackDies, On
<1>11. UNCHANGED vars => Same /\ Closes
  BY DEF vars, On
<1> HIDE DEF Same, Closes
<1>12. ASSUME NEW a \in Actor, Advance(a) PROVE Named'
  BY <1>1, <1>3, <1>8, <1>12
<1> QED
  BY <1>1, <1>2, <1>9, <1>10, <1>11, <1>12 DEF Next

-----------------------------------------------------------------------------
(* What a handler has before it, and which handlers each property allows.  *)

(* S is left for inside the lock: not before it, not after it.             *)
Behind(s, S) == \A i \in 1..Len(s) : s[i] \in S => \E j \in 1..(i - 1) : s[j] = "lock"
Closed(s, S) == \A i, j \in 1..Len(s) : s[i] = "unlock" /\ i < j => s[j] \notin S

(* The steps that settle a project's mode, and those of L that are taken   *)
(* without one of them before.                                             *)
Decides == {"check", "auto", "set"}
NeedsOn(s, L) == \E i \in 1..Len(s) : s[i] \in L /\ \A j \in 1..(i - 1) : s[j] \notin Decides
Decided(s, L) ==
  \A k, i \in 1..Len(s) : s[k] = "lock" /\ s[i] \in L /\ k < i =>
    \E j \in (k + 1)..(i - 1) : s[j] \in Decides

(* The stack is stopped, after nothing but registrations.                  *)
StopComing(s) ==
  \E i \in 1..Len(s) :
    s[i] = "stop" /\ \A j \in 1..(i - 1) : s[j] \in {"set", "register", "sync"}
StopsInside(s) ==
  \A k \in 1..Len(s) : s[k] = "lock" =>
    \E i \in (k + 1)..Len(s) :
      s[i] = "stop" /\ \A j \in (k + 1)..(i - 1) : s[j] \in {"set", "register", "sync"}
SetsInside(s) == \A k \in 1..Len(s) : s[k] = "lock" => \E i \in (k + 1)..Len(s) : s[i] = "set"

Launching == {"start", "ready"}
Acting == {"start", "ready", "run"}

(* What is left of handler o, called for mode m: who may set a mode, run,  *)
(* check or remove a record, and that the lock covers it.                  *)
Legal(s, o, m) ==
  /\ Has(s, "set") => o \in {"mode_set", "start_projects"}
  /\ Has(s, "run") => o # "start_projects"
  /\ Has(s, "check") => o # "session_start"
  /\ Has(s, "unregister") => o = "delete_projects"
  /\ o = "mode_set" => SetsInside(s)
  /\ o = "mode_set" /\ m = "stop" => StopsInside(s)
  /\ \A i, j \in 1..Len(s) : s[i] = "auto" /\ i + 1 < j => s[j] \notin Acting

Plan(s, o, m, S, L) ==
  Legal(s, o, m) /\ Closed(s, S) /\ (o # "start_projects" => Decided(s, L))

(* The handlers that keep S inside the lock and decide before they do L:   *)
Suits(o, S, L) ==
  \A m \in Mode \cup {NoMode} : (o = "mode_set" <=> m # NoMode) =>
    Plan(Script(o, m), o, m, S, L) /\ Behind(Script(o, m), S)

(* all but those that unlink the lock file (supervisor.py:1842) and those  *)
(* that check the mode outside the lock or not at all (daemon.py:1937-1951,*)
(* 2044-2061), or register a project without it (daemon.py:403-411);       *)
DecidesInside == Ops \ ({"profile_deploy", "profile_start", "mode_get"} \cup Purging)
(* all but those that unlink it or write a record without it               *)
(* (daemon.py:403-411, 696-698);                                           *)
WritesInside == Ops \ ({"mode_get"} \cup Purging)
(* all but those that unlink it, launch the stack of a project that is     *)
(* switched off (daemon.py:605-640) or register without it.                *)
LaunchesInside == Ops \ ({"start_projects", "mode_get"} \cup Purging)

LEMMA Plans ==
  /\ \A o \in DecidesInside : Suits(o, {"register", "set", "run"}, Acting)
  /\ \A o \in WritesInside : Suits(o, {"register", "set", "unregister"}, Launching)
  /\ \A o \in LaunchesInside : Suits(o, {"register", "set"}, Launching)
<1> DEFINE R == {"register", "set"}
           Good(s, o, m) ==
             /\ Legal(s, o, m) /\ Behind(s, R) /\ Closed(s, R)
             /\ o # "start_projects" => Decided(s, Launching)
             /\ o \in DecidesInside => /\ Behind(s, {"run"}) /\ Closed(s, {"run"})
                                       /\ o # "start_projects" => Decided(s, Acting)
             /\ o \in WritesInside => Behind(s, {"unregister"}) /\ Closed(s, {"unregister"})
<1>1. ASSUME NEW o \in Ops \ ({"mode_get"} \cup Purging), NEW m \in Mode \cup {NoMode},
             o = "mode_set" <=> m # NoMode
      PROVE  Good(Script(o, m), o, m)
  <2> USE DEF Legal, Behind, Closed, Decided, Has, SetsInside, StopsInside, Acting, Launching,
              Decides, DecidesInside, WritesInside, Script
  <2>1. ASSUME o = "operation" PROVE Good(Script(o, m), o, m)
    BY <2>1
  <2>2. ASSUME o = "active_only" PROVE Good(Script(o, m), o, m)
    BY <2>2
  <2>3. ASSUME o = "remote_deploy" PROVE Good(Script(o, m), o, m)
    BY <2>3
  <2>4. ASSUME o = "session_start" PROVE Good(Script(o, m), o, m)
    BY <2>4
  <2>5. ASSUME o = "start_projects" PROVE Good(Script(o, m), o, m)
    BY <2>5
  <2>6. ASSUME o = "stop_projects" PROVE Good(Script(o, m), o, m)
    BY <2>6
  <2>8. ASSUME o = "project_stop" PROVE Good(Script(o, m), o, m)
    BY <2>8
  <2>10. ASSUME o = "profile_deploy" PROVE Good(Script(o, m), o, m)
    BY <2>10
  <2>11. ASSUME o = "profile_start" PROVE Good(Script(o, m), o, m)
    BY <2>11
  <2>12. ASSUME o = "mode_set", m = "stop" PROVE Good(Script(o, m), o, m)
    BY <2>12 DEF SetScript
  <2>13. ASSUME o = "mode_set", m = "start" PROVE Good(Script(o, m), o, m)
    BY <2>13 DEF SetScript
  <2>14. ASSUME o = "mode_set", m = "lazy" PROVE Good(Script(o, m), o, m)
    BY <2>14 DEF SetScript
  <2> HIDE DEF Good
  <2>15. o = "mode_set" => m \in {"stop", "start", "lazy"}
    BY <1>1 DEF Mode
  <2> QED
    BY <1>1, <2>1, <2>2, <2>3, <2>4, <2>5, <2>6, <2>8, <2>10, <2>11, <2>12, <2>13, <2>14,
       <2>15
    DEF Ops, Purging
<1>2. ASSUME NEW s \in Seq(Steps), NEW S, NEW T
      PROVE  /\ Behind(s, S) /\ Behind(s, T) => Behind(s, S \cup T)
             /\ Closed(s, S) /\ Closed(s, T) => Closed(s, S \cup T)
  BY DEF Behind, Closed
<1>3. /\ {"register", "set", "run"} = R \cup {"run"}
      /\ {"register", "set", "unregister"} = R \cup {"unregister"}
  OBVIOUS
<1>4. \A o \in Ops, m \in Mode \cup {NoMode} : Script(o, m) \in Seq(Steps)
  BY Handlers
<1> HIDE DEF R
<1>5. ASSUME NEW o \in DecidesInside PROVE Suits(o, R \cup {"run"}, Acting)
  BY <1>1, <1>2, <1>4, <1>5 DEF Suits, Plan, DecidesInside
<1>6. ASSUME NEW o \in WritesInside PROVE Suits(o, R \cup {"unregister"}, Launching)
  BY <1>1, <1>2, <1>4, <1>6 DEF Suits, Plan, WritesInside
<1>7. ASSUME NEW o \in LaunchesInside PROVE Suits(o, R, Launching)
  BY <1>1, <1>7 DEF Suits, Plan, LaunchesInside
<1> QED
  BY <1>3, <1>5, <1>6, <1>7 DEF R

LEMMA TailPlan ==
  ASSUME NEW s \in Seq(Steps), s # <<>>, NEW S, NEW L \in SUBSET Acting, NEW o, NEW m,
         Plan(s, o, m, S, L)
  PROVE  /\ Plan(Tail(s), o, m, S, L)
         /\ Behind(s, S) /\ Head(s) # "lock" => Head(s) \notin S /\ Behind(Tail(s), S)
         /\ Head(s) = "unlock" => Behind(Tail(s), S) /\ \A x \in S \ {"unlock"} : ~Has(s, x)
         /\ NeedsOn(Tail(s), L) => NeedsOn(s, L) \/ Head(s) \in Decides
         /\ Head(s) \in L => NeedsOn(s, L)
         /\ o # "start_projects" /\ Head(s) = "lock" => ~NeedsOn(Tail(s), L)
         /\ Head(s) = "auto" => ~NeedsOn(Tail(Tail(s)), L)
         /\ Has(s, Head(s))
         /\ \A x \in Steps : Head(s) # x /\ Has(s, x) => Has(Tail(s), x)
         /\ o = "mode_set" /\ Head(s) = "lock" => Has(Tail(s), "set")
         /\ o = "mode_set" /\ m = "stop" /\ Head(s) = "lock" => StopComing(Tail(s))
         /\ StopComing(s) => \/ Head(s) \in {"set", "register", "sync"} /\ StopComing(Tail(s))
                             \/ Head(s) = "stop"
<1> DEFINE t == Tail(s)
<1>1. /\ t \in Seq(Steps) /\ Len(s) \in Nat \ {0} /\ Len(t) = Len(s) - 1
      /\ Head(s) = s[1] /\ Head(s) \in Steps
      /\ \A i \in 1..Len(t) : t[i] = s[i + 1]
  BY TailIndex, HeadTailProperties
<1>2. \A i \in 2..Len(s) : i - 1 \in 1..Len(t) /\ t[i - 1] = s[i]
  BY <1>1
<1> HIDE DEF t
<1>3. Legal(t, o, m)
  <2>1. \A x \in Steps : Has(t, x) => Has(s, x)
    BY <1>1 DEF Has
  <2>2. SetsInside(s) => SetsInside(t)
    <3> SUFFICES ASSUME SetsInside(s), NEW k \in 1..Len(t), t[k] = "lock"
                 PROVE  \E i \in (k + 1)..Len(t) : t[i] = "set"
      BY DEF SetsInside
    <3>1. PICK i \in (k + 2)..Len(s) : s[i] = "set"
      BY <1>1 DEF SetsInside
    <3> QED
      BY <1>1, <1>2, <3>1
  <2>3. StopsInside(s) => StopsInside(t)
    <3> SUFFICES ASSUME StopsInside(s), NEW k \in 1..Len(t), t[k] = "lock"
                 PROVE  \E i \in (k + 1)..Len(t) :
                          /\ t[i] = "stop"
                          /\ \A j \in (k + 1)..(i - 1) : t[j] \in {"set", "register", "sync"}
      BY DEF StopsInside
    <3>1. PICK i \in (k + 2)..Len(s) :
            s[i] = "stop" /\ \A j \in (k + 2)..(i - 1) : s[j] \in {"set", "register", "sync"}
      BY <1>1 DEF StopsInside
    <3>2. i - 1 \in (k + 1)..Len(t) /\ t[i - 1] = "stop"
      BY <1>1, <1>2, <3>1
    <3>3. \A j \in (k + 1)..((i - 1) - 1) : t[j] \in {"set", "register", "sync"}
      <4> TAKE j \in (k + 1)..((i - 1) - 1)
      <4>1. j + 1 \in (k + 2)..(i - 1) /\ j \in 1..Len(t)
        BY <1>1, <3>1
      <4> QED
        BY <1>1, <3>1, <4>1
    <3> QED
      BY <3>2, <3>3
  <2>4. \A i, j \in 1..Len(t) : t[i] = "auto" /\ i + 1 < j => t[j] \notin Acting
    BY <1>1, <1>2 DEF Plan, Legal
  <2> QED
    BY <2>1, <2>2, <2>3, <2>4 DEF Plan, Legal, Steps
<1>4. Closed(t, S)
  BY <1>1 DEF Plan, Closed
<1>5. Decided(s, L) => Decided(t, L)
  <2> SUFFICES ASSUME Decided(s, L), NEW k \in 1..Len(t), NEW i \in 1..Len(t),
                      t[k] = "lock", t[i] \in L, k < i
               PROVE  \E j \in (k + 1)..(i - 1) : t[j] \in Decides
    BY DEF Decided
  <2>1. k + 1 \in 1..Len(s) /\ i + 1 \in 1..Len(s) /\ s[k + 1] = "lock" /\ s[i + 1] \in L
    BY <1>1
  <2>2. PICK j \in ((k + 1) + 1)..((i + 1) - 1) : s[j] \in Decides
    BY <2>1 DEF Decided
  <2>3. j \in 2..Len(s) /\ j - 1 \in (k + 1)..(i - 1)
    BY <1>1
  <2> QED
    BY <1>2, <2>2, <2>3
<1>6. ASSUME Behind(s, S), Head(s) # "lock" PROVE Head(s) \notin S /\ Behind(t, S)
  <2>1. Head(s) \notin S
    BY <1>1, <1>6 DEF Behind
  <2>2. ASSUME NEW i \in 1..Len(t), t[i] \in S PROVE \E j \in 1..(i - 1) : t[j] = "lock"
    <3>1. PICK j \in 1..i : s[j] = "lock"
      BY <1>1, <1>6, <2>2 DEF Behind
    <3>2. j \in 2..Len(s) /\ j - 1 \in 1..(i - 1)
      BY <1>1, <1>6, <3>1
    <3> QED
      BY <1>2, <3>1, <3>2
  <2> QED
    BY <2>1, <2>2 DEF Behind
<1>7. ASSUME Head(s) = "unlock" PROVE Behind(t, S) /\ \A x \in S \ {"unlock"} : ~Has(s, x)
  <2>1. \A i \in 2..Len(s) : s[i] \notin S
    BY <1>1, <1>7 DEF Plan, Closed
  <2> QED
    BY <1>1, <1>7, <2>1 DEF Behind, Has
<1>8. ASSUME NeedsOn(t, L), Head(s) \notin Decides PROVE NeedsOn(s, L)
  <2>1. PICK i \in 1..Len(t) : t[i] \in L /\ \A j \in 1..(i - 1) : t[j] \notin Decides
    BY <1>8 DEF NeedsOn
  <2>2. i + 1 \in 1..Len(s) /\ s[i + 1] \in L
    BY <1>1, <2>1
  <2>3. \A j \in 1..((i + 1) - 1) : s[j] \notin Decides
    <3> TAKE j \in 1..((i + 1) - 1)
    <3>1. CASE j = 1
      BY <3>1, <1>1, <1>8
    <3>2. CASE j # 1
      <4>1. j \in 2..Len(s) /\ j - 1 \in 1..(i - 1)
        BY <3>2, <1>1
      <4> QED
        BY <4>1, <1>2, <2>1
    <3> QED
      BY <3>1, <3>2
  <2> QED
    BY <2>2, <2>3 DEF NeedsOn
<1>9. Head(s) \in L => NeedsOn(s, L)
  BY <1>1 DEF NeedsOn
<1>10. ASSUME o # "start_projects", Head(s) = "lock", NeedsOn(t, L) PROVE FALSE
  <2>1. PICK i \in 1..Len(t) : t[i] \in L /\ \A j \in 1..(i - 1) : t[j] \notin Decides
    BY <1>10 DEF NeedsOn
  <2>2. 1 \in 1..Len(s) /\ i + 1 \in 1..Len(s) /\ s[1] = "lock" /\ s[i + 1] \in L /\ 1 < i + 1
    BY <1>1, <1>10, <2>1
  <2>3. PICK j \in (1 + 1)..((i + 1) - 1) : s[j] \in Decides
    BY <1>10, <2>2 DEF Plan, Decided
  <2>4. j \in 2..Len(s) /\ j - 1 \in 1..(i - 1)
    BY <1>1
  <2> QED
    BY <1>2, <2>1, <2>3, <2>4
<1>11. ASSUME Head(s) = "auto", NeedsOn(Tail(t), L) PROVE FALSE
  <2>1. PICK i \in 1..Len(Tail(t)) : Tail(t)[i] \in L
    BY <1>11 DEF NeedsOn
  <2>2. CASE t = <<>>
    BY <2>1, <2>2
  <2>3. CASE t # <<>>
    <3>1. Len(Tail(t)) = Len(t) - 1 /\ Tail(t)[i] = t[i + 1]
      BY <1>1, <2>1, <2>3, TailIndex
    <3>2. 1 \in 1..Len(s) /\ i + 2 \in 1..Len(s) /\ s[1] = "auto" /\ s[i + 2] \in Acting
      BY <1>1, <1>11, <2>1, <3>1
    <3> QED
      BY <3>2 DEF Plan, Legal
  <2> QED
    BY <2>2, <2>3
<1>12. Has(s, Head(s)) /\ \A x \in Steps : Head(s) # x /\ Has(s, x) => Has(t, x)
  BY <1>1, <1>2 DEF Has
<1>13. o = "mode_set" /\ Head(s) = "lock" => Has(t, "set")
  BY <1>1, <1>2 DEF Plan, Legal, SetsInside, Has
<1>14. ASSUME o = "mode_set", m = "stop", Head(s) = "lock" PROVE StopComing(t)
  <2>1. PICK i \in 2..Len(s) :
          s[i] = "stop" /\ \A j \in 2..(i - 1) : s[j] \in {"set", "register", "sync"}
    BY <1>1, <1>14 DEF Plan, Legal, StopsInside
  <2>2. i - 1 \in 1..Len(t) /\ t[i - 1] = "stop"
    BY <1>2, <2>1
  <2>3. \A j \in 1..((i - 1) - 1) : t[j] \in {"set", "register", "sync"}
    <3> TAKE j \in 1..((i - 1) - 1)
    <3>1. j + 1 \in 2..(i - 1) /\ j \in 1..Len(t)
      BY <1>1, <2>1
    <3> QED
      BY <1>1, <2>1, <3>1
  <2> QED
    BY <2>2, <2>3 DEF StopComing
<1>15. ASSUME StopComing(s), Head(s) # "stop"
       PROVE  Head(s) \in {"set", "register", "sync"} /\ StopComing(t)
  <2>1. PICK i \in 1..Len(s) :
          s[i] = "stop" /\ \A j \in 1..(i - 1) : s[j] \in {"set", "register", "sync"}
    BY <1>15 DEF StopComing
  <2>2. i \in 2..Len(s)
    BY <1>1, <1>15, <2>1
  <2>3. i - 1 \in 1..Len(t) /\ t[i - 1] = "stop"
    BY <1>2, <2>1, <2>2
  <2>4. \A j \in 1..((i - 1) - 1) : t[j] \in {"set", "register", "sync"}
    <3> TAKE j \in 1..((i - 1) - 1)
    <3>1. j \in 1..Len(t) /\ j + 1 \in 1..(i - 1)
      BY <1>1, <2>2
    <3> QED
      BY <3>1, <1>1, <2>1
  <2> QED
    BY <1>1, <2>1, <2>2, <2>3, <2>4 DEF StopComing
<1> QED
  BY <1>3, <1>4, <1>5, <1>6, <1>7, <1>8, <1>9, <1>10, <1>11, <1>12, <1>13, <1>14, <1>15
  DEF t, Plan

LEMMA ReadyPlan ==
  ASSUME NEW s \in Seq(Steps), s # <<>>, Head(s) = "start", NEW S, "ready" \notin S,
         NEW L \in {Launching, Acting}, NEW o, NEW m, Plan(s, o, m, S, L)
  PROVE  LET t == <<"ready">> \o Tail(s) IN
         /\ Plan(t, o, m, S, L)
         /\ Behind(s, S) => Behind(t, S)
         /\ NeedsOn(s, L)
         /\ \A x \in Steps \ {"ready"} : Has(t, x) => Has(s, x)
         /\ Has(s, "set") => Has(t, "set")
         /\ ~StopComing(s)
<1> DEFINE t == <<"ready">> \o Tail(s)
<1>1. /\ t \in Seq(Steps) /\ Len(t) = Len(s) /\ Len(s) \in Nat \ {0}
      /\ t[1] = "ready" /\ s[1] = "start"
      /\ \A i \in 2..Len(t) : t[i] = s[i]
  BY ReadyIndex, TailIndex
<1> HIDE DEF t
<1>2. /\ \A x \in Steps \ {"ready"} : Has(t, x) => Has(s, x)
      /\ Has(s, "set") => Has(t, "set")
  BY <1>1 DEF Has
<1>3. Legal(t, o, m)
  <2>1. SetsInside(s) => SetsInside(t)
    BY <1>1 DEF SetsInside
  <2>2. StopsInside(s) => StopsInside(t)
    BY <1>1 DEF StopsInside
  <2>3. \A i, j \in 1..Len(t) : t[i] = "auto" /\ i + 1 < j => t[j] \notin Acting
    BY <1>1 DEF Plan, Legal
  <2> QED
    BY <1>2, <2>1, <2>2, <2>3 DEF Plan, Legal, Steps
<1>4. Closed(t, S)
  BY <1>1 DEF Plan, Closed
<1>5. Decided(s, L) => Decided(t, L)
  BY <1>1 DEF Decided
<1>6. Behind(s, S) => Behind(t, S)
  BY <1>1 DEF Behind
<1>7. NeedsOn(s, L)
  BY <1>1 DEF NeedsOn, Launching, Acting
<1>8. ~StopComing(s)
  BY <1>1 DEF StopComing
<1> QED
  BY <1>2, <1>3, <1>4, <1>5, <1>6, <1>7, <1>8 DEF t, Plan

LEMMA NothingLeft ==
  /\ \A x \in Steps : ~Has(<<>>, x)
  /\ \A L : ~NeedsOn(<<>>, L)
  /\ \A S, L, o, m : Plan(<<>>, o, m, S, L) /\ Behind(<<>>, S)
BY DEF Has, NeedsOn, Plan, Legal, Behind, Closed, Decided, SetsInside, StopsInside

-----------------------------------------------------------------------------
(* The plans hold in every behaviour.                                      *)

Planned(S, L) ==
  \A a \in Actor :
    /\ Plan(todo[a], call[a].op, call[a].mode, S, L)
    /\ Holds(a) \/ Behind(todo[a], S)
    /\ call[a].op = "mode_set" /\ todo[a] # <<>> => call[a].mode # NoMode

LEMMA InitPlanned ==
  ASSUME NEW S, NEW L, Init
  PROVE  Planned(S, L)
BY NothingLeft DEF Planned, Init

LEMMA StepPlanned ==
  ASSUME NEW S \in SUBSET {"register", "set", "unregister", "run"},
         NEW L \in {Launching, Acting}, \A o \in Op : Suits(o, S, L),
         IInv, Planned(S, L), [Next]_vars
  PROVE  Planned(S, L)'
<1> DEFINE P(a) == /\ Plan(todo[a], call[a].op, call[a].mode, S, L)
                   /\ Holds(a) \/ Behind(todo[a], S)
                   /\ call[a].op = "mode_set" /\ todo[a] # <<>> => call[a].mode # NoMode
<1>1. \A a \in Actor : P(a) /\ todo[a] \in Seq(Steps)
  BY DEF Planned, IInv, TypeOK
<1>0. ASSUME NEW s \in Seq(Steps), s # <<>>, NEW o, NEW m, Plan(s, o, m, S, L)
      PROVE  /\ Plan(Tail(s), o, m, S, L)
             /\ Behind(s, S) /\ Head(s) # "lock" => Behind(Tail(s), S)
             /\ Head(s) = "unlock" => Behind(Tail(s), S)
  <2>1. L \in SUBSET Acting
    BY DEF Launching, Acting
  <2> QED
    BY <1>0, <2>1, TailPlan
<1>2. ASSUME NEW a \in Actor, Stays(a) PROVE P(a)'
  BY <1>1, <1>2 DEF Stays
<1>3. ASSUME NEW a \in Actor, Quits(a) PROVE P(a)'
  BY <1>3, NothingLeft DEF Quits
<1>4. ASSUME NEW a \in Actor, Works(a) PROVE P(a)'
  <2>1. CASE Begins(a)
    BY <2>1 DEF Begins, Suits
  <2>2. CASE Takes(a) \/ Frees(a)
    BY <1>0, <1>1, <2>2 DEF Takes, Frees, Ahead
  <2>3. CASE Reads(a)
    BY <1>1, <2>3 DEF Reads
  <2>4. CASE Writes(a)
    <3>1. todo[a] # <<>> /\ Head(todo[a]) # "lock"
      BY <2>4 DEF Writes, WriteRegistry, At, Idle
    <3> QED
      BY <1>0, <1>1, <2>4, <3>1 DEF Writes
  <2>5. CASE Moves(a)
    <3>1. /\ Plan(Tail(todo[a]), call[a].op, call[a].mode, S, L)
          /\ Holds(a) \/ Behind(Tail(todo[a]), S)
      BY <1>0, <1>1, <2>5 DEF Moves
    <3>2. CASE call'[a] = call[a]
      BY <1>1, <2>5, <3>1, <3>2 DEF Moves
    <3>3. CASE call[a].op = "start_projects"
      <4>1. Plan(Tail(todo[a]), "start_projects", call'[a].mode, S, L)
        BY <3>1, <3>3 DEF Plan, Legal
      <4> QED
        BY <2>5, <3>1, <3>3, <4>1 DEF Moves
    <3> QED
      BY <2>5, <3>2, <3>3 DEF Moves
  <2>6. CASE Skips(a)
    <3> DEFINE s == Tail(todo[a])
    <3>1. /\ Plan(s, call[a].op, call[a].mode, S, L)
          /\ Holds(a) \/ Behind(s, S)
      BY <1>0, <1>1, <2>6 DEF Skips, Ahead
    <3>2. s \in Seq(Steps) /\ s # <<>> /\ Head(s) = "start"
      BY <2>6, TailSteps DEF Skips, Ahead, IInv, TypeOK, Scripted
    <3> HIDE DEF s
    <3>3. /\ Plan(Tail(s), call[a].op, call[a].mode, S, L)
          /\ Holds(a) \/ Behind(Tail(s), S)
      BY <1>0, <3>1, <3>2
    <3> QED
      BY <1>1, <2>6, <3>3 DEF Skips, Ahead, s
  <2>7. CASE Lifts(a)
    <3> DEFINE s == <<"ready">> \o Tail(todo[a])
    <3>1. /\ Plan(s, call[a].op, call[a].mode, S, L)
          /\ Holds(a) \/ Behind(s, S)
      BY <1>1, <2>7, ReadyPlan DEF Lifts, Ahead
    <3> HIDE DEF s
    <3> QED
      BY <1>1, <2>7, <3>1 DEF Lifts, Ahead, s
  <2> QED
    BY <1>4, <2>1, <2>2, <2>3, <2>4, <2>5, <2>6, <2>7 DEF Works
<1> HIDE DEF P
<1>5. \A a \in Actor : P(a)'
  BY <1>2, <1>3, <1>4, Effects
<1> QED
  BY <1>5 DEF P, Planned

(* No registration undoes that of another project: each writes the record  *)
(* of its own project only.  Where two registrations overlap the code does *)
(* not guarantee it (module Registry).                                     *)
OwnRecord ==
  \A a \in Actor, p \in Project : WriteRegistry(a) /\ p # On(a) => registry'[p] = registry[p]
Orderly == [][OwnRecord]_vars

(* What a step makes of the record of a project, seen by who is inside it. *)
LEMMA RecordKept ==
  ASSUME NEW S \in SUBSET {"register", "set", "unregister", "run"}, NEW L,
         {"register", "set"} \subseteq S, IInv, Alone, Planned(S, L), [OwnRecord]_vars,
         NEW a \in Actor, Works(a), NEW b \in Actor, b # a, Holds(b)
  PROVE  \/ registry'[On(b)] = registry[On(b)]
         \/ registry'[On(b)] = "absent" /\ "unregister" \notin S
<1>1. CASE registry' = registry
  BY <1>1
<1>2. CASE Writes(a)
  <2>1. CASE On(a) # On(b)
    <3>1. On(b) \in Project /\ WriteRegistry(a)
      BY <1>2 DEF Writes, IInv, TypeOK, On
    <3>2. OwnRecord \/ registry' = registry
      BY DEF vars
    <3> QED
      BY <2>1, <3>1, <3>2 DEF OwnRecord
  <2>2. CASE On(a) = On(b)
    <3>1. ~Holds(a)
      BY <2>2 DEF Alone
    <3>2. todo[a] # <<>> /\ todo[a] \in Seq(Steps) /\ Head(todo[a]) \in RegistrySteps
      BY <1>2 DEF Writes, WriteRegistry, At, Idle, IInv, TypeOK, RegistrySteps
    <3>3. Behind(todo[a], S)
      BY <3>1 DEF Planned
    <3>4. Head(todo[a]) \notin S
      BY <3>2, <3>3, TailIndex DEF Behind, RegistrySteps
    <3>5. Head(todo[a]) = "unregister" /\ "unregister" \notin S
      BY <3>2, <3>4 DEF RegistrySteps
    <3>6. registry' = Unregistered(snap[a], {On(a)})
      BY <1>2, <3>5 DEF Writes, WriteRegistry, At
    <3>7. On(b) \in Project
      BY DEF IInv, TypeOK, On
    <3> QED
      BY <2>2, <3>5, <3>6, <3>7 DEF Unregistered
  <2> QED
    BY <2>1, <2>2
<1> QED
  BY <1>1, <1>2 DEF Works, Begins, Takes, Frees, Reads, ReadRegistry, Moves, Skips, Lifts, Ahead

-----------------------------------------------------------------------------
(* The mode that a check, a session or a switch found holds until the      *)
(* handler leaves.                                                         *)

SwitchedOn(L) ==
  \A a \in Actor : Holds(a) /\ call[a].op # "start_projects" /\ NeedsOn(todo[a], L) =>
    /\ ModeIn(registry, On(a)) # "stop"
    /\ snap[a] # None => ModeIn(snap[a], On(a)) # "stop"

LEMMA StepSwitchedOn ==
  ASSUME NEW S \in SUBSET {"register", "set", "unregister", "run"}, {"register", "set"} \subseteq S,
         NEW L \in {Launching, Acting}, \A o \in Op : Suits(o, S, L),
         IInv, Alone, Planned(S, L), SwitchedOn(L), [Next]_vars, [OwnRecord]_vars
  PROVE  SwitchedOn(L)'
<1> DEFINE P(a) == Holds(a) /\ call[a].op # "start_projects" /\ NeedsOn(todo[a], L) =>
                     /\ ModeIn(registry, On(a)) # "stop"
                     /\ snap[a] # None => ModeIn(snap[a], On(a)) # "stop"
<1>1. \A a \in Actor : /\ P(a) /\ todo[a] \in Seq(Steps) /\ On(a) \in Project
                       /\ Plan(todo[a], call[a].op, call[a].mode, S, L)
                       /\ SwitchingOff(a) => Quiet(todo[a])
                       /\ call[a].mode \in Mode \cup {NoMode}
  BY DEF Planned, SwitchedOn, IInv, TypeOK, On, GoesDown
<1>2. L \in SUBSET Acting
  BY DEF Launching, Acting
<1>3. ASSUME NEW s \in Seq(Steps), s # <<>>, NEW o, NEW m, Plan(s, o, m, S, L)
      PROVE  /\ NeedsOn(Tail(s), L) => NeedsOn(s, L) \/ Head(s) \in Decides
             /\ o # "start_projects" /\ Head(s) = "lock" => ~NeedsOn(Tail(s), L)
             /\ Head(s) = "auto" => ~NeedsOn(Tail(Tail(s)), L)
             /\ Has(s, Head(s))
  BY <1>2, <1>3, TailPlan
<1>4. ASSUME NEW b \in Actor, Stays(b), Holds(b) => \/ registry'[On(b)] = registry[On(b)]
                                                   \/ registry'[On(b)] = "absent"
      PROVE  P(b)'
  <2>1. Holds(b) /\ ModeIn(registry, On(b)) # "stop" => ModeIn(registry', On(b)) # "stop"
    BY <1>4 DEF ModeIn
  <2> QED
    BY <1>1, <1>4, <2>1 DEF Stays, On
<1>5. ASSUME NEW a \in Actor, Quits(a) PROVE P(a)'
  BY <1>5 DEF Quits
<1>6. ASSUME NEW a \in Actor, Works(a) PROVE P(a)'
  <2>1. CASE Begins(a)
    BY <2>1 DEF Begins
  <2>2. CASE Takes(a)
    BY <1>1, <1>3, <2>2 DEF Takes, Ahead
  <2>3. CASE Frees(a)
    BY <2>3 DEF Frees
  <2>4. CASE Reads(a)
    BY <1>1, <2>4 DEF Reads, ReadRegistry, On
  <2>5. CASE Writes(a)
    <3>1. /\ todo[a] # <<>> /\ snap[a] # None /\ snap[a] \in Records
          /\ On(a)' = On(a) /\ (Holds(a)' <=> Holds(a)) /\ call'[a] = call[a]
          /\ todo'[a] = Tail(todo[a]) /\ snap'[a] = None
      BY <2>5 DEF Writes, WriteRegistry, At, Idle, On
    <3> SUFFICES ASSUME Holds(a), call[a].op # "start_projects", NeedsOn(Tail(todo[a]), L)
                 PROVE  ModeIn(registry', On(a)) # "stop"
      BY <3>1
    <3>2. CASE Head(todo[a]) = "register"
      <4>1. registry' = Registered(snap[a], On(a), NoMode)
        BY <2>5, <3>2 DEF Writes, WriteRegistry, At
      <4>2. NeedsOn(todo[a], L)
        BY <1>1, <1>3, <3>1, <3>2 DEF Decides
      <4>3. ModeIn(snap[a], On(a)) # "stop"
        BY <1>1, <3>1, <4>2
      <4> QED
        BY <1>1, <3>1, <4>1, <4>3 DEF Registered, ModeIn, Records
    <3>3. CASE Head(todo[a]) = "set"
      <4>1. registry' = Registered(snap[a], On(a), call[a].mode)
        BY <2>5, <3>3 DEF Writes, WriteRegistry, At
      <4>2. call[a].op = "mode_set"
        BY <1>1, <1>3, <3>1, <3>3 DEF Plan, Legal
      <4>3. call[a].mode # NoMode
        BY <3>1, <4>2 DEF Planned
      <4>4. call[a].mode # "stop"
        <5>1. SUFFICES ASSUME call[a].mode = "stop" PROVE FALSE
          OBVIOUS
        <5>2. Quiet(Tail(todo[a])) /\ Tail(todo[a]) \in Seq(Steps)
          BY <1>1, <3>1, <4>2, <5>1, TailSteps DEF SwitchingOff, IInv, Scripted
        <5> QED
          BY <1>2, <5>2 DEF Quiet, QuietSteps, NeedsOn, Acting
      <4> QED
        BY <1>1, <3>1, <4>1, <4>3, <4>4 DEF Registered, ModeIn, Records, Mode
    <3>4. CASE Head(todo[a]) = "unregister"
      BY <1>1, <2>5, <3>4 DEF Writes, WriteRegistry, At, Unregistered, ModeIn
    <3> QED
      BY <2>5, <3>2, <3>3, <3>4 DEF Writes, WriteRegistry, At
  <2>6. CASE Moves(a)
    <3>1. NeedsOn(Tail(todo[a]), L) =>
            NeedsOn(todo[a], L) \/ Head(todo[a]) \in {"check", "auto"}
      BY <1>1, <1>3, <2>6 DEF Moves, Decides, RegistrySteps
    <3>2. registry[On(a)] = "start" => ModeIn(registry, On(a)) # "stop"
      BY DEF ModeIn
    <3> QED
      BY <1>1, <2>6, <3>1, <3>2 DEF Moves
  <2>7. CASE Skips(a)
    BY <1>1, <1>3, <2>7 DEF Skips, Ahead
  <2>8. CASE Lifts(a)
    <3>1. NeedsOn(todo[a], L)
      BY <1>1, <2>8, ReadyPlan DEF Lifts, Ahead
    <3> QED
      BY <1>1, <2>8, <3>1 DEF Lifts, Ahead, On
  <2> QED
    BY <1>6, <2>1, <2>2, <2>3, <2>4, <2>5, <2>6, <2>7, <2>8 DEF Works
<1>7. \A a \in Actor : P(a)'
  <2> HIDE DEF P
  <2>1. CASE registry' = registry /\ \A b \in Actor : Stays(b) \/ Quits(b)
    BY <1>4, <1>5, <2>1
  <2>2. ASSUME NEW a \in Actor, Works(a), \A b \in Actor \ {a} : Stays(b), NEW b \in Actor
        PROVE  P(b)'
    <3>1. CASE b = a
      BY <1>6, <2>2, <3>1
    <3>2. CASE b # a
      <4>1. Holds(b) => \/ registry'[On(b)] = registry[On(b)]
                        \/ registry'[On(b)] = "absent"
        BY <2>2, <3>2, RecordKept
      <4> QED
        BY <1>4, <2>2, <3>2, <4>1
    <3> QED
      BY <3>1, <3>2
  <2> QED
    BY <2>1, <2>2, Effects
<1> QED
  BY <1>7 DEF P, SwitchedOn

(* project_mode_set has persisted the mode once no write of it is left, *)
AsSwitched ==
  \A a \in Actor : Holds(a) /\ call[a].op = "mode_set" /\ ~Has(todo[a], "set") =>
    /\ ModeIn(registry, On(a)) = call[a].mode
    /\ snap[a] # None => ModeIn(snap[a], On(a)) = call[a].mode

(* and a session is past its check only where the registry says start. *)
SessionOn ==
  \A a \in Actor : Holds(a) /\ call[a].op = "session_start" /\ NeedsOn(todo[a], Launching) =>
    /\ registry[On(a)] = "start"
    /\ snap[a] # None => snap[a][On(a)] = "start"

LEMMA StepAsSwitched ==
  ASSUME NEW S \in SUBSET {"register", "set", "unregister", "run"},
         {"register", "set", "unregister"} \subseteq S,
         \A o \in Op : Suits(o, S, Launching), IInv, Alone, Planned(S, Launching),
         AsSwitched, SessionOn, [Next]_vars, [OwnRecord]_vars
  PROVE  AsSwitched' /\ SessionOn'
<1> DEFINE P(a) == Holds(a) /\ call[a].op = "mode_set" /\ ~Has(todo[a], "set") =>
                     /\ ModeIn(registry, On(a)) = call[a].mode
                     /\ snap[a] # None => ModeIn(snap[a], On(a)) = call[a].mode
           Q(a) == Holds(a) /\ call[a].op = "session_start" /\ NeedsOn(todo[a], Launching) =>
                     /\ registry[On(a)] = "start"
                     /\ snap[a] # None => snap[a][On(a)] = "start"
<1>1. \A a \in Actor : /\ P(a) /\ Q(a) /\ todo[a] \in Seq(Steps) /\ On(a) \in Project
                       /\ Plan(todo[a], call[a].op, call[a].mode, S, Launching)
                       /\ call[a].mode \in Mode \cup {NoMode}
  BY DEF Planned, AsSwitched, SessionOn, IInv, TypeOK, On
<1>2. Launching \in SUBSET Acting
  BY DEF Launching, Acting
<1>3. ASSUME NEW s \in Seq(Steps), s # <<>>, NEW o, NEW m, Plan(s, o, m, S, Launching)
      PROVE  /\ NeedsOn(Tail(s), Launching) => NeedsOn(s, Launching) \/ Head(s) \in Decides
             /\ o # "start_projects" /\ Head(s) = "lock" => ~NeedsOn(Tail(s), Launching)
             /\ Head(s) = "auto" => ~NeedsOn(Tail(Tail(s)), Launching)
             /\ Has(s, Head(s))
             /\ Head(s) # "set" /\ Has(s, "set") => Has(Tail(s), "set")
             /\ o = "mode_set" /\ Head(s) = "lock" => Has(Tail(s), "set")
  <2>1. "set" \in Steps
    BY DEF Steps
  <2> QED
    BY <1>2, <1>3, <2>1, TailPlan
<1>4. ASSUME NEW b \in Actor, Stays(b), Holds(b) => registry'[On(b)] = registry[On(b)]
      PROVE  P(b)' /\ Q(b)'
  <2>1. Holds(b) => ModeIn(registry', On(b)) = ModeIn(registry, On(b))
    BY <1>4 DEF ModeIn
  <2> QED
    BY <1>1, <1>4, <2>1 DEF Stays, On
<1>5. ASSUME NEW a \in Actor, Quits(a) PROVE P(a)' /\ Q(a)'
  BY <1>5 DEF Quits
<1>6. ASSUME NEW a \in Actor, Works(a) PROVE P(a)' /\ Q(a)'
  <2>1. CASE Begins(a)
    BY <2>1 DEF Begins
  <2>2. CASE Takes(a)
    BY <1>1, <1>3, <2>2 DEF Takes, Ahead
  <2>3. CASE Frees(a)
    BY <2>3 DEF Frees
  <2>4. CASE Reads(a)
    BY <1>1, <2>4 DEF Reads, ReadRegistry, On
  <2>5. CASE Writes(a)
    <3>1. /\ todo[a] # <<>> /\ snap[a] # None /\ snap[a] \in Records
          /\ On(a)' = On(a) /\ (Holds(a)' <=> Holds(a)) /\ call'[a] = call[a]
          /\ todo'[a] = Tail(todo[a]) /\ snap'[a] = None
      BY <2>5 DEF Writes, WriteRegistry, At, Idle, On
    <3>2. CASE Head(todo[a]) = "register"
      <4>1. registry' = Registered(snap[a], On(a), NoMode)
        BY <2>5, <3>2 DEF Writes, WriteRegistry, At
      <4>2. /\ ModeIn(registry', On(a)) = ModeIn(snap[a], On(a))
            /\ snap[a][On(a)] = "start" => registry'[On(a)] = "start"
        BY <1>1, <3>1, <4>1 DEF Registered, ModeIn, Records
      <4>3. /\ NeedsOn(Tail(todo[a]), Launching) => NeedsOn(todo[a], Launching)
            /\ Has(todo[a], "set") => Has(Tail(todo[a]), "set")
        BY <1>1, <1>3, <3>1, <3>2 DEF Decides
      <4> QED
        BY <1>1, <3>1, <4>2, <4>3
    <3>3. CASE Head(todo[a]) = "set"
      <4>1. registry' = Registered(snap[a], On(a), call[a].mode)
        BY <2>5, <3>3 DEF Writes, WriteRegistry, At
      <4>2. call[a].op \in {"mode_set", "start_projects"}
        BY <1>1, <1>3, <3>1, <3>3 DEF Plan, Legal
      <4>3. call[a].op = "mode_set" => call[a].mode # NoMode
        BY <3>1 DEF Planned
      <4>4. call[a].op = "mode_set" => ModeIn(registry', On(a)) = call[a].mode
        BY <1>1, <3>1, <4>1, <4>3 DEF Registered, ModeIn, Records, Mode
      <4> QED
        BY <3>1, <4>2, <4>4
    <3>4. CASE Head(todo[a]) = "unregister"
      <4>1. call[a].op = "delete_projects"
        BY <1>1, <1>3, <3>1, <3>4 DEF Plan, Legal
      <4> QED
        BY <3>1, <4>1
    <3> QED
      BY <2>5, <3>2, <3>3, <3>4 DEF Writes, WriteRegistry, At
  <2>6. CASE Moves(a)
    <3>1. /\ NeedsOn(Tail(todo[a]), Launching) =>
               NeedsOn(todo[a], Launching) \/ Head(todo[a]) \in {"check", "auto"}
          /\ Has(todo[a], "set") => Has(Tail(todo[a]), "set")
          /\ Has(todo[a], Head(todo[a]))
      BY <1>1, <1>3, <2>6 DEF Moves, Decides, RegistrySteps
    <3>2. call[a].op = "session_start" => Head(todo[a]) # "check"
      BY <1>1, <3>1 DEF Plan, Legal
    <3> QED
      BY <1>1, <2>6, <3>1, <3>2 DEF Moves
  <2>7. CASE Skips(a)
    <3>1. call[a].op # "mode_set" \/ Has(Tail(Tail(todo[a])), "set") \/ ~Has(todo[a], "set")
      <4> DEFINE s == Tail(todo[a])
      <4>1. /\ Plan(s, call[a].op, call[a].mode, S, Launching)
            /\ Has(todo[a], "set") => Has(s, "set")
        BY <1>1, <1>2, <1>3, <2>7, TailPlan, SMTT(30) DEF Skips, Ahead
      <4>2. s \in Seq(Steps) /\ s # <<>> /\ Head(s) = "start"
        BY <1>1, <2>7, TailSteps, SMTT(30) DEF Skips, Ahead, IInv, Scripted
      <4> HIDE DEF s
      <4>3. Has(s, "set") => Has(Tail(s), "set")
        BY <1>3, <4>1, <4>2
      <4> QED
        BY <4>1, <4>3 DEF s
    <3> QED
      BY <1>1, <1>3, <2>7, <3>1 DEF Skips, Ahead, On
  <2>8. CASE Lifts(a)
    <3>1. /\ NeedsOn(todo[a], Launching)
          /\ Has(todo[a], "set") => Has(<<"ready">> \o Tail(todo[a]), "set")
      BY <1>1, <2>8, ReadyPlan DEF Lifts, Ahead
    <3> QED
      BY <1>1, <2>8, <3>1 DEF Lifts, Ahead, On
  <2> QED
    BY <1>6, <2>1, <2>2, <2>3, <2>4, <2>5, <2>6, <2>7, <2>8 DEF Works
<1>7. \A a \in Actor : P(a)' /\ Q(a)'
  <2> HIDE DEF P, Q
  <2>1. CASE registry' = registry /\ \A b \in Actor : Stays(b) \/ Quits(b)
    BY <1>4, <1>5, <2>1
  <2>2. ASSUME NEW a \in Actor, Works(a), \A b \in Actor \ {a} : Stays(b), NEW b \in Actor
        PROVE  P(b)' /\ Q(b)'
    <3>1. CASE b = a
      BY <1>6, <2>2, <3>1
    <3>2. CASE b # a
      <4>1. Holds(b) => registry'[On(b)] = registry[On(b)]
        BY <2>2, <3>2, RecordKept
      <4> QED
        BY <1>4, <2>2, <3>2, <4>1
    <3> QED
      BY <3>1, <3>2
  <2> QED
    BY <2>1, <2>2, Effects
<1> QED
  BY <1>7 DEF P, Q, AsSwitched, SessionOn

-----------------------------------------------------------------------------
(* A stack in a project that is switched off is about to be stopped, by    *)
(* the handler inside that switches it off, or that handler was cut.       *)

StopIsNear ==
  /\ \A a \in Actor :
       /\ call[a].op \in Op
       /\ Holds(a) /\ SwitchingOff(a) => StopComing(todo[a]) \/ stack[On(a)] = "down"
       /\ Holds(a) /\ snap[a] # None /\ ModeIn(snap[a], On(a)) = "stop" =>
            stack[On(a)] = "down" \/ On(a) \in cut \/ SwitchingOff(a)
  /\ \A p \in Project : ModeIn(registry, p) = "stop" =>
       \/ stack[p] = "down" \/ p \in cut
       \/ \E a \in Actor : On(a) = p /\ Holds(a) /\ SwitchingOff(a)

LEMMA StepStopIsNear ==
  ASSUME NEW S, S = {"register", "set"}, \A o \in Op : Suits(o, S, Launching),
         Op \subseteq LaunchesInside,
         IInv, Alone, Planned(S, Launching), SwitchedOn(Launching), StopIsNear,
         [Next]_vars, [OwnRecord]_vars
  PROVE  StopIsNear'
<1> DEFINE P(a) == /\ call[a].op \in Op
                   /\ Holds(a) /\ SwitchingOff(a) => StopComing(todo[a]) \/ stack[On(a)] = "down"
                   /\ Holds(a) /\ snap[a] # None /\ ModeIn(snap[a], On(a)) = "stop" =>
                        stack[On(a)] = "down" \/ On(a) \in cut \/ SwitchingOff(a)
           N(p) == ModeIn(registry, p) = "stop" =>
                     \/ stack[p] = "down" \/ p \in cut
                     \/ \E a \in Actor : On(a) = p /\ Holds(a) /\ SwitchingOff(a)
<1>1. /\ \A a \in Actor : /\ P(a) /\ todo[a] \in Seq(Steps) /\ On(a) \in Project
                          /\ Plan(todo[a], call[a].op, call[a].mode, S, Launching)
                          /\ SwitchingOff(a) => Quiet(todo[a])
                          /\ call[a].op # "start_projects"
                          /\ call[a].mode \in Mode \cup {NoMode}
      /\ \A p \in Project : N(p)
  BY DEF Planned, StopIsNear, IInv, TypeOK, On, GoesDown, LaunchesInside
<1>2. ASSUME NEW s \in Seq(Steps), s # <<>>, NEW o, NEW m, Plan(s, o, m, S, Launching)
      PROVE  /\ o = "mode_set" /\ m = "stop" /\ Head(s) = "lock" => StopComing(Tail(s))
             /\ StopComing(s) => \/ Head(s) \in {"set", "register", "sync"} /\ StopComing(Tail(s))
                                 \/ Head(s) = "stop"
             /\ Has(s, Head(s))
             /\ Head(s) = "start" => NeedsOn(s, Launching)
  <2>1. Launching \in SUBSET Acting /\ "start" \in Launching
    BY DEF Launching, Acting
  <2> QED
    BY <1>2, <2>1, TailPlan
<1>3. \A a \in Actor : StopComing(todo[a]) =>
        todo[a] # <<>> /\ Head(todo[a]) \in {"set", "register", "sync", "stop"}
  <2> SUFFICES ASSUME NEW a \in Actor, StopComing(todo[a])
               PROVE  todo[a] # <<>> /\ Head(todo[a]) \in {"set", "register", "sync", "stop"}
    OBVIOUS
  <2>1. todo[a] # <<>>
    BY DEF StopComing
  <2> QED
    BY <1>1, <1>2, <2>1
<1>4. \A a \in Actor : SwitchingOff(a) /\ todo[a] # <<>> => Head(todo[a]) \notin {"auto", "start"}
  BY <1>1, TailSteps DEF IInv, Scripted, QuietSteps
<1>0. CutKept
  BY CutEffect
<1>5. ASSUME NEW a \in Actor, Stays(a), stack[On(a)] = "down" => stack'[On(a)] = "down" \/ ~Holds(a)
      PROVE  P(a)'
  BY <1>0, <1>1, <1>5 DEF Stays, On, SwitchingOff, CutKept
<1>6. ASSUME NEW a \in Actor, Quits(a) PROVE P(a)'
  BY <1>1, <1>6 DEF Quits
<1>7. ASSUME NEW a \in Actor, Works(a) PROVE P(a)'
  <2>1. CASE Begins(a)
    BY <2>1 DEF Begins
  <2>2. CASE Takes(a)
    BY <1>1, <1>2, <2>2 DEF Takes, Ahead, SwitchingOff
  <2>3. CASE Frees(a)
    BY <1>1, <2>3 DEF Frees, Ahead
  <2>4. CASE StackFalls /\ Reads(a)
    <3>1. /\ On(a)' = On(a) /\ (SwitchingOff(a)' <=> SwitchingOff(a)) /\ (Holds(a)' <=> Holds(a))
          /\ call'[a] = call[a] /\ todo'[a] = todo[a] /\ snap'[a] = registry
          /\ stack[On(a)] = "down" => stack'[On(a)] = "down"
      BY <1>1, <2>4 DEF Reads, On, SwitchingOff, StackFalls
    <3>2. Holds(a) /\ ModeIn(registry, On(a)) = "stop" =>
            stack[On(a)] = "down" \/ On(a) \in cut \/ SwitchingOff(a)
      BY <1>1 DEF Alone
    <3>3. On(a) \in cut => On(a) \in cut' \/ stack'[On(a)] = "down"
      BY <1>0 DEF CutKept
    <3> QED
      BY <1>1, <3>1, <3>2, <3>3
  <2>5. CASE StackFalls /\ Writes(a)
    <3>1. /\ On(a)' = On(a) /\ (SwitchingOff(a)' <=> SwitchingOff(a)) /\ (Holds(a)' <=> Holds(a))
          /\ call'[a] = call[a] /\ todo'[a] = Tail(todo[a]) /\ snap'[a] = None
          /\ stack[On(a)] = "down" => stack'[On(a)] = "down"
          /\ todo[a] # <<>> /\ Head(todo[a]) # "stop"
      BY <1>1, <2>5
      DEF Writes, WriteRegistry, At, Idle, On, SwitchingOff, StackFalls
    <3> QED
      BY <1>1, <1>2, <3>1
  <2>6. CASE StackFalls /\ Moves(a)
    <3>1. /\ On(a)' = On(a) /\ (SwitchingOff(a)' => SwitchingOff(a)) /\ (Holds(a)' <=> Holds(a))
          /\ call'[a].op = call[a].op /\ snap'[a] = None
          /\ stack[On(a)] = "down" => stack'[On(a)] = "down"
      BY <1>1, <2>6 DEF Moves, SwitchingOff, StackFalls
    <3>2. StopComing(todo[a]) => StopComing(Tail(todo[a])) \/ stack'[On(a)] = "down"
      BY <1>1, <1>2, <2>6 DEF Moves, RegistrySteps
    <3>3. todo'[a] = Tail(todo[a]) /\ On(a)' = On(a)
      BY <2>6 DEF Moves
    <3> QED
      BY <1>1, <3>1, <3>2, <3>3
  <2>7. CASE Skips(a) \/ Lifts(a)
    <3>1. /\ (SwitchingOff(a)' <=> SwitchingOff(a)) /\ call'[a] = call[a] /\ snap'[a] = None
          /\ todo[a] # <<>> /\ Head(todo[a]) \in {"auto", "start"}
      BY <2>7 DEF Skips, Lifts, Ahead, SwitchingOff
    <3> QED
      BY <1>1, <1>4, <3>1
  <2> QED
    BY <1>7, <2>1, <2>2, <2>3, <2>4, <2>5, <2>6, <2>7 DEF Works
<1>8. CASE registry' = registry /\ StackFalls /\ \A b \in Actor : Stays(b) \/ Quits(b)
  <2>1. \A b \in Actor : P(b)'
    <3> HIDE DEF P
    <3> QED
      BY <1>1, <1>5, <1>6, <1>8 DEF StackFalls
  <2>2. ASSUME NEW p \in Project, ModeIn(registry, p) = "stop", stack'[p] # "down", p \notin cut'
        PROVE  \E a \in Actor : (On(a) = p /\ Holds(a) /\ SwitchingOff(a))'
    <3>1. stack[p] # "down" /\ p \notin cut
      BY <1>0, <1>8, <2>2 DEF StackFalls, CutKept
    <3>2. PICK a \in Actor : On(a) = p /\ Holds(a) /\ SwitchingOff(a)
      BY <1>1, <2>2, <3>1
    <3>3. Has(todo[a], "stop")
      BY <1>1, <3>1, <3>2 DEF StopComing, Has
    <3>4. ~Quits(a)
      BY <2>2, <3>2, <3>3 DEF Quits
    <3> QED
      BY <1>8, <3>2, <3>4 DEF Stays, On, SwitchingOff
  <2>3. \A p \in Project : N(p)'
    BY <1>8, <2>2
  <2> QED
    BY <2>1, <2>3 DEF StopIsNear
<1>9. ASSUME NEW a \in Actor, Works(a), \A b \in Actor \ {a} : Stays(b)
      PROVE  StopIsNear'
  <2>1. ASSUME NEW b \in Actor, b # a PROVE P(b)'
    <3>1. CASE StackFalls
      BY <1>1, <1>5, <1>9, <2>1, <3>1 DEF StackFalls
    <3>2. CASE Lifts(a)
      <4>1. On(b) # On(a) \/ ~Holds(b)
        BY <2>1, <3>2 DEF Lifts, Alone
      <4>2. On(b) # On(a) => stack'[On(b)] = stack[On(b)]
        BY <1>1, <3>2 DEF Lifts
      <4> QED
        BY <1>5, <1>9, <2>1, <4>1, <4>2
    <3> QED
      BY <1>9, <3>1, <3>2 DEF Works
  <2>2. ASSUME NEW p \in Project, ModeIn(registry', p) = "stop", stack'[p] # "down", p \notin cut'
        PROVE  \E b \in Actor : (On(b) = p /\ Holds(b) /\ SwitchingOff(b))'
    <3>0. stack[p] # "down" => p \notin cut
      BY <1>0, <2>2 DEF CutKept
    <3>1. CASE stack[p] = "down"
      <4>1. Lifts(a) /\ p = On(a)
        BY <1>9, <2>2, <3>1 DEF Works, StackFalls, Lifts
      <4>2. NeedsOn(todo[a], Launching)
        BY <1>1, <1>2, <4>1 DEF Lifts, Ahead
      <4>3. ModeIn(registry, p) # "stop"
        BY <1>1, <4>1, <4>2 DEF SwitchedOn, Lifts
      <4> QED
        BY <2>2, <4>1, <4>3 DEF Lifts, Ahead
    <3>2. CASE stack[p] # "down" /\ ModeIn(registry, p) = "stop"
      <4>1. PICK b \in Actor : On(b) = p /\ Holds(b) /\ SwitchingOff(b)
        BY <1>1, <3>0, <3>2
      <4>2. CASE b # a
        BY <1>9, <4>1, <4>2 DEF Stays, On, SwitchingOff
      <4>3. CASE b = a
        <5>1. todo[a] # <<>> /\ Head(todo[a]) # "unlock" /\ call[a].op # "start_projects"
          BY <1>1, <1>3, <3>2, <4>1, <4>3
        <5>2. Holds(a)' /\ call'[a] = call[a]
          BY <1>9, <4>1, <4>3, <5>1
          DEF Works, Begins, Takes, Frees, Reads, Writes, Moves, Skips, Lifts, Ahead
        <5> QED
          BY <4>1, <4>3, <5>2 DEF On, SwitchingOff
      <4> QED
        BY <4>2, <4>3
    <3>3. CASE stack[p] # "down" /\ ModeIn(registry, p) # "stop"
      <4>1. Writes(a)
        BY <1>9, <2>2, <3>3
        DEF Works, Begins, Takes, Frees, Reads, ReadRegistry, Moves, Skips, Lifts, Ahead
      <4>2. p = On(a)
        <5>1. OwnRecord \/ registry' = registry
          BY DEF vars
        <5>2. p # On(a) => registry'[p] = registry[p]
          BY <4>1, <5>1 DEF OwnRecord, Writes
        <5> QED
          BY <2>2, <3>3, <5>2 DEF ModeIn
      <4>3. /\ todo[a] # <<>> /\ snap[a] # None /\ snap[a] \in Records
            /\ On(a)' = On(a) /\ (Holds(a)' <=> Holds(a))
            /\ SwitchingOff(a)' <=> SwitchingOff(a)
        BY <4>1 DEF Writes, WriteRegistry, At, Idle, On, SwitchingOff
      <4>4. Head(todo[a]) \in {"register", "set"} => Holds(a)
        <5>1. Holds(a) \/ Behind(todo[a], S)
          BY DEF Planned
        <5> QED
          BY <1>1, <4>3, <5>1, TailIndex DEF Behind
      <4>5. CASE Head(todo[a]) = "register"
        <5>1. registry' = Registered(snap[a], On(a), NoMode)
          BY <4>1, <4>5 DEF Writes, WriteRegistry, At
        <5>2. ModeIn(snap[a], On(a)) = "stop"
          BY <1>1, <2>2, <4>2, <4>3, <5>1 DEF Registered, ModeIn, Records
        <5> QED
          BY <1>1, <3>0, <3>3, <4>2, <4>3, <4>4, <4>5, <5>2
      <4>6. CASE Head(todo[a]) = "set"
        <5>1. registry' = Registered(snap[a], On(a), call[a].mode)
          BY <4>1, <4>6 DEF Writes, WriteRegistry, At
        <5>2. call[a].op = "mode_set" /\ call[a].mode # NoMode
          BY <1>1, <1>2, <4>3, <4>6 DEF Plan, Legal, Planned
        <5>3. call[a].mode = "stop"
          BY <1>1, <2>2, <4>2, <4>3, <5>1, <5>2 DEF Registered, ModeIn, Records, Mode
        <5> QED
          BY <4>2, <4>3, <4>4, <4>6, <5>2, <5>3 DEF SwitchingOff
      <4>7. CASE Head(todo[a]) = "unregister"
        BY <1>1, <2>2, <4>1, <4>2, <4>7 DEF Writes, WriteRegistry, At, Unregistered, ModeIn
      <4> QED
        BY <4>1, <4>5, <4>6, <4>7 DEF Writes, WriteRegistry, At
    <3> QED
      BY <3>1, <3>2, <3>3
  <2>3. \A p \in Project : N(p)'
    BY <2>2
  <2>4. \A b \in Actor : P(b)'
    <3> HIDE DEF P
    <3> QED
      BY <1>7, <1>9, <2>1
  <2> QED
    BY <2>3, <2>4 DEF StopIsNear
<1> QED
  BY <1>8, <1>9, Effects

-----------------------------------------------------------------------------
(* What the mode decides. *)

(* One project has no other whose record could be undone: the run          *)
(* LifecycleLocked satisfies what the theorems assume.                     *)
LEMMA AloneIsOrderly ==
  ASSUME \A p, q \in Project : p = q
  PROVE  Spec => Orderly
<1>1. IInv => OwnRecord
  BY DEF OwnRecord, IInv, TypeOK, On
<1>2. IInv /\ [Next]_vars => [OwnRecord]_vars
  BY <1>1
<1> QED
  BY <1>2, Invariant, PTL DEF Spec, Orderly

(* Handlers that purge nothing never meet another one inside.              *)
Undisturbed == IInv /\ Keeping /\ Named

LEMMA UndisturbedAlone == Undisturbed => Alone
BY NamedAlone DEF Undisturbed

LEMMA InitUndisturbed == Init => Undisturbed
BY InitInv, NoSteps, LifecycleAssumption DEF Undisturbed, Init, Keeping, Named

LEMMA StepUndisturbed ==
  ASSUME Op \cap Purging = {}, Undisturbed, [Next]_vars
  PROVE  Undisturbed'
BY StepInv, StepKeeping, StepNamed DEF Undisturbed

(* Nothing runs or is launched in a project that is switched off: the      *)
(* check still holds when the handler acts, also beside crashes and bulk   *)
(* starts (README.md:370).  Every handler may be called but the two        *)
(* profile handlers, project_mode_get and the two that purge; with any of  *)
(* the five it fails.                                                      *)
THEOREM OffRefuses ==
  ASSUME Op \subseteq DecidesInside
  PROVE  Spec /\ Orderly => StoppedRefuses
<1> DEFINE S == {"register", "set", "run"}
           J == Undisturbed /\ Planned(S, Acting) /\ SwitchedOn(Acting)
           A == \A a \in Actor :
                  Run(a) \/ (Launch(a) /\ call[a].op # "start_projects") =>
                    ModeIn(registry, On(a)) # "stop"
<1>1. Op \cap Purging = {} /\ \A o \in Op : Suits(o, S, Acting)
  BY Plans DEF DecidesInside
<1>0. Undisturbed => IInv
  BY DEF Undisturbed
<1>2. Init => J
  <2>1. Init => SwitchedOn(Acting)
    BY NothingLeft DEF Init, SwitchedOn
  <2> QED
    BY <2>1, InitUndisturbed, InitPlanned
<1>3. J /\ [Next]_vars /\ [OwnRecord]_vars => J'
  BY <1>0, <1>1, UndisturbedAlone, StepUndisturbed, StepPlanned, StepSwitchedOn
<1>4. J => A
  <2> SUFFICES ASSUME J, NEW a \in Actor,
                      Run(a) \/ (Launch(a) /\ call[a].op # "start_projects")
               PROVE  ModeIn(registry, On(a)) # "stop"
    OBVIOUS
  <2>1. /\ todo[a] # <<>> /\ todo[a] \in Seq(Steps) /\ Head(todo[a]) \in {"run", "start"}
        /\ Head(todo[a]) = "start" => call[a].op # "start_projects"
    BY <1>0 DEF Run, Launch, At, Idle, IInv, TypeOK
  <2>2. Plan(todo[a], call[a].op, call[a].mode, S, Acting)
    BY DEF Planned
  <2>3. /\ NeedsOn(todo[a], Acting) /\ Has(todo[a], Head(todo[a]))
        /\ Behind(todo[a], S) => Head(todo[a]) \notin S
    <3>1. Acting \in SUBSET Acting /\ Head(todo[a]) \in Acting
      BY <2>1 DEF Acting
    <3> HIDE DEF S
    <3> QED
      BY <2>1, <2>2, <3>1, TailPlan
  <2>4. call[a].op # "start_projects"
    BY <2>1, <2>2, <2>3 DEF Plan, Legal
  <2>5. Holds(a)
    <3>1. CASE Head(todo[a]) = "run"
      BY <2>3, <3>1 DEF Planned
    <3>2. CASE Head(todo[a]) = "start"
      BY <1>0, <2>1, <3>2, GuardedInside DEF Idle, Guarded
    <3> QED
      BY <2>1, <3>1, <3>2
  <2> QED
    BY <2>3, <2>4, <2>5 DEF SwitchedOn
<1>5. J /\ [Next]_vars => [A]_vars
  BY <1>4
<1> HIDE DEF J, A
<1>6. Spec /\ Orderly => [][A]_vars
  BY <1>2, <1>3, <1>5, PTL DEF Spec, Orderly
<1> QED
  BY <1>6 DEF A, StoppedRefuses

(* The invariant of project_mode_set and of sessions: only register, set   *)
(* and unregister write the record of a project that is held.              *)
SwitchWrites == {"register", "set", "unregister"}

SInv == Undisturbed /\ Planned(SwitchWrites, Launching) /\ AsSwitched /\ SessionOn

LEMMA SwitchedInvariant ==
  ASSUME Op \subseteq WritesInside
  PROVE  Spec /\ Orderly => []SInv
<1>1. Op \cap Purging = {} /\ \A o \in Op : Suits(o, SwitchWrites, Launching)
  BY Plans DEF SwitchWrites, WritesInside
<1>2. Init => SInv
  <2>1. Init => AsSwitched /\ SessionOn
    BY LifecycleAssumption DEF Init, AsSwitched, SessionOn, Holds, On
  <2> QED
    BY <2>1, InitUndisturbed, InitPlanned DEF SInv
<1>3. SInv /\ [Next]_vars /\ [OwnRecord]_vars => SInv'
  <2>1. SwitchWrites \in SUBSET {"register", "set", "unregister", "run"}
        /\ {"register", "set", "unregister"} \subseteq SwitchWrites
    BY DEF SwitchWrites
  <2> SUFFICES ASSUME SInv, [Next]_vars, [OwnRecord]_vars PROVE SInv'
    OBVIOUS
  <2>2. /\ IInv /\ Undisturbed /\ Alone
        /\ Planned(SwitchWrites, Launching) /\ AsSwitched /\ SessionOn
    BY UndisturbedAlone DEF SInv, Undisturbed
  <2>3. AsSwitched' /\ SessionOn'
    BY <1>1, <2>1, <2>2, StepAsSwitched
  <2> QED
    BY <1>1, <2>1, <2>2, <2>3, StepUndisturbed, StepPlanned DEF SInv
<1> QED
  BY <1>2, <1>3, PTL DEF Spec, Orderly

(* project_mode_set returns with the project in the mode that was asked    *)
(* for (docs/poc-scope.md:38), whichever handlers run beside it but those  *)
(* that purge, and with them the lock, or register without the lock:       *)
(* project_purge, delete_projects and project_mode_get; with any of them   *)
(* it fails.                                                               *)
THEOREM ModeIsSet ==
  ASSUME Op \subseteq WritesInside
  PROVE  Spec /\ Orderly => ModeSetTakesEffect
<1> DEFINE A == \A a \in Actor :
                  Unlock(a) /\ call[a].op = "mode_set" => ModeIn(registry, On(a)) = call[a].mode
<1>1. SInv => A
  <2> SUFFICES ASSUME SInv, NEW a \in Actor, Unlock(a), call[a].op = "mode_set"
               PROVE  ModeIn(registry, On(a)) = call[a].mode
    OBVIOUS
  <2>1. todo[a] # <<>> /\ todo[a] \in Seq(Steps) /\ Head(todo[a]) = "unlock"
    BY DEF Unlock, At, Idle, SInv, Undisturbed, IInv, TypeOK
  <2>2. Plan(todo[a], call[a].op, call[a].mode, SwitchWrites, Launching)
    BY DEF SInv, Planned
  <2>3. ~Has(todo[a], "set")
    <3>1. Launching \in SUBSET Acting /\ "set" \in SwitchWrites \ {"unlock"}
      BY DEF Launching, Acting, SwitchWrites
    <3> QED
      BY <2>1, <2>2, <3>1, TailPlan
  <2>4. Holds(a)
    BY <2>1, GuardedInside DEF Idle, SInv, Undisturbed, Guarded
  <2> QED
    BY <2>3, <2>4 DEF SInv, AsSwitched
<1>2. SInv /\ [Next]_vars => [A]_vars
  BY <1>1
<1>3. Spec /\ Orderly => []SInv
  BY SwitchedInvariant
<1> HIDE DEF A
<1>4. Spec /\ Orderly => [][A]_vars
  BY <1>2, <1>3, PTL DEF Spec
<1> QED
  BY <1>4 DEF A, ModeSetTakesEffect

(* A session launches a stack only in a project that is registered as one  *)
(* to start (daemon.py:337-339), under the same conditions.                *)
THEOREM SessionsObey ==
  ASSUME Op \subseteq WritesInside
  PROVE  Spec /\ Orderly => SessionRespectsMode
<1> DEFINE A == \A a \in Actor :
                  Launch(a) /\ call[a].op = "session_start" => registry[On(a)] = "start"
<1>1. SInv => A
  <2> SUFFICES ASSUME SInv, NEW a \in Actor, Launch(a), call[a].op = "session_start"
               PROVE  registry[On(a)] = "start"
    OBVIOUS
  <2>1. todo[a] # <<>> /\ todo[a] \in Seq(Steps) /\ Head(todo[a]) = "start"
    BY DEF Launch, At, Idle, SInv, Undisturbed, IInv, TypeOK
  <2>2. NeedsOn(todo[a], Launching)
    <3>1. "start" \in Launching
      BY DEF Launching
    <3>2. 1 \in 1..Len(todo[a]) /\ todo[a][1] = "start"
      BY <2>1, TailIndex
    <3> QED
      BY <3>1, <3>2 DEF NeedsOn
  <2>3. Holds(a)
    BY <2>1, GuardedInside DEF Idle, SInv, Undisturbed, Guarded
  <2> QED
    BY <2>2, <2>3 DEF SInv, SessionOn
<1>2. SInv /\ [Next]_vars => [A]_vars
  BY <1>1
<1>3. Spec /\ Orderly => []SInv
  BY SwitchedInvariant
<1> HIDE DEF A
<1>4. Spec /\ Orderly => [][A]_vars
  BY <1>2, <1>3, PTL DEF Spec
<1> QED
  BY <1>4 DEF A, SessionRespectsMode

(* A project that is switched off has no stack once nobody is inside       *)
(* (README.md:370), whatever crashes or fails, unless it is the switch     *)
(* itself that ends half-way; bulk starts, project_mode_get and the two    *)
(* handlers that purge excepted.                                           *)
THEOREM OffIsDown ==
  ASSUME Op \subseteq LaunchesInside
  PROVE  Spec /\ Orderly => []StopIsOff
<1> DEFINE S == {"register", "set"}
           J == Undisturbed /\ Planned(S, Launching) /\ SwitchedOn(Launching) /\ StopIsNear
<1>1. Op \cap Purging = {} /\ \A o \in Op : Suits(o, S, Launching)
  BY Plans DEF LaunchesInside
<1>0. Undisturbed => IInv
  BY DEF Undisturbed
<1>2. Init => J
  <2>1. Init => SwitchedOn(Launching)
    BY NothingLeft DEF Init, SwitchedOn
  <2>2. Init => StopIsNear
    BY LifecycleAssumption DEF Init, StopIsNear, Holds, On
  <2> QED
    BY <2>1, <2>2, InitUndisturbed, InitPlanned
<1>3. J /\ [Next]_vars /\ [OwnRecord]_vars => J'
  BY <1>0, <1>1, UndisturbedAlone, StepUndisturbed, StepPlanned, StepSwitchedOn, StepStopIsNear
<1>4. J => StopIsOff
  BY DEF StopIsNear, StopIsOff, Holds
<1> HIDE DEF J
<1> QED
  BY <1>2, <1>3, <1>4, PTL DEF Spec, Orderly

-----------------------------------------------------------------------------
(* The lock of each project, as the handlers use it. *)

CONSTANT Here  \* any project

(* Those inside whose file is still the one of that name; a purge takes the *)
(* name from under its holder (supervisor.py:1842).                        *)
Inside == {a \in inside : On(a) = Here /\ handle[a] = lockFile[Here]}

Section == INSTANCE ExclusiveSection WITH inside <- Inside

LEMMA LeftSection ==
  ASSUME TypeOK', Inside' \subseteq Inside, Inside \subseteq Actor
  PROVE  Section!Next
<1>1. Inside' = Inside \ (Inside \ Inside') /\ Inside \ Inside' \in SUBSET Actor
  OBVIOUS
<1> HIDE DEF Inside
<1> QED
  BY ONLY <1>1 DEF Section!Next, Section!Leave

(* Whoever is inside after a step that is no Lock was inside before it, on *)
(* the same project and with the same file open,                           *)
LEMMA InsideKept ==
  ASSUME IInv, [Next]_vars, \A a \in Actor : ~Lock(a), NEW b \in inside'
  PROVE  b \in inside /\ On(b)' = On(b) /\ handle'[b] = handle[b]
<1> DEFINE Kept == b \in inside /\ On(b)' = On(b) /\ handle'[b] = handle[b]
<1> USE LifecycleAssumption
<1>1. ASSUME NEW a \in Actor, NEW o \in Op, NEW p \in Project, NEW m \in Mode \cup {NoMode},
             Call(a, o, p, m)
      PROVE  Kept
  <2>1. ~Holds(a)
    BY <1>1, NoSteps DEF Call, Idle, IInv, Owed, Unlocks
  <2> QED
    BY <1>1, <2>1 DEF Call, Holds, On, IInv, TypeOK
<1>2. ASSUME NEW a \in Actor, Open(a) PROVE Kept
  <2>1. ~Holds(a)
    BY <1>2, NotInsideYet DEF Open, At, Entering
  <2> QED
    BY <1>2, <2>1 DEF Open, Holds, On, IInv, TypeOK
<1>3. ASSUME NEW a \in Actor, Raise(a), call' = call PROVE Kept
  BY <1>3 DEF Raise, On, IInv, TypeOK
<1>4. ASSUME NEW a \in Actor, Unlock(a) PROVE Kept
  BY <1>4 DEF Unlock, On, IInv, TypeOK
<1>5. ASSUME NEW a \in Actor, RememberMode(a) PROVE Kept
  BY <1>5 DEF RememberMode, On, IInv, TypeOK
<1>6. ASSUME inside' = inside, call' = call, handle' = handle PROVE Kept
  BY <1>6 DEF On
<1>7. ASSUME NEW a \in Crasher, Crash(a) PROVE Kept
  BY <1>7 DEF Crash, On, IInv, TypeOK
<1> HIDE DEF Kept
<1>8. ASSUME NEW a \in Actor, Advance(a) PROVE Kept
  BY <1>2, <1>3, <1>4, <1>5, <1>6, <1>8
  DEF Advance, OpenFails, Locked, ReadRegistry, WriteRegistry, WriteFails, SyncIngress,
      CheckKnown, CheckStopped, CheckActive, AutoStart, AlreadyUp, Launch, LaunchFails, Ready,
      ReadyTimesOut, StopStack, PurgeStack, Run
<1>9. ASSUME NEW p \in Project, BecomeHealthy(p) \/ StackDies(p) PROVE Kept
  BY <1>6, <1>9 DEF BecomeHealthy, StackDies
<1>10. UNCHANGED vars => Kept
  BY <1>6 DEF vars
<1>11. Kept
  BY <1>1, <1>7, <1>8, <1>9, <1>10 DEF Next
<1> QED
  BY <1>11 DEF Kept

(* and no step gives the name to a file that somebody inside has open.     *)
LEMMA NameKept ==
  ASSUME IInv, [Next]_vars, NEW p \in Project, NEW b \in inside, lockFile'[p] = handle[b]
  PROVE  lockFile[p] = handle[b]
<1> USE LifecycleAssumption
<1>1. handle[b] # None /\ b \in Actor
  BY DEF IInv, TypeOK, Owed, Holds
<1>2. ASSUME NEW a \in Actor, Open(a) PROVE lockFile[p] = handle[b]
  BY <1>1, <1>2 DEF Open, IInv, TypeOK
<1>3. ASSUME NEW a \in Actor, PurgeStack(a) PROVE lockFile[p] = handle[b]
  BY <1>1, <1>3 DEF PurgeStack, IInv, TypeOK
<1>4. ASSUME NEW a \in Actor, Advance(a), ~Open(a), ~PurgeStack(a) PROVE lockFile' = lockFile
  BY <1>4
  DEF Advance, OpenFails, Lock, Locked, Unlock, ReadRegistry, WriteRegistry, WriteFails,
      SyncIngress, CheckKnown, RememberMode, CheckStopped, CheckActive, AutoStart, AlreadyUp,
      Launch, LaunchFails, Ready, ReadyTimesOut, StopStack, Run
<1>5. ASSUME NEW a \in Actor, NEW o \in Op, NEW q \in Project, NEW m \in Mode \cup {NoMode},
             Call(a, o, q, m)
      PROVE  lockFile' = lockFile
  BY <1>5 DEF Call
<1>6. ASSUME NEW q \in Project, BecomeHealthy(q) \/ StackDies(q) PROVE lockFile' = lockFile
  BY <1>6 DEF BecomeHealthy, StackDies
<1>7. ASSUME NEW a \in Crasher, Crash(a) PROVE lockFile' = lockFile
  BY <1>7 DEF Crash
<1>8. UNCHANGED vars => lockFile' = lockFile
  BY DEF vars
<1> QED
  BY <1>2, <1>3, <1>4, <1>5, <1>6, <1>7, <1>8 DEF Next

LEMMA StepSection ==
  ASSUME IInv, [Next]_vars, Here \in Project
  PROVE  [Section!Next]_Inside
<1>0. TypeOK' /\ Inside \subseteq Actor
  BY StepInv DEF IInv, TypeOK, Inside
<1>1. ASSUME NEW a \in Actor, Lock(a) PROVE Section!Next \/ UNCHANGED Inside
  <2>1. /\ inside' = inside \cup {a} /\ \A b \in inside : handle[b] # handle[a]
        /\ UNCHANGED <<lockFile, handle, call>>
    BY <1>1 DEF Lock
  <2>2. CASE On(a) = Here /\ handle[a] = lockFile[Here]
    <3>1. Inside = {} /\ Inside' = {a}
      BY <2>1, <2>2 DEF Inside, On
    <3> HIDE DEF Inside
    <3> QED
      BY ONLY <3>1, a \in Actor DEF Section!Next, Section!Enter
  <2>3. CASE ~(On(a) = Here /\ handle[a] = lockFile[Here])
    BY <2>1, <2>3 DEF Inside, On
  <2> QED
    BY <2>2, <2>3
<1>2. ASSUME \A a \in Actor : ~Lock(a) PROVE Section!Next
  <2>1. Inside' \subseteq Inside
    <3> SUFFICES ASSUME NEW b \in Inside' PROVE b \in Inside
      OBVIOUS
    <3>1. b \in inside' /\ On(b)' = Here /\ handle'[b] = lockFile'[Here]
      BY DEF Inside
    <3>2. b \in inside /\ On(b) = Here /\ handle'[b] = handle[b]
      BY <1>2, <3>1, InsideKept
    <3>3. lockFile[Here] = handle[b]
      BY <3>1, <3>2, NameKept
    <3> QED
      BY <3>2, <3>3 DEF Inside
  <2> QED
    BY <1>0, <2>1, LeftSection
<1> QED
  BY ONLY <1>1, <1>2

(* The handlers ask of each project's lock what ExclusiveSection promises, *)
(* and no more: of those whose file is still the one named .lock, a        *)
(* handler enters when nobody is inside, and it leaves when it ends,       *)
(* raises, purges or dies with its process.  ProjectLock implements that   *)
(* same section of the same actors (daemon.py:281-313).                    *)
THEOREM LocksAreSections ==
  Here \in Project => (Spec => Section!Spec)
<1> SUFFICES ASSUME Here \in Project PROVE Spec => Section!Spec
  OBVIOUS
<1>1. Init => Section!Init
  BY DEF Init, Section!Init, Inside
<1>2. IInv /\ [Next]_vars => [Section!Next]_Inside
  BY StepSection
<1> QED
  BY <1>1, <1>2, Invariant, PTL DEF Spec, Section!Spec

-----------------------------------------------------------------------------
(* Every handler comes to an end, and no wait of a holder is for a lock:   *)
(* what LockIsReleased rests on besides fairness.                          *)

(* Deadlock needs somebody who keeps one lock and waits for another.  The  *)
(* one wait is for an RLock, at "open"; whoever holds an RLock, and the    *)
(* flock with it, is on the way to give it back and opens no lock file     *)
(* before that, whatever it does in between (daemon.py:281-313).           *)
NoHoldAndWait ==
  \A a \in Actor :
    handle[a] # None \/ a \in inside =>
      Has(todo[a], "unlock") /\ \A i \in 1..Len(todo[a]) : todo[a][i] # "open"

THEOREM HoldersWaitForNoLock == Spec => []NoHoldAndWait
<1>1. IInv => NoHoldAndWait
  BY DEF IInv, Owed, Holds, Unlocks, Has, NoHoldAndWait
<1> QED
  BY <1>1, Invariant, PTL

(* How far a handler is from its end: the steps that are left, a stack     *)
(* that is not launched yet, a registry that is not read yet.              *)
Launched(a) == IF At(a, "ready") THEN 0 ELSE 1
Read(a) == IF snap[a] = None THEN 1 ELSE 0
Distance(a) == 3 * Len(todo[a]) + Launched(a) + Read(a)

LEMMA ShorterNearer ==
  ASSUME TypeOK, TypeOK', NEW a \in Actor, Len(todo'[a]) < Len(todo[a])
  PROVE  Distance(a)' < Distance(a)
<1>1. Len(todo[a]) \in Nat /\ Len(todo'[a]) \in Nat
  BY LenProperties DEF TypeOK
<1>2. Launched(a) \in 0..1 /\ Launched(a)' \in 0..1 /\ Read(a) \in 0..1 /\ Read(a)' \in 0..1
  BY DEF Launched, Read
<1> QED
  BY <1>1, <1>2 DEF Distance

(* Every step of a handler brings it nearer to its end, and no step of     *)
(* another handler takes it away from it: no call goes back to a step it   *)
(* has taken, after an error least of all (daemon.py:315-741).             *)
HandlersRunOut ==
  [][\A a \in Actor : Advance(a) =>
       /\ Distance(a) \in Nat /\ Distance(a)' \in Nat /\ Distance(a)' < Distance(a)
       /\ \A b \in Actor \ {a} : Distance(b)' = Distance(b)]_vars

LEMMA AdvanceNearer ==
  ASSUME IInv, IInv', NEW a \in Actor, Advance(a)
  PROVE  Distance(a)' < Distance(a)
<1>1. TypeOK /\ TypeOK' /\ todo[a] \in Seq(Steps)
  BY DEF IInv, TypeOK
<1>2. ASSUME ~Idle(a), Proceed(a) PROVE Distance(a)' < Distance(a)
  <2>1. todo[a] # <<>> /\ todo'[a] = Tail(todo[a])
    BY <1>1, <1>2 DEF Proceed, Go, Idle, TypeOK
  <2>2. Len(todo[a]) \in Nat /\ Len(Tail(todo[a])) = Len(todo[a]) - 1
    BY <1>1, <2>1, TailIndex
  <2>3. Len(todo'[a]) < Len(todo[a])
    BY <2>1, <2>2
  <2> QED
    BY <1>1, <2>3, ShorterNearer
<1>3. ASSUME ~Idle(a), Raise(a) PROVE Distance(a)' < Distance(a)
  <2>1. todo[a] # <<>> /\ todo'[a] = <<>>
    BY <1>1, <1>3 DEF Raise, Go, Idle, TypeOK
  <2>2. Len(todo'[a]) = 0 /\ Len(todo[a]) \in Nat \ {0}
    <3>1. Len(todo'[a]) = 0
      BY <2>1
    <3>2. Len(todo[a]) \in Nat \ {0}
      BY <1>1, <2>1, TailIndex
    <3> QED
      BY <3>1, <3>2
  <2> QED
    BY <1>1, <2>2, ShorterNearer
<1>4. ASSUME ReadRegistry(a) PROVE Distance(a)' < Distance(a)
  <2>1. snap[a] = None /\ snap'[a] # None /\ todo' = todo
    BY <1>1, <1>4, LifecycleAssumption DEF ReadRegistry, TypeOK
  <2>2. Read(a) = 1 /\ Read(a)' = 0 /\ Launched(a)' = Launched(a) /\ Launched(a) \in 0..1
        /\ Len(todo[a]) \in Nat /\ Len(todo'[a]) = Len(todo[a])
    BY <1>1, <2>1, LenProperties DEF Read, Launched, At, Idle
  <2> QED
    BY <2>2 DEF Distance
<1>5. ASSUME AutoStart(a) PROVE Distance(a)' < Distance(a)
  <2>1. /\ todo[a] # <<>> /\ Tail(todo[a]) # <<>>
        /\ todo'[a] = Tail(todo[a]) \/ todo'[a] = Tail(Tail(todo[a]))
    BY <1>1, <1>5, TailSteps DEF AutoStart, At, Idle, Go, IInv, TypeOK, Scripted
  <2>2. Tail(todo[a]) \in Seq(Steps)
    BY <1>1, <2>1, TailIndex
  <2>3. Len(todo'[a]) < Len(todo[a])
    <3>1. Len(todo[a]) \in Nat /\ Len(Tail(todo[a])) = Len(todo[a]) - 1
      BY <1>1, <2>1, TailIndex
    <3>2. Len(Tail(Tail(todo[a]))) = Len(Tail(todo[a])) - 1
      BY <2>1, <2>2, TailIndex
    <3>3. Len(Tail(todo[a])) < Len(todo[a]) /\ Len(Tail(Tail(todo[a]))) < Len(todo[a])
      BY <3>1, <3>2
    <3> QED
      BY <2>1, <3>3
  <2> QED
    BY <1>1, <2>3, ShorterNearer
<1>6. ASSUME Launch(a) PROVE Distance(a)' < Distance(a)
  <2>1. /\ todo[a] # <<>> /\ Head(todo[a]) = "start" /\ snap' = snap
        /\ todo'[a] = <<"ready">> \o Tail(todo[a])
    BY <1>1, <1>6 DEF Launch, At, Idle, Go, TypeOK
  <2>2. Len(todo'[a]) = Len(todo[a]) /\ Len(todo[a]) \in Nat \ {0}
    BY <1>1, <2>1, ReadyIndex, TailIndex
  <2>3. At(a, "ready")' /\ ~At(a, "ready")
    <3>0. todo'[a] \in Seq(Steps) /\ todo'[a][1] = "ready"
      BY <1>1, <2>1, ReadyIndex
    <3>1. todo'[a] # <<>> /\ Head(todo'[a]) = "ready"
      BY <2>2, <3>0, TailIndex
    <3> QED
      BY <2>1, <3>1 DEF At, Idle
  <2>4. Launched(a) = 1 /\ Launched(a)' = 0 /\ Read(a)' = Read(a) /\ Read(a) \in 0..1
    BY <2>1, <2>3 DEF Launched, Read
  <2> QED
    BY <2>2, <2>4 DEF Distance
<1>7. ASSUME NEW s \in Steps, At(a, s), Proceed(a) \/ Raise(a) PROVE Distance(a)' < Distance(a)
  BY <1>2, <1>3, <1>7 DEF At
<1>8. ASSUME WriteRegistry(a) \/ WriteFails(a) PROVE Distance(a)' < Distance(a)
  BY <1>2, <1>3, <1>8 DEF WriteRegistry, WriteFails, At, Idle, IInv, SnapshotHeld
<1> QED
  BY ONLY Advance(a), <1>4, <1>5, <1>6, <1>7, <1>8
  DEF Advance, Steps, Open, OpenFails, Lock, Locked, Unlock, SyncIngress, CheckKnown, RememberMode,
      CheckStopped, CheckActive, AlreadyUp, LaunchFails, Ready, ReadyTimesOut, StopStack,
      PurgeStack, Run

LEMMA AdvanceAlone ==
  ASSUME IInv, NEW a \in Actor, Advance(a), NEW b \in Actor \ {a}
  PROVE  Distance(b)' = Distance(b)
<1>1. todo'[b] = todo[b] /\ snap'[b] = snap[b]
  <2>1. TypeOK
    BY DEF IInv
  <2>2. \A s : Go(a, s) => todo'[b] = todo[b]
    BY <2>1 DEF Go, TypeOK
  <2>3. Proceed(a) => todo'[b] = todo[b]
    BY <2>2 DEF Proceed
  <2>4. Raise(a) => todo'[b] = todo[b] /\ snap'[b] = snap[b]
    BY <2>1, <2>2 DEF Raise, TypeOK
  <2>5. ReadRegistry(a) \/ WriteRegistry(a) => todo'[b] = todo[b] /\ snap'[b] = snap[b]
    BY <2>1, <2>3 DEF ReadRegistry, WriteRegistry, TypeOK
  <2>6. AutoStart(a) \/ Launch(a) => todo'[b] = todo[b] /\ snap'[b] = snap[b]
    BY <2>2 DEF AutoStart, Launch
  <2> QED
    BY ONLY Advance(a), <2>3, <2>4, <2>5, <2>6
    DEF Advance, Open, OpenFails, Lock, Locked, Unlock, WriteFails, SyncIngress, CheckKnown,
        RememberMode, CheckStopped, CheckActive, AlreadyUp, LaunchFails, Ready, ReadyTimesOut, StopStack, PurgeStack, Run
<1> QED
  BY <1>1 DEF Distance, Launched, Read, At, Idle

THEOREM HandlersEnd == Spec => HandlersRunOut
<1> DEFINE A == \A a \in Actor : Advance(a) =>
                  /\ Distance(a) \in Nat /\ Distance(a)' \in Nat /\ Distance(a)' < Distance(a)
                  /\ \A b \in Actor \ {a} : Distance(b)' = Distance(b)
<1>1. IInv /\ IInv' => A
  <2>1. ASSUME IInv, IInv', NEW a \in Actor
        PROVE  Distance(a) \in Nat /\ Distance(a)' \in Nat
    <3>1. Len(todo[a]) \in Nat /\ Len(todo'[a]) \in Nat
      BY <2>1, LenProperties DEF IInv, TypeOK
    <3>2. Launched(a) \in Nat /\ Launched(a)' \in Nat /\ Read(a) \in Nat /\ Read(a)' \in Nat
      BY DEF Launched, Read
    <3>3. \A i, j, k \in Nat : 3 * i + j + k \in Nat
      OBVIOUS
    <3> QED
      BY <3>1, <3>2, <3>3, Zenon DEF Distance
  <2> QED
    BY <2>1, AdvanceNearer, AdvanceAlone
<1>2. IInv /\ [Next]_vars => [A]_vars
  BY <1>1, StepInv
<1> HIDE DEF A
<1>3. Spec => [][A]_vars
  BY <1>2, Invariant, PTL DEF Spec
<1> QED
  BY <1>3 DEF A, HandlersRunOut
=============================================================================
