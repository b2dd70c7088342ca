---------------------------- MODULE Registry_proofs ----------------------------
(***************************************************************************)
(* What the registry protocol guarantees: for any number of projects and   *)
(* uncoordinated writers, that no mode is made up; and that the project    *)
(* lock makes the cycle atomic when the state root has a single project.   *)
(***************************************************************************)
EXTENDS Registry, TLAPS

LEMMA RecordsType ==
  /\ NoRecords \in Records
  /\ \A r \in Records, p \in Project, m \in Mode \cup {NoMode} :
       Registered(r, p, m) \in Records
  /\ \A r \in Records, S \in SUBSET Project : Unregistered(r, S) \in Records
BY DEF Records, NoRecords, Registered, Unregistered, ModeIn, Mode

LEMMA ContentType ==
  /\ Empty \in Content
  /\ Torn \in Content
  /\ \A r \in Records : Json(r) \in Content
BY RecordsType DEF Empty, Torn, Json, Content

LEMMA PublishedType == TypeOK => Published \in Records
BY RecordsType DEF TypeOK, Published, Content

LEMMA InitType == Init => TypeOK
BY RecordsType, ContentType DEF Init, TypeOK, PC

LEMMA StepType == TypeOK /\ [Next]_vars => TypeOK'
<1> SUFFICES ASSUME TypeOK, [Next]_vars PROVE TypeOK'
  OBVIOUS
<1> USE RecordsType, ContentType, PublishedType, RegistryAssumption
<1>1. ASSUME NEW a \in Actor, NEW p \in Project, NEW m \in Asked, SetMode(a, p, m)
      PROVE TypeOK'
  BY <1>1 DEF TypeOK, PC, SetMode, Change
<1>2. ASSUME NEW a \in Actor, NEW p \in Project, Touch(a, p) PROVE TypeOK'
  BY <1>2 DEF TypeOK, PC, Touch, Change
<1>3. ASSUME NEW a \in Actor, NEW S \in SUBSET Project, Unregister(a, S) PROVE TypeOK'
  BY <1>3 DEF TypeOK, PC, Unregister, Change
<1>4. ASSUME NEW a \in Actor, OpenTmp(a) PROVE TypeOK'
  BY <1>4 DEF TypeOK, PC, OpenTmp
<1>5. ASSUME NEW a \in Actor, WriteTmp(a) PROVE TypeOK'
  <2>1. PICK c \in {Json(records[a]), Torn} :
          content' = [content EXCEPT ![handle[a]] = c]
    BY <1>5 DEF WriteTmp
  <2>2. c \in Content
    BY <2>1 DEF TypeOK
  <2> QED
    BY <1>5, <2>1, <2>2 DEF TypeOK, PC, WriteTmp
<1>6. ASSUME NEW a \in Actor, Replace(a) PROVE TypeOK'
  BY <1>6 DEF TypeOK, PC, Replace, Finish
<1>7. ASSUME NEW a \in Actor, ReplaceFails(a) PROVE TypeOK'
  BY <1>7 DEF TypeOK, PC, ReplaceFails, Finish
<1>8. ASSUME NEW a \in Actor, Crash(a) PROVE TypeOK'
  BY <1>8 DEF TypeOK, PC, Crash, Finish
<1>9. CASE UNCHANGED vars
  BY <1>9 DEF TypeOK, PC, vars
<1>10. ASSUME NEW a \in Actor, Step(a) PROVE TypeOK'
  BY ONLY <1>10, <1>1, <1>2, <1>3, <1>4, <1>5, <1>6, <1>7, <1>8 DEF Step
<1> QED
  BY <1>9, <1>10 DEF Next

(* The registry's variables keep their types. *)
THEOREM TypeCorrect == Spec => []TypeOK
BY InitType, StepType, PTL DEF Spec

-----------------------------------------------------------------------------

Vouched(r) == \A p \in Project : ModeIn(r, p) \in asked[p] \cup {"lazy"}

LEMMA VouchedNone == Vouched(NoRecords) /\ Vouched(Empty.records) /\ Vouched(Torn.records)
BY DEF Vouched, ModeIn, NoRecords, Empty, Torn

LEMMA VouchedPublished == TypeOK /\ NoInventedMode => Vouched(Published)
BY VouchedNone DEF TypeOK, NoInventedMode, Vouched, Published

LEMMA StepNoInventedMode == TypeOK /\ NoInventedMode /\ [Next]_vars => NoInventedMode'
<1> SUFFICES ASSUME TypeOK, NoInventedMode, [Next]_vars PROVE NoInventedMode'
  OBVIOUS
<1> USE RegistryAssumption DEF TypeOK, NoInventedMode
<1>0. Vouched(Published) /\ Published \in Records
  BY VouchedPublished, PublishedType
<1>1. ASSUME NEW a \in Actor, NEW p \in Project, NEW m \in Asked, SetMode(a, p, m)
      PROVE NoInventedMode'
  BY <1>0, <1>1 DEF SetMode, Change, Vouched, Registered, ModeIn, Records
<1>2. ASSUME NEW a \in Actor, NEW p \in Project, Touch(a, p) PROVE NoInventedMode'
  BY <1>0, <1>2 DEF Touch, Change, Vouched, Registered, ModeIn, Records
<1>3. ASSUME NEW a \in Actor, NEW S \in SUBSET Project, Unregister(a, S)
      PROVE NoInventedMode'
  BY <1>0, <1>3 DEF Unregister, Change, Vouched, Unregistered, ModeIn, Records
<1>4. ASSUME NEW a \in Actor, OpenTmp(a) PROVE NoInventedMode'
  BY <1>4, VouchedNone DEF OpenTmp, Vouched
<1>5. ASSUME NEW a \in Actor, WriteTmp(a) PROVE NoInventedMode'
  BY <1>5, VouchedNone DEF WriteTmp, Vouched, Json
<1>6. ASSUME NEW a \in Actor, Replace(a) PROVE NoInventedMode'
  BY <1>6, VouchedNone DEF Replace, Finish, Vouched
<1>7. ASSUME NEW a \in Actor, ReplaceFails(a) PROVE NoInventedMode'
  BY <1>7, VouchedNone DEF ReplaceFails, Finish, Vouched
<1>8. ASSUME NEW a \in Actor, Crash(a) PROVE NoInventedMode'
  BY <1>8, VouchedNone DEF Crash, Finish, Vouched
<1>9. CASE UNCHANGED vars
  BY <1>9 DEF vars
<1> QED
  BY <1>1, <1>2, <1>3, <1>4, <1>5, <1>6, <1>7, <1>8, <1>9 DEF Next, Step

(* No interleaving of writers, torn file or crash ever makes a project     *)
(* started or stopped that nobody asked to be (daemon.py:2746-2776).       *)
THEOREM ModesAreAsked == Spec => []NoInventedMode
<1>1. Init => NoInventedMode
  BY VouchedNone DEF Init, NoInventedMode, Vouched
<1> QED
  BY <1>1, TypeCorrect, StepNoInventedMode, PTL DEF Spec

-----------------------------------------------------------------------------

(* One project, every writer under its lock. *)
OneProject == Locked = Actor /\ \E p \in Project : Project = {p}

(* At most one actor is in the cycle. *)
Serial ==
  /\ \A a \in Actor : pc[a] # "idle" => about[a] = Project
  /\ \A a, b \in Actor : pc[a] # "idle" /\ pc[b] # "idle" => a = b

(* Who is writing has the temporary file to itself. *)
TmpApart == tmp # NoInode => tmp # file
HandleTmp == \A a \in Actor :
               /\ pc[a] = "opened" => /\ handle[a] = tmp
                                      /\ tmp # NoInode
                                      /\ content[tmp] = Empty
               /\ pc[a] # "opened" => handle[a] = NoInode

(* The temporary file that is to be renamed is complete. *)
TmpComplete == \A a \in Actor :
                 pc[a] = "written" => tmp # NoInode /\ content[tmp] = Json(records[a])

(* What an actor has in memory is one change away from what is published. *)
OneChange == \A a \in Actor :
  IF pc[a] = "idle"
  THEN about[a] = {} /\ wants[a] = NoMode
  ELSE /\ wants[a] \in Mode \cup {NoMode}
       /\ \E p \in Project : /\ about[a] = {p}
                            /\ records[a] = Registered(Published, p, wants[a])

SerialInv == Serial /\ TmpApart /\ HandleTmp /\ TmpComplete /\ OneChange /\ NeverTorn

LEMMA InitSerial == Init => SerialInv
BY DEF Init, SerialInv, Serial, TmpApart, HandleTmp, TmpComplete, OneChange, NeverTorn

(* A step that is not a rename leaves what is published as it is. *)
LEMMA PublishedStays ==
  ASSUME TypeOK, SerialInv, NEW a \in Actor,
         OpenTmp(a) \/ WriteTmp(a) \/ ReplaceFails(a) \/ Crash(a)
  PROVE  UNCHANGED Published /\ file' = file /\ (NeverTorn => NeverTorn')
BY RegistryAssumption
DEF TypeOK, SerialInv, TmpApart, HandleTmp, Published, NeverTorn, OpenTmp,
    WriteTmp, ReplaceFails, Crash, Finish

LEMMA StepSerial ==
  ASSUME OneProject, TypeOK, SerialInv, [Next]_vars
  PROVE  SerialInv'
<1> USE RegistryAssumption, RecordsType, ContentType
<1>1. ASSUME NEW a \in Actor, NEW p \in Project, NEW m \in Mode \cup {NoMode},
             Change(a, {p}, m, Registered(Published, p, m)),
             a \in Locked
      PROVE SerialInv'
  <2>1. Project = {p} /\ \A b \in Actor : pc[b] = "idle"
    BY <1>1 DEF OneProject, Change, MayStart, SerialInv, Serial
  <2>2. Published' = Published
    BY <1>1 DEF Change, Published
  <2>3. OneChange'
    <3>1. ASSUME NEW b \in Actor, b # a PROVE pc'[b] = "idle" /\ about'[b] = {} /\ wants'[b] = NoMode
      BY <1>1, <2>1, <3>1 DEF Change, SerialInv, OneChange, TypeOK
    <3>2. /\ pc'[a] = "changed" /\ about'[a] = {p} /\ wants'[a] = m
          /\ records'[a] = Registered(Published', p, wants'[a])
      BY <1>1, <2>2 DEF Change, TypeOK
    <3> QED
      BY <3>1, <3>2 DEF OneChange
  <2>4. Serial'
    BY <1>1, <2>1 DEF Change, Serial, TypeOK
  <2> QED
    BY <1>1, <2>1, <2>3, <2>4
    DEF Change, SerialInv, TmpApart, HandleTmp, TmpComplete, NeverTorn, TypeOK
<1>2. ASSUME NEW a \in Actor, OpenTmp(a) PROVE SerialInv'
  <2>1. OneChange'
    BY <1>2, PublishedStays DEF OpenTmp, OneChange, SerialInv, TypeOK
  <2>2. NeverTorn'
    BY <1>2, PublishedStays DEF SerialInv
  <2>3. Serial'
    BY <1>2 DEF OpenTmp, SerialInv, Serial, TypeOK
  <2>4. TmpApart'
    BY <1>2 DEF OpenTmp, SerialInv, TmpApart, TypeOK
  <2>5. tmp' \in Inode /\ content'[tmp'] = Empty /\ handle' = [handle EXCEPT ![a] = tmp']
        /\ \A b \in Actor : b # a => pc[b] = "idle" /\ pc'[b] = "idle"
    BY <1>2 DEF OpenTmp, SerialInv, Serial, TypeOK
  <2>6. HandleTmp' /\ TmpComplete'
    BY <1>2, <2>5 DEF OpenTmp, SerialInv, HandleTmp, TmpComplete, TypeOK
  <2> QED
    BY <2>1, <2>2, <2>3, <2>4, <2>6 DEF SerialInv
<1>3. ASSUME NEW a \in Actor, WriteTmp(a) PROVE SerialInv'
  <2>1. OneChange'
    BY <1>3, PublishedStays DEF WriteTmp, OneChange, SerialInv, TypeOK
  <2>2. NeverTorn'
    BY <1>3, PublishedStays DEF SerialInv
  <2>3. /\ tmp \in Inode
        /\ content' = [content EXCEPT ![tmp] = Json(records[a])]
        /\ \A b \in Actor : b # a => pc[b] = "idle" /\ pc'[b] = "idle"
    <3>1. tmp \in Inode /\ handle[a] = tmp /\ content[handle[a]].form = "empty"
      BY <1>3 DEF WriteTmp, Empty, SerialInv, HandleTmp, TypeOK
    <3>2. content' = [content EXCEPT ![tmp] = Json(records[a])]
      BY <1>3, <3>1 DEF WriteTmp
    <3>3. \A b \in Actor : b # a => pc[b] = "idle" /\ pc'[b] = "idle"
      BY <1>3 DEF WriteTmp, SerialInv, Serial, TypeOK
    <3> QED
      BY <3>1, <3>2, <3>3
  <2>4. Serial' /\ TmpApart'
    BY <1>3 DEF WriteTmp, SerialInv, Serial, TmpApart, TypeOK
  <2>5. HandleTmp' /\ TmpComplete'
    BY <1>3, <2>3 DEF WriteTmp, SerialInv, HandleTmp, TmpComplete, TypeOK
  <2> QED
    BY <2>1, <2>2, <2>4, <2>5 DEF SerialInv
<1>4. ASSUME NEW a \in Actor, Replace(a) PROVE SerialInv'
  <2>1. \A b \in Actor : pc'[b] = "idle" /\ handle'[b] = NoInode
    BY <1>4 DEF Replace, Finish, SerialInv, Serial, HandleTmp, TypeOK
  <2>0. \A b \in Actor : about'[b] = {} /\ wants'[b] = NoMode
    BY <1>4 DEF Replace, Finish, SerialInv, Serial, OneChange, TypeOK
  <2>2. content'[tmp] = content[tmp] /\ content[tmp] = Json(records[a]) /\ file' = tmp
    BY <1>4 DEF Replace, SerialInv, TmpApart, TmpComplete, TypeOK
  <2>3. NeverTorn'
    BY <2>2 DEF NeverTorn, Json
  <2> QED
    BY <1>4, <2>0, <2>1, <2>3
    DEF Replace, SerialInv, Serial, TmpApart, HandleTmp, TmpComplete, OneChange
<1>5. ASSUME NEW a \in Actor, ReplaceFails(a) PROVE FALSE
  BY <1>5 DEF ReplaceFails, SerialInv, TmpComplete
<1>6. ASSUME NEW a \in Actor, Crash(a) PROVE SerialInv'
  <2>1. \A b \in Actor : pc'[b] = "idle" /\ handle'[b] = NoInode
    BY <1>6 DEF Crash, Finish, SerialInv, Serial, HandleTmp, TypeOK
  <2>0. \A b \in Actor : about'[b] = {} /\ wants'[b] = NoMode
    BY <1>6 DEF Crash, Finish, SerialInv, Serial, OneChange, TypeOK
  <2>2. NeverTorn'
    BY <1>6, PublishedStays DEF SerialInv
  <2> QED
    BY <1>6, <2>0, <2>1, <2>2
    DEF Crash, SerialInv, Serial, TmpApart, HandleTmp, TmpComplete, OneChange
<1>7. CASE UNCHANGED vars
  BY <1>7 DEF vars, SerialInv, Serial, TmpApart, HandleTmp, TmpComplete, OneChange,
              NeverTorn, Published
<1>8. ASSUME NEW a \in Actor, NEW S \in SUBSET Project, Unregister(a, S) PROVE FALSE
  BY <1>8 DEF Unregister, OneProject
<1>9. ASSUME NEW a \in Actor, Step(a) PROVE SerialInv'
  <2>1. ASSUME NEW p \in Project, NEW m \in Asked, SetMode(a, p, m) PROVE SerialInv'
    BY <2>1, <1>1 DEF SetMode
  <2>2. ASSUME NEW p \in Project, Touch(a, p) PROVE SerialInv'
    BY <2>2, <1>1 DEF Touch, OneProject
  <2> QED
    BY <1>2, <1>3, <1>4, <1>5, <1>6, <1>8, <1>9, <2>1, <2>2 DEF Step
<1> QED
  BY <1>7, <1>9 DEF Next

(* With one project under its lock, a crash at any point leaves a registry *)
(* that can be read (daemon.py:2770-2776).                                 *)
THEOREM SerialNeverTorn == OneProject => (Spec => []NeverTorn)
<1> SUFFICES ASSUME OneProject PROVE Spec => []NeverTorn
  OBVIOUS
<1>1. TypeOK /\ SerialInv /\ [Next]_vars => SerialInv'
  BY StepSerial
<1>2. SerialInv => NeverTorn
  BY DEF SerialInv
<1> QED
  BY <1>1, <1>2, InitSerial, TypeCorrect, PTL DEF Spec

(* Each step of the cycle is a step of its call, or none. *)
LEMMA StepAtomic ==
  ASSUME TypeOK, SerialInv, OneProject, [Next]_vars
  PROVE  [Abstract!Next]_<<Published, Calls>>
<1> USE RegistryAssumption
    DEF Calls, Abstract!Next, Abstract!Begin, Abstract!End, Abstract!Idle, Abstract!Mode, Mode
<1>0. \A a \in Actor : pc[a] # "idle" => about[a] # {}
  BY DEF SerialInv, OneChange
<1>1. ASSUME NEW a \in Actor, Replace(a) PROVE Abstract!Register(a) /\ Calls'[a] # Calls[a]
  <2>1. Published' = records[a]
    <3>1. file' \in Inode /\ file' = tmp /\ content'[file'] = content[tmp]
      BY <1>1 DEF Replace, SerialInv, TmpApart, TypeOK
    <3>2. content[tmp] = Json(records[a])
      BY <1>1 DEF Replace, SerialInv, TmpComplete
    <3> QED
      BY <3>1, <3>2 DEF Published, Json
  <2>2. /\ wants[a] \in Mode \cup {NoMode}
        /\ \E p \in Project : about[a] = {p} /\ records[a] = Registered(Published, p, wants[a])
    BY <1>1 DEF Replace, SerialInv, OneChange
  <2>3. Calls' = [Calls EXCEPT ![a] = [about |-> {}, mode |-> NoMode]]
    BY <1>1 DEF Replace, Finish, TypeOK
  <2>4. Calls'[a] # Calls[a]
    BY <1>0, <1>1 DEF Replace, Finish, TypeOK
  <2> QED
    BY <2>1, <2>2, <2>3, <2>4 DEF Abstract!Register, Abstract!Registered, Abstract!ModeIn,
                                  Registered, ModeIn
<1>2. ASSUME NEW a \in Actor, OpenTmp(a) \/ WriteTmp(a) PROVE UNCHANGED <<Published, Calls>>
  BY <1>2, PublishedStays DEF OpenTmp, WriteTmp
<1>3. ASSUME NEW a \in Actor, ReplaceFails(a) \/ Crash(a)
      PROVE Abstract!Abandon(a) /\ Calls'[a] # Calls[a]
  <2>1. Calls' = [Calls EXCEPT ![a] = [about |-> {}, mode |-> NoMode]]
    BY <1>3 DEF ReplaceFails, Crash, Finish, TypeOK
  <2>2. Calls'[a] # Calls[a]
    BY <1>0, <1>3 DEF ReplaceFails, Crash, Finish, TypeOK
  <2> QED
    BY <1>3, <2>1, <2>2, PublishedStays DEF Abstract!Abandon
<1>4. ASSUME NEW a \in Actor, NEW p \in Project, NEW m \in Mode \cup {NoMode},
             Change(a, {p}, m, Registered(Published, p, m))
      PROVE Abstract!Begin(a) /\ Calls'[a] # Calls[a]
  <2>1. about[a] = {} /\ wants[a] = NoMode
    BY <1>4 DEF Change, MayStart, SerialInv, OneChange
  <2>2. Calls' = [Calls EXCEPT ![a] = [about |-> {p}, mode |-> m]]
    BY <1>4 DEF Change, TypeOK
  <2>3. Calls'[a] # Calls[a]
    BY <1>4, <2>1 DEF Change, TypeOK
  <2> QED
    BY <1>4, <2>1, <2>2, <2>3 DEF Change, Published
<1>5. CASE UNCHANGED vars
  BY <1>5 DEF vars, Published
<1>6. ASSUME NEW a \in Actor, Step(a) PROVE Abstract!Next \/ UNCHANGED <<Published, Calls>>
  <2>1. CASE \E p \in Project, m \in Asked : SetMode(a, p, m)
    BY <2>1, <1>4 DEF SetMode
  <2>2. CASE \E p \in Project : Touch(a, p)
    BY <2>2, <1>4 DEF Touch
  <2>3. CASE \E S \in SUBSET Project : Unregister(a, S)
    BY <2>3 DEF Unregister, OneProject
  <2>4. CASE OpenTmp(a) \/ WriteTmp(a)
    BY <2>4, <1>2
  <2>5. CASE ReplaceFails(a) \/ Crash(a)
    BY <2>5, <1>3
  <2>6. CASE Replace(a)
    BY <2>6, <1>1
  <2> QED
    BY <1>6, <2>1, <2>2, <2>3, <2>4, <2>5, <2>6 DEF Step
<1> QED
  BY <1>5, <1>6 DEF Next

(* The project's lock makes the cycle of read, write and rename atomic in  *)
(* a state root with one project (daemon.py:2735-2808).                    *)
THEOREM Refinement == OneProject => (Spec => Atomic)
<1> SUFFICES ASSUME OneProject PROVE Spec => Atomic
  OBVIOUS
<1>1. TypeOK /\ SerialInv /\ [Next]_vars => SerialInv'
  BY StepSerial
<1>2. TypeOK /\ SerialInv /\ [Next]_vars => [Abstract!Next]_<<Published, Calls>>
  BY StepAtomic
<1>3. Init => Abstract!Init
  BY DEF Init, Abstract!Init, Abstract!Idle, Calls, Published, NoRecords, Abstract!NoRecords
<1> QED
  BY <1>1, <1>2, <1>3, InitSerial, TypeCorrect, PTL DEF Spec, Atomic, Abstract!Spec
=============================================================================
