---------------------------- MODULE Fabric_proofs ----------------------------
(***************************************************************************)
(* The AI fabric of the laboratory, for every number of validations,       *)
(* documents and requests, of facts and of lines: a verdict is earned, an  *)
(* index is found by those who search, and advice is founded on what was   *)
(* acknowledged.                                                           *)
(***************************************************************************)
EXTENDS FabricValidation, AdvisoryFacts, RetrievalIndex, SequenceParts_proofs

-----------------------------------------------------------------------------
(* Validations of an AI fabric. *)

Runs ==
  [at : {"new", "health", "lanes", "stage", "import", "fetch", "conclude", "ended"},
   stage : Nat, command : FabricCommand \cup {"all"}, id : RunId \cup {Nobody},
   preflight : {"absent", "invalid", "ready"}, ready : BOOLEAN, failed : BOOLEAN,
   blocked : BOOLEAN, traced : BOOLEAN, verdict : {"none", "failed", "ok", "accepted"}]

(* What is known of a run on its way: a stage that has not passed has left  *)
(* its mark, and what the directory of its run id has is of this run, or of *)
(* one that was at work at the same time.                                   *)
Unfinished(v) ==
  LET r == run[v] IN
  /\ r.at # "ended" => r.verdict = "none" /\ (v \in short => r.failed \/ r.blocked)
  /\ r.at = "new" => r.id = Nobody
  /\ r.at # "new" => r.id \in RunId
  /\ r.at \in {"new", "health", "lanes"} => v \notin short
  /\ r.at \in {"health", "lanes"} => r.stage = 1
  /\ r.blocked => Validates(r.command)
  /\ r.at = "conclude" /\ r.command = "f3" /\ ~r.failed => v \in heard
  /\ r.at = "import" /\ "evidence-closeout" \in Selected(v) =>
       evidence[r.id] \in {v, Nobody} \/ Shares(v)
  /\ r.at \in {"new", "health", "lanes", "stage", "import"} => sent[v] = Nobody
  /\ \A w \in before[v] : run[w].at = "ended"

Earned(v) ==
  /\ run[v].verdict = "accepted" => v \notin short
  /\ run[v].verdict = "ok" /\ ~Validates(run[v].command) => v \notin short
  /\ run[v].verdict = "ok" /\ run[v].command = "f3" => v \in heard
  /\ "evidence-closeout" \in Selected(v) => sent[v] \in {v, Nobody} \/ Shares(v)

FabricInv ==
  /\ run \in [Invocation -> Runs]
  /\ FabricTypeOK
  /\ \A v \in Invocation : Unfinished(v) /\ Earned(v)

LEMMA StagesAre ==
  ASSUME NEW c \in FabricCommand \cup {"all"}
  PROVE  /\ Len(StagesOf(c)) \in Nat /\ Len(StagesOf(c)) >= 1
         /\ DOMAIN StagesOf(c) = 1..Len(StagesOf(c))
         /\ "evidence-closeout" \in ToSet(StagesOf(c)) =>
              StagesOf(c)[Len(StagesOf(c))] = "evidence-closeout"
         /\ ~Validates(c) =>
              \A k \in 1..Len(StagesOf(c)) :
                StagesOf(c)[k] \notin {"adapter-preflight", "lora-adapter-smoke"}
<1> DEFINE Fine(s) == /\ Len(s) \in Nat /\ Len(s) >= 1 /\ DOMAIN s = 1..Len(s)
                      /\ "evidence-closeout" \in ToSet(s) => s[Len(s)] = "evidence-closeout"
<1>1. c \in {"all", "acceptance-closeout", "quality-contract", "evidence-closeout",
             "lora-adapter-smoke", "lora-plumbing", "f3", "f1-f2", "hyperon"}
  BY FabricAssumption
<1>2. CASE c = "all"
  <2>1. StagesOf(c) = <<"quality-contract", "mixed-soak", "evidence-closeout">> /\ Validates(c)
    BY <1>2 DEF StagesOf, Validates
  <2> QED
    BY <2>1 DEF ToSet
<1>3. CASE c = "acceptance-closeout"
  <2>1. /\ StagesOf(c) = <<"adapter-preflight", "lora-adapter-smoke", "quality-comparison",
                           "stress-burst", "recovery-smoke", "advisor-scenarios",
                           "evidence-closeout">>
        /\ Validates(c)
    BY <1>3 DEF StagesOf, Validates
  <2> QED
    BY <2>1 DEF ToSet
<1>4. CASE c = "f3"
  <2>1. StagesOf(c) = <<"phase-report", "runtime-facts", "advisory-query", "evidence-closeout">>
    BY <1>4 DEF StagesOf
  <2> QED
    BY <2>1 DEF ToSet
<1>5. CASE c = "f1-f2"
  <2>1. StagesOf(c) = <<"nodes">>
    BY <1>5 DEF StagesOf
  <2> QED
    BY <2>1 DEF ToSet
<1>6. CASE c = "hyperon"
  <2>1. StagesOf(c) = <<"sidecar">>
    BY <1>6 DEF StagesOf
  <2> QED
    BY <2>1 DEF ToSet
<1>7. CASE c \notin {"all", "acceptance-closeout", "f3", "f1-f2", "hyperon"}
  <2>1. StagesOf(c) = <<c>> /\ Validates(c)
    BY <1>7 DEF StagesOf, Validates
  <2> QED
    BY <2>1 DEF ToSet
<1> QED
  BY <1>1, <1>2, <1>3, <1>4, <1>5, <1>6, <1>7

(* What a stage does: it notes a result, of which only two can be blocked,  *)
(* and the last one, that collects evidence, puts it into the directory.    *)
Stage(v) == StagesOf(run[v].command)[run[v].stage]

Staged(v) ==
  /\ run[v].at = "stage"
  /\ \E pre \in {"absent", "invalid", "ready"}, rdy, traced \in BOOLEAN,
        result \in {"passed", "failed", "blocked"} :
       /\ NoteFrom([run[v] EXCEPT !.preflight = pre, !.ready = rdy], v, result, traced)
       /\ result = "blocked" => Stage(v) \in {"adapter-preflight", "lora-adapter-smoke"}
  /\ \/ Stage(v) # "evidence-closeout" /\ evidence' = evidence
     \/ /\ Stage(v) = "evidence-closeout"
        /\ \E e \in {v, Nobody} : evidence' = [evidence EXCEPT ![run[v].id] = e]
  /\ UNCHANGED <<adapter, heard, sent, before>>

StageStep(v) ==
  \/ PreflightStage(v) \/ SmokeStage(v) \/ PlumbingStage(v) \/ PromptStage(v)
  \/ RecoveryStage(v) \/ SoakStage(v) \/ ScenarioStage(v) \/ EvidenceStage(v)
  \/ ReportStage(v) \/ FactsStage(v) \/ AdvisoryStage(v) \/ NodesStage(v) \/ SidecarStage(v)

LEMMA WithItsOwn ==
  ASSUME NEW v \in Invocation, run \in [Invocation -> Runs]
  PROVE  /\ run[v].preflight \in {"absent", "invalid", "ready"} /\ run[v].ready \in BOOLEAN
         /\ [run[v] EXCEPT !.preflight = run[v].preflight, !.ready = run[v].ready] = run[v]
         /\ \A pre : [run[v] EXCEPT !.preflight = pre]
                       = [run[v] EXCEPT !.preflight = pre, !.ready = run[v].ready]
         /\ \A rdy : [run[v] EXCEPT !.ready = rdy]
                       = [run[v] EXCEPT !.preflight = run[v].preflight, !.ready = rdy]
BY DEF Runs

LEMMA AStage ==
  ASSUME FabricInv, NEW v \in Invocation, StageStep(v)
  PROVE  Staged(v)
<1> DEFINE Noted(result, traced) == NoteFrom(run[v], v, result, traced)
<1>0. run \in [Invocation -> Runs]
  BY DEF FabricInv
<1>1. ASSUME NEW pre \in {"absent", "invalid", "ready"}, NEW rdy \in BOOLEAN,
             NEW traced \in BOOLEAN, NEW result \in {"passed", "failed", "blocked"},
             NoteFrom([run[v] EXCEPT !.preflight = pre, !.ready = rdy], v, result, traced),
             run[v].at = "stage", UNCHANGED <<adapter, heard, sent, before>>,
             result = "blocked" => Stage(v) \in {"adapter-preflight", "lora-adapter-smoke"},
             \/ Stage(v) # "evidence-closeout" /\ evidence' = evidence
             \/ /\ Stage(v) = "evidence-closeout"
                /\ \E e \in {v, Nobody} : evidence' = [evidence EXCEPT ![run[v].id] = e]
      PROVE  Staged(v)
  BY <1>1 DEF Staged
<1>2. ASSUME NEW traced \in BOOLEAN, NEW result \in {"passed", "failed", "blocked"},
             Noted(result, traced),
             run[v].at = "stage", UNCHANGED <<adapter, heard, sent, before>>,
             result = "blocked" => Stage(v) \in {"adapter-preflight", "lora-adapter-smoke"},
             \/ Stage(v) # "evidence-closeout" /\ evidence' = evidence
             \/ /\ Stage(v) = "evidence-closeout"
                /\ \E e \in {v, Nobody} : evidence' = [evidence EXCEPT ![run[v].id] = e]
      PROVE  Staged(v)
  <2>1. NoteFrom([run[v] EXCEPT !.preflight = run[v].preflight, !.ready = run[v].ready], v,
                 result, traced)
    BY <1>0, <1>2, WithItsOwn
  <2> QED
    BY <1>0, <1>2, <2>1, WithItsOwn DEF Staged
<1>3. CASE PreflightStage(v)
  <2>1. Noted(Preflight(adapter), FALSE) /\ run[v].at = "stage" /\ Stage(v) = "adapter-preflight"
        /\ UNCHANGED <<adapter, heard, sent, before>> /\ evidence' = evidence
    BY <1>3 DEF PreflightStage, Note, AtStage, Stage
  <2>2. Preflight(adapter) \in {"passed", "failed", "blocked"}
    BY DEF FabricInv, FabricTypeOK, Preflight
  <2> HIDE DEF Noted
  <2> QED
    BY <1>2, <2>1, <2>2
<1>4. CASE SmokeStage(v)
  <2>1. PICK listed, base, adapted \in BOOLEAN :
          NoteFrom([run[v] EXCEPT !.preflight = "absent"], v,
                   IF run[v].preflight # "ready" THEN Preflight(run[v].preflight)
                   ELSE IF listed /\ base /\ adapted THEN "passed" ELSE "failed", FALSE)
    BY <1>4 DEF SmokeStage
  <2>2. /\ run[v].at = "stage" /\ Stage(v) = "lora-adapter-smoke"
        /\ UNCHANGED <<adapter, heard, sent, before>> /\ evidence' = evidence
    BY <1>4 DEF SmokeStage, AtStage, Stage
  <2> DEFINE result == IF run[v].preflight # "ready" THEN Preflight(run[v].preflight)
                       ELSE IF listed /\ base /\ adapted THEN "passed" ELSE "failed"
  <2>3. result \in {"passed", "failed", "blocked"}
    BY <1>0, WithItsOwn DEF Preflight
  <2>4. NoteFrom([run[v] EXCEPT !.preflight = "absent", !.ready = run[v].ready], v, result, FALSE)
    BY <1>0, <2>1, WithItsOwn
  <2> HIDE DEF result
  <2> QED
    BY <1>0, <1>1, <2>2, <2>3, <2>4, WithItsOwn
<1>5. CASE PlumbingStage(v) \/ ScenarioStage(v) \/ NodesStage(v)
  <2>1. \E result \in {"passed", "failed"} : Noted(result, FALSE)
    BY <1>5 DEF PlumbingStage, ScenarioStage, NodesStage, Note
  <2>2. /\ run[v].at = "stage" /\ Stage(v) # "evidence-closeout"
        /\ UNCHANGED <<adapter, heard, sent, before>> /\ evidence' = evidence
    BY <1>5 DEF PlumbingStage, ScenarioStage, NodesStage, AtStage, Stage
  <2> HIDE DEF Noted
  <2> QED
    BY <1>2, <2>1, <2>2
<1>6. CASE SoakStage(v) \/ AdvisoryStage(v) \/ SidecarStage(v)
  <2>1. \E result \in {"passed", "failed"}, traced \in BOOLEAN : Noted(result, traced)
    BY <1>6 DEF SoakStage, AdvisoryStage, SidecarStage, Note
  <2>2. /\ run[v].at = "stage" /\ Stage(v) # "evidence-closeout"
        /\ UNCHANGED <<adapter, heard, sent, before>> /\ evidence' = evidence
    BY <1>6 DEF SoakStage, AdvisoryStage, SidecarStage, AtStage, Stage
  <2> HIDE DEF Noted
  <2> QED
    BY <1>2, <2>1, <2>2
<1>7. CASE PromptStage(v)
  <2>1. \E result \in {"passed", "failed"}, traced \in BOOLEAN : Noted(result, traced)
    BY <1>7 DEF PromptStage, Prompted
  <2>2. /\ run[v].at = "stage" /\ Stage(v) # "evidence-closeout"
        /\ UNCHANGED <<adapter, heard, sent, before>> /\ evidence' = evidence
    BY <1>7 DEF PromptStage, AtStage, Stage
  <2> HIDE DEF Noted
  <2> QED
    BY <1>2, <2>1, <2>2
<1>8. CASE RecoveryStage(v)
  <2>1. \E result \in {"passed", "failed"}, traced \in BOOLEAN :
          NoteFrom([run[v] EXCEPT !.ready = TRUE], v, result, traced)
    BY <1>8 DEF RecoveryStage, Prompted
  <2>2. /\ run[v].at = "stage" /\ Stage(v) # "evidence-closeout"
        /\ UNCHANGED <<adapter, heard, sent, before>> /\ evidence' = evidence
    BY <1>8 DEF RecoveryStage, AtStage, Stage
  <2>3. \E result \in {"passed", "failed"}, traced \in BOOLEAN :
          NoteFrom([run[v] EXCEPT !.preflight = run[v].preflight, !.ready = TRUE], v, result, traced)
    BY <1>0, <2>1, WithItsOwn
  <2> QED
    BY <1>0, <1>1, <2>2, <2>3, WithItsOwn
<1>9. CASE ReportStage(v) \/ FactsStage(v)
  <2>1. \E result \in {"passed", "failed"}, rdy \in BOOLEAN :
          NoteFrom([run[v] EXCEPT !.ready = rdy], v, result, FALSE)
    BY <1>9 DEF ReportStage, FactsStage
  <2>2. /\ run[v].at = "stage" /\ Stage(v) # "evidence-closeout"
        /\ UNCHANGED <<adapter, heard, sent, before>> /\ evidence' = evidence
    BY <1>9 DEF ReportStage, FactsStage, AtStage, Stage
  <2>3. \E result \in {"passed", "failed"}, rdy \in BOOLEAN :
          NoteFrom([run[v] EXCEPT !.preflight = run[v].preflight, !.ready = rdy], v, result, FALSE)
    BY <1>0, <2>1, WithItsOwn
  <2> QED
    BY <1>0, <1>1, <2>2, <2>3, WithItsOwn
<1>10. CASE EvidenceStage(v)
  <2>1. PICK records \in {"none", "some", "all"} :
          /\ Noted(IF records = "all" THEN "passed" ELSE "failed", FALSE)
          /\ evidence' = [evidence EXCEPT ![run[v].id] = IF records = "none" THEN Nobody ELSE v]
    BY <1>10 DEF EvidenceStage, Note
  <2>2. /\ run[v].at = "stage" /\ Stage(v) = "evidence-closeout"
        /\ UNCHANGED <<adapter, heard, sent, before>>
        /\ \E e \in {v, Nobody} : evidence' = [evidence EXCEPT ![run[v].id] = e]
    BY <1>10, <2>1 DEF EvidenceStage, AtStage, Stage
  <2>3. \E result \in {"passed", "failed"} : Noted(result, FALSE)
    BY <2>1
  <2> HIDE DEF Noted
  <2> QED
    BY <1>2, <2>2, <2>3
<1> QED
  BY <1>3, <1>4, <1>5, <1>6, <1>7, <1>8, <1>9, <1>10 DEF StageStep

(* A step of one invocation, as the others see it. *)
InPlace(v) ==
  /\ run[v].stage \in 0..Len(StagesOf(run[v].command)) + 1
  /\ run[v].at = "stage" => run[v].stage \in DOMAIN StagesOf(run[v].command)

Moves(v) ==
  /\ run' \in [Invocation -> Runs] /\ \A u \in Invocation \ {v} : run'[u] = run[u]
  /\ run[v].at # "ended" /\ run'[v].id \in RunId
  /\ run[v].at # "new" => run'[v].id = run[v].id /\ run'[v].command = run[v].command
                          /\ before'[v] = before[v]
  /\ adapter' = adapter
  /\ short' \in {short, short \cup {v}} /\ heard' \in {heard, heard \cup {v}}
  /\ sent' \in [Invocation -> Invocation \cup {Nobody}]
  /\ before' \in [Invocation -> SUBSET Invocation]
  /\ \A u \in Invocation \ {v} : sent'[u] = sent[u] /\ before'[u] = before[u]
  /\ \/ evidence' = evidence
     \/ /\ run[v].at = "stage"
        /\ \E e \in {v, Nobody} : evidence' = [evidence EXCEPT ![run[v].id] = e]
  /\ InPlace(v)'

\* Whoever has shared a directory with a run still does.
LEMMA SharesStay ==
  ASSUME FabricInv, NEW v \in Invocation, Moves(v), NEW u \in Invocation,
         run[u].at # "new", Shares(u)
  PROVE  (Shares(u))'
<1>1. PICK w \in Invocation \ ({u} \cup before[u]) : run[w].id = run[u].id
  BY DEF Shares
<1>2. run[u].id \in RunId /\ run[w].id \in RunId /\ Nobody \notin RunId
  BY <1>1, FabricAssumption DEF FabricInv, Unfinished
<1>3. run[w].at # "new"
  BY <1>2 DEF FabricInv, Unfinished
<1>4. run'[w].id = run[w].id /\ run'[u].id = run[u].id /\ before'[u] = before[u]
  BY <1>3 DEF Moves
<1> QED
  BY <1>1, <1>4 DEF Shares

LEMMA Bystander ==
  ASSUME FabricInv, NEW v \in Invocation, Moves(v), NEW u \in Invocation \ {v}
  PROVE  (Unfinished(u) /\ Earned(u) /\ InPlace(u))'
<1>1. Unfinished(u) /\ Earned(u) /\ InPlace(u)
  BY DEF FabricInv, FabricTypeOK, InPlace
<1>2. /\ run'[u] = run[u] /\ sent'[u] = sent[u] /\ before'[u] = before[u]
      /\ (u \in short') = (u \in short) /\ (u \in heard') = (u \in heard)
      /\ (Selected(u))' = Selected(u)
  BY DEF Moves, Selected
<1>3. \A w \in before[u] : run'[w].at = "ended"
  BY <1>1 DEF Unfinished, Moves, FabricInv, FabricTypeOK
<1>4. run[u].at # "new" /\ Shares(u) => (Shares(u))'
  BY SharesStay
<1>5. run[u].at = "import" /\ evidence[run[u].id] \in {u, Nobody} \cup Invocation =>
        evidence'[run[u].id] = evidence[run[u].id] \/ (Shares(u))'
  <2>1. CASE evidence' = evidence
    BY <2>1
  <2>2. CASE run[v].at = "stage" /\ \E e \in {v, Nobody} :
               evidence' = [evidence EXCEPT ![run[v].id] = e]
    <3>1. v \notin before[u]
      BY <1>1, <2>2 DEF Unfinished
    <3>2. run[u].at # "new" /\ run[u].id = run[v].id => (Shares(u))'
      BY <3>1, <1>4 DEF Shares
    <3> QED
      BY <2>2, <3>2 DEF FabricInv, FabricTypeOK
  <2> QED
    BY <2>1, <2>2 DEF Moves
<1>6. run[u].at # "new" => run[u].id \in RunId
  BY <1>1 DEF Unfinished
<1>7. run[u].at = "import" => evidence[run[u].id] \in Invocation \cup {Nobody}
  BY <1>6 DEF FabricInv, FabricTypeOK
<1>8. run[u].at = "import" /\ "evidence-closeout" \in Selected(u) =>
        evidence'[run[u].id] \in {u, Nobody} \/ (Shares(u))'
  BY <1>1, <1>4, <1>5, <1>7 DEF Unfinished
<1>9. (Unfinished(u))'
  BY <1>1, <1>2, <1>3, <1>8 DEF Unfinished
<1>10. "evidence-closeout" \in Selected(u) => sent[u] \in {u, Nobody} \/ (Shares(u))'
  BY <1>1, <1>4 DEF Unfinished, Earned
<1>11. (Earned(u))'
  BY <1>1, <1>2, <1>10 DEF Earned
<1>12. (InPlace(u))'
  BY <1>1, <1>2 DEF InPlace
<1> QED
  BY <1>9, <1>11, <1>12

LEMMA OneMoves ==
  ASSUME FabricInv, NEW v \in Invocation, Moves(v), (Unfinished(v) /\ Earned(v))'
  PROVE  FabricInv'
<1>1. \A u \in Invocation : (Unfinished(u) /\ Earned(u) /\ InPlace(u))'
  BY Bystander DEF Moves
<1>2. run' \in [Invocation -> Runs]
  BY DEF Moves
<1>3. evidence' \in [RunId -> Invocation \cup {Nobody}]
  <2>1. evidence \in [RunId -> Invocation \cup {Nobody}]
    BY DEF FabricInv, FabricTypeOK
  <2>2. ASSUME NEW e \in {v, Nobody}, evidence' = [evidence EXCEPT ![run[v].id] = e]
        PROVE  evidence' \in [RunId -> Invocation \cup {Nobody}]
    BY <2>1, <2>2
  <2> QED
    BY <2>1, <2>2 DEF Moves
<1>4. /\ adapter' \in {"absent", "invalid", "ready"}
      /\ heard' \subseteq Invocation /\ short' \subseteq Invocation
      /\ sent' \in [Invocation -> Invocation \cup {Nobody}]
      /\ before' \in [Invocation -> SUBSET Invocation]
  BY DEF Moves, FabricInv, FabricTypeOK
<1>5. ASSUME NEW u \in Invocation
      PROVE  /\ run'[u].at \in {"new", "health", "lanes", "stage", "import", "fetch", "conclude",
                                "ended"}
             /\ run'[u].command \in FabricCommand \cup {"all"} /\ run'[u].id \in RunId \cup {Nobody}
             /\ run'[u].preflight \in {"absent", "invalid", "ready"}
             /\ run'[u].verdict \in {"none", "failed", "ok", "accepted"}
             /\ {run'[u].ready, run'[u].failed, run'[u].blocked, run'[u].traced} \subseteq BOOLEAN
  BY <1>2 DEF Runs
<1>6. FabricTypeOK'
  BY <1>1, <1>3, <1>4, <1>5 DEF FabricTypeOK, InPlace
<1> QED
  BY <1>1, <1>2, <1>6 DEF FabricInv

LEMMA StepFabric == FabricInv /\ [FabricNext]_fabricVars => FabricInv'
<1> SUFFICES ASSUME FabricInv, [FabricNext]_fabricVars PROVE FabricInv'
  OBVIOUS
<1>0. run \in [Invocation -> Runs]
  BY DEF FabricInv
<1>1. CASE AdapterChanges
  <2>1. UNCHANGED <<evidence, heard, run, short, sent, before>>
        /\ adapter' \in {"absent", "invalid", "ready"}
    BY <1>1 DEF AdapterChanges, historyVars
  <2> QED
    BY <2>1 DEF FabricInv, FabricTypeOK, Unfinished, Earned, Selected, Shares
<1>2. CASE UNCHANGED fabricVars
  BY <1>2 DEF fabricVars, FabricInv, FabricTypeOK, Unfinished, Earned, Selected, Shares
<1>3. ASSUME NEW v \in Invocation, InvocationStep(v) PROVE FabricInv'
  <2> DEFINE r == run[v]
  <2>0. /\ Unfinished(v) /\ Earned(v) /\ InPlace(v) /\ r \in Runs
        /\ evidence \in [RunId -> Invocation \cup {Nobody}]
        /\ sent \in [Invocation -> Invocation \cup {Nobody}]
        /\ before \in [Invocation -> SUBSET Invocation]
    BY <1>0 DEF FabricInv, FabricTypeOK, InPlace
  <2>a. /\ r = [at |-> r.at, stage |-> r.stage, command |-> r.command, id |-> r.id,
                preflight |-> r.preflight, ready |-> r.ready, failed |-> r.failed,
                blocked |-> r.blocked, traced |-> r.traced, verdict |-> r.verdict]
        /\ r.command \in FabricCommand \cup {"all"} /\ r.stage \in Nat
        /\ r.failed \in BOOLEAN /\ r.blocked \in BOOLEAN /\ r.traced \in BOOLEAN
        /\ r.ready \in BOOLEAN
    BY <2>0 DEF Runs
  <2>1. ASSUME NEW c \in FabricCommand \cup {"all"}, NEW i \in RunId,
               NEW next \in {"health", "stage"},
               NEW payload \in {"absent", "invalid", "ready"}, Begins(v, c, i, next, payload)
        PROVE  FabricInv'
    <3> DEFINE rr == [Unborn EXCEPT !.at = next, !.stage = 1, !.command = c, !.id = i,
                                   !.preflight = payload]
    <3>1. /\ r.at = "new" /\ run' = [run EXCEPT ![v] = rr]
          /\ before' = [before EXCEPT ![v] = {w \in Invocation : run[w].at = "ended"}]
          /\ UNCHANGED <<adapter, evidence, heard, short, sent>>
      BY <2>1 DEF Begins
    <3>2. /\ rr.at = next /\ rr.stage = 1 /\ rr.command = c /\ rr.id = i
          /\ rr.failed = FALSE /\ rr.blocked = FALSE /\ rr.verdict = "none"
      BY DEF Unborn
    <3>3. rr \in Runs
      BY DEF Unborn, Runs
    <3> HIDE DEF rr
    <3>4. run'[v] = rr /\ run' \in [Invocation -> Runs]
          /\ \A u \in Invocation \ {v} : run'[u] = run[u]
      BY <1>0, <3>1, <3>3
    <3>5. (InPlace(v))'
      BY <3>2, <3>4, StagesAre DEF InPlace
    <3>6. Moves(v)
      BY <2>0, <3>1, <3>2, <3>4, <3>5 DEF Moves
    <3>7. \A w \in before'[v] : run'[w].at = "ended"
      BY <2>0, <3>1, <3>4
    <3>8. (Unfinished(v))'
      BY <2>0, <3>1, <3>2, <3>4, <3>7 DEF Unfinished
    <3>9. (Earned(v))'
      BY <2>0, <3>1, <3>2, <3>4 DEF Unfinished, Earned
    <3> QED
      BY <3>6, <3>8, <3>9, OneMoves
  <2>2. ASSUME NEW i \in RunId,
               \/ \E c \in FabricCommand : BeginValidation(v, c, i)
               \/ "f3" \in FabricCommand /\ BeginF3Closeout(v, i)
               \/ "f1-f2" \in FabricCommand /\ BeginLocalityCloseout(v, i)
               \/ "hyperon" \in FabricCommand /\ BeginHyperonImport(v, i)
        PROVE  FabricInv'
    <3>1. ASSUME NEW c \in FabricCommand, BeginValidation(v, c, i) PROVE FabricInv'
      <4>1. \E next \in {"health", "stage"}, payload \in {"absent", adapter} :
              Begins(v, c, i, next, payload)
        BY <3>1 DEF BeginValidation
      <4>2. adapter \in {"absent", "invalid", "ready"}
        BY DEF FabricInv, FabricTypeOK
      <4> QED
        BY <4>1, <4>2, <2>1
    <3> QED
      BY <2>1, <2>2, <3>1 DEF BeginF3Closeout, BeginLocalityCloseout, BeginHyperonImport
  <2>3. ASSUME NEW next \in {"lanes", "stage", "fetch", "conclude"}, NEW rdy \in BOOLEAN,
               NEW wrong \in BOOLEAN, r.at # "new", r.at # "ended",
               run' = [run EXCEPT ![v] = [r EXCEPT !.at = next, !.ready = rdy, !.failed = wrong]],
               UNCHANGED <<adapter, evidence, short, before>>,
               \/ sent' = sent
               \/ sent' = [sent EXCEPT ![v] = EvidenceOf(v)] /\ r.at = "import",
               heard' \in {heard, heard \cup {v}},
               next \in {"lanes", "stage"} => r.at \in {"health", "lanes"},
               next \in {"fetch", "conclude"} /\ r.failed => wrong,
               next \in {"fetch", "conclude"} => r.at \in {"import", "fetch"},
               next = "conclude" /\ r.command = "f3" /\ ~wrong => v \in heard
        PROVE  FabricInv'
    <3> DEFINE rr == [r EXCEPT !.at = next, !.ready = rdy, !.failed = wrong]
    <3>2. /\ rr.at = next /\ rr.stage = r.stage /\ rr.command = r.command /\ rr.id = r.id
          /\ rr.failed = wrong /\ rr.blocked = r.blocked /\ rr.verdict = r.verdict
      BY <2>0 DEF Runs
    <3>3. rr \in Runs
      BY <2>0 DEF Runs
    <3>c. run' = [run EXCEPT ![v] = rr]
      BY <2>3
    <3> HIDE DEF rr
    <3>4. run'[v] = rr /\ run' \in [Invocation -> Runs]
          /\ \A u \in Invocation \ {v} : run'[u] = run[u]
      BY <1>0, <3>c, <3>3
    <3>d. next = "stage" => r.stage = 1
      BY <2>0, <2>3 DEF Unfinished
    <3>5. (InPlace(v))'
      BY <2>0, <2>a, <3>2, <3>4, <3>d, StagesAre DEF InPlace
    <3>e. r.id \in RunId
      BY <2>0, <2>3 DEF Unfinished
    <3>f. EvidenceOf(v) \in Invocation \cup {Nobody}
      BY <2>0, <3>e DEF EvidenceOf
    <3>6. Moves(v)
      BY <2>0, <2>3, <3>2, <3>4, <3>5, <3>e, <3>f DEF Moves
    <3>g. Shares(v) => (Shares(v))'
      BY <2>3, <3>6, SharesStay
    <3>h. (Selected(v))' = Selected(v)
      BY <3>2, <3>4 DEF Selected
    <3>7. \A w \in before'[v] : run'[w].at = "ended"
      BY <2>0, <2>3, <3>4 DEF Unfinished
    <3>8. (Unfinished(v))'
      <4>1. next \in {"lanes", "stage"} => r.at \in {"health", "lanes"} /\ v \notin short
                                           /\ r.stage = 1 /\ sent'[v] = Nobody
        BY <2>0, <2>3 DEF Unfinished
      <4>2. v \in short => wrong \/ r.blocked
        BY <2>0, <2>3, <4>1 DEF Unfinished
      <4>3. r.verdict = "none" /\ (r.blocked => Validates(r.command))
        BY <2>0, <2>3 DEF Unfinished
      <4>4. next = "conclude" /\ r.command = "f3" /\ ~wrong => v \in heard'
        BY <2>3
      <4> QED
        BY <2>3, <3>2, <3>4, <3>e, <3>7, <4>1, <4>2, <4>3, <4>4 DEF Unfinished
    <3>9. (Earned(v))'
      <4>1. r.verdict = "none"
        BY <2>0, <2>3 DEF Unfinished
      <4>2. "evidence-closeout" \in Selected(v) =>
              sent'[v] \in {v, Nobody} \/ (Shares(v))'
        <5>1. CASE sent' = sent
          BY <2>0, <3>g, <5>1 DEF Earned
        <5>2. CASE sent' = [sent EXCEPT ![v] = EvidenceOf(v)] /\ r.at = "import"
          <6>1. sent'[v] = EvidenceOf(v)
            BY <2>0, <5>2
          <6> QED
            BY <2>0, <3>g, <5>2, <6>1 DEF Unfinished, EvidenceOf
        <5> QED
          BY <2>3, <5>1, <5>2
      <4> QED
        BY <3>2, <3>4, <3>h, <4>1, <4>2 DEF Earned
    <3> QED
      BY <3>6, <3>8, <3>9, OneMoves
  <2>4. CASE CheckHealth(v)
    <3>1. PICK next \in {"lanes", "stage"}, rdy, wrong \in BOOLEAN :
            run' = [run EXCEPT ![v] = [r EXCEPT !.at = next, !.ready = rdy, !.failed = wrong]]
      BY <1>0, <2>4, ZenonT(60) DEF CheckHealth
    <3>2. r.at = "health" /\ UNCHANGED <<adapter, evidence, heard, short, sent, before>>
      BY <2>4 DEF CheckHealth, historyVars
    <3> HIDE DEF r
    <3> QED
      BY <2>3, <3>1, <3>2
  <2>5. CASE AwaitLanes(v)
    <3>1. PICK wrong \in BOOLEAN :
            run' = [run EXCEPT ![v] = [r EXCEPT !.at = "stage", !.failed = wrong]]
      BY <1>0, <2>a, <2>5 DEF AwaitLanes
    <3>2. r.at = "lanes" /\ UNCHANGED <<adapter, evidence, heard, short, sent, before>>
      BY <2>5 DEF AwaitLanes, historyVars
    <3>3. [r EXCEPT !.at = "stage", !.failed = wrong]
            = [r EXCEPT !.at = "stage", !.ready = r.ready, !.failed = wrong]
      BY <2>a
    <3> HIDE DEF r
    <3> QED
      BY <2>3, <2>a, <3>1, <3>2, <3>3
  <2>6. CASE StageStep(v)
    <3>1. Staged(v)
      BY <2>6, AStage
    <3>2. PICK pre \in {"absent", "invalid", "ready"}, rdy \in BOOLEAN, traced \in BOOLEAN,
               result \in {"passed", "failed", "blocked"} :
            /\ NoteFrom([r EXCEPT !.preflight = pre, !.ready = rdy], v, result, traced)
            /\ result = "blocked" => Stage(v) \in {"adapter-preflight", "lora-adapter-smoke"}
      BY <3>1 DEF Staged
    <3>3. /\ r.at = "stage" /\ UNCHANGED <<adapter, heard, sent, before>>
          /\ \/ Stage(v) # "evidence-closeout" /\ evidence' = evidence
             \/ /\ Stage(v) = "evidence-closeout"
                /\ \E e \in {v, Nobody} : evidence' = [evidence EXCEPT ![run[v].id] = e]
      BY <3>1 DEF Staged
    <3> DEFINE noted == [r EXCEPT !.preflight = pre, !.ready = rdy]
               then == IF r.stage + 1 <= Len(StagesOf(r.command)) THEN "stage" ELSE "import"
               rr == [noted EXCEPT !.stage = r.stage + 1, !.at = then,
                        !.failed = @ \/ result = "failed", !.blocked = @ \/ result = "blocked",
                        !.traced = @ \/ traced]
    <3>4. /\ noted \in Runs /\ noted.stage = r.stage /\ noted.command = r.command
          /\ noted.id = r.id /\ noted.failed = r.failed /\ noted.blocked = r.blocked
          /\ noted.verdict = r.verdict
      BY <2>0 DEF Runs
    <3>5. run' = [run EXCEPT ![v] = rr] /\ short' = (IF result = "passed" THEN short ELSE short \cup {v})
      BY <3>2, <3>4 DEF NoteFrom
    <3>7. then \in {"stage", "import"} /\ r.id \in RunId /\ r.stage \in 1..Len(StagesOf(r.command))
          /\ Len(StagesOf(r.command)) \in Nat
      BY <2>0, <2>a, <3>3, StagesAre DEF Unfinished, InPlace
    <3>6. /\ rr.at = then /\ rr.stage = r.stage + 1 /\ rr.command = r.command /\ rr.id = r.id
          /\ rr.failed = (r.failed \/ result = "failed")
          /\ rr.blocked = (r.blocked \/ result = "blocked") /\ rr.verdict = r.verdict
      <4> HIDE DEF noted, then
      <4> QED
        BY <3>4 DEF Runs
    <3>8. rr \in Runs
      <4>1. r.stage + 1 \in Nat /\ then \in {"stage", "import"}
        BY <2>a
      <4> HIDE DEF noted, then
      <4> QED
        BY <3>4, <4>1, ZenonT(60) DEF Runs
    <3>9. then = "stage" => r.stage + 1 \in 1..Len(StagesOf(r.command))
      BY <3>7
    <3>10. then = "import" => r.stage = Len(StagesOf(r.command))
      BY <3>7
    <3> HIDE DEF rr, then, noted
    <3>11. run'[v] = rr /\ run' \in [Invocation -> Runs]
           /\ \A u \in Invocation \ {v} : run'[u] = run[u]
      BY <1>0, <3>5, <3>8
    <3>12. (InPlace(v))'
      <4>1. r.stage + 1 \in 0..Len(StagesOf(r.command)) + 1
        BY <3>7
      <4> QED
        BY <2>a, <3>6, <3>9, <3>11, <4>1, StagesAre DEF InPlace
    <3>13. Moves(v)
      BY <2>0, <3>3, <3>5, <3>6, <3>7, <3>11, <3>12 DEF Moves
    <3>14. (Selected(v))' = Selected(v)
      BY <3>6, <3>11 DEF Selected
    <3>15. then = "import" /\ "evidence-closeout" \in Selected(v) =>
             evidence'[r.id] \in {v, Nobody}
      <4>1. then = "import" /\ "evidence-closeout" \in Selected(v) =>
              Stage(v) = "evidence-closeout"
        BY <2>a, <3>10, StagesAre DEF Selected, Stage
      <4> QED
        BY <2>0, <3>3, <3>7, <4>1
    <3>16. \A w \in before'[v] : run'[w].at = "ended"
      BY <2>0, <3>3, <3>11 DEF Unfinished
    <3>17. r.blocked \/ result = "blocked" => Validates(r.command)
      BY <2>0, <2>a, <3>2, <3>7, StagesAre DEF Unfinished, Stage
    <3>18. v \in short' => (r.failed \/ result = "failed") \/ (r.blocked \/ result = "blocked")
      BY <2>0, <3>3, <3>5 DEF Unfinished
    <3>19. r.verdict = "none" /\ sent'[v] = Nobody
      BY <2>0, <3>3 DEF Unfinished
    <3>20. (Unfinished(v))'
      BY <3>6, <3>7, <3>11, <3>14, <3>15, <3>16, <3>17, <3>18, <3>19 DEF Unfinished
    <3>21. (Earned(v))'
      BY <3>6, <3>11, <3>19 DEF Earned
    <3> QED
      BY <3>13, <3>20, <3>21, OneMoves
  <2>7. CASE ImportAdvisory(v) \/ ImportLocality(v) \/ ImportHyperon(v)
    <3>1. /\ r.at = "import" /\ UNCHANGED <<adapter, evidence, short, before>>
          /\ \E next \in {"fetch", "conclude"}, wrong \in BOOLEAN :
               /\ NotPosted(v, next, wrong) \/ Posted(v, next, wrong)
               /\ r.command = "f3" => next = "fetch"
      <4>1. CASE ImportAdvisory(v)
        BY <4>1 DEF ImportAdvisory
      <4>2. CASE ImportLocality(v)
        BY <4>2 DEF ImportLocality
      <4>3. CASE ImportHyperon(v)
        BY <4>3 DEF ImportHyperon
      <4> QED
        BY <2>7, <4>1, <4>2, <4>3
    <3>2. PICK next \in {"fetch", "conclude"}, wrong \in BOOLEAN :
            /\ NotPosted(v, next, wrong) \/ Posted(v, next, wrong)
            /\ r.command = "f3" => next = "fetch"
      BY <3>1
    <3>3. PICK bad \in BOOLEAN :
            run' = [run EXCEPT ![v] = [r EXCEPT !.at = next, !.failed = r.failed \/ bad]]
      <4>1. CASE NotPosted(v, next, wrong)
        BY <1>0, <4>1 DEF NotPosted
      <4>2. CASE Posted(v, next, wrong)
        <5>1. PICK sure \in BOOLEAN :
                run' = [run EXCEPT ![v].at = next, ![v].failed = @ \/ (wrong /\ ~sure)]
          BY <4>2 DEF Posted
        <5>2. (wrong /\ ~sure) \in BOOLEAN
          OBVIOUS
        <5> QED
          BY <1>0, <5>1, <5>2
      <4> QED
        BY <3>2, <4>1, <4>2
    <3>4. /\ heard' \in {heard, heard \cup {v}}
          /\ sent' = sent \/ sent' = [sent EXCEPT ![v] = EvidenceOf(v)]
      BY <3>2 DEF NotPosted, Posted
    <3>5. [r EXCEPT !.at = next, !.failed = r.failed \/ bad]
            = [r EXCEPT !.at = next, !.ready = r.ready, !.failed = r.failed \/ bad]
      BY <2>a
    <3>6. (r.failed \/ bad) \in BOOLEAN /\ (r.failed => (r.failed \/ bad))
      BY <2>a
    <3> DEFINE worse == r.failed \/ bad
    <3>7. run' = [run EXCEPT ![v] = [r EXCEPT !.at = next, !.ready = r.ready, !.failed = worse]]
      BY <3>3, <3>5
    <3>8. worse \in BOOLEAN /\ (r.failed => worse)
      BY <3>6
    <3>9. /\ next \in {"lanes", "stage", "fetch", "conclude"} /\ r.at # "new" /\ r.at # "ended"
          /\ next \notin {"lanes", "stage"} /\ ~(next = "conclude" /\ r.command = "f3")
      BY <3>1, <3>2
    <3> HIDE DEF r, worse
    <3> QED
      BY <2>3, <2>a, <3>1, <3>4, <3>7, <3>8, <3>9
  <2>8. CASE FetchAdvisory(v) \/ FetchLocality(v)
    <3>1. r.at = "fetch" /\ UNCHANGED <<adapter, evidence, heard, short, sent, before>>
      BY <2>8 DEF FetchAdvisory, FetchLocality, historyVars
    <3>2. PICK wrong \in BOOLEAN :
            /\ run' = [run EXCEPT ![v] = [r EXCEPT !.at = "conclude", !.failed = wrong]]
            /\ r.failed => wrong
            /\ r.command = "f3" /\ ~wrong => v \in heard
      <4>1. CASE FetchAdvisory(v)
        <5>1. PICK ok \in BOOLEAN :
                run' = [run EXCEPT ![v].at = "conclude", ![v].failed = @ \/ ~ok \/ v \notin heard]
          BY <4>1 DEF FetchAdvisory
        <5> DEFINE wrong == r.failed \/ ~ok \/ v \notin heard
        <5>2. run' = [run EXCEPT ![v] = [r EXCEPT !.at = "conclude", !.failed = wrong]]
          BY <1>0, <5>1
        <5>3. wrong \in BOOLEAN /\ (r.failed => wrong) /\ (~wrong => v \in heard)
          BY <2>a
        <5> HIDE DEF wrong
        <5> QED
          BY <5>2, <5>3
      <4>2. CASE FetchLocality(v)
        <5>1. PICK good \in BOOLEAN :
                run' = [run EXCEPT ![v].at = "conclude", ![v].failed = @ \/ ~good]
          <6>1. PICK chunks, residencies, movements, phases \in BOOLEAN :
                  run' = [run EXCEPT ![v].at = "conclude",
                            ![v].failed = @ \/ ~(chunks /\ residencies /\ movements /\ phases)]
            BY <4>2 DEF FetchLocality
          <6>2. (chunks /\ residencies /\ movements /\ phases) \in BOOLEAN
            OBVIOUS
          <6> QED
            BY <6>1, <6>2
        <5> DEFINE wrong == r.failed \/ ~good
        <5>2. run' = [run EXCEPT ![v] = [r EXCEPT !.at = "conclude", !.failed = wrong]]
          BY <1>0, <5>1
        <5>3. wrong \in BOOLEAN /\ (r.failed => wrong) /\ r.command = "f1-f2"
          BY <2>a, <4>2 DEF FetchLocality
        <5> HIDE DEF wrong
        <5> QED
          BY <5>2, <5>3
      <4> QED
        BY <2>8, <4>1, <4>2
    <3>3. [r EXCEPT !.at = "conclude", !.failed = wrong]
            = [r EXCEPT !.at = "conclude", !.ready = r.ready, !.failed = wrong]
      BY <2>a
    <3> HIDE DEF r
    <3> QED
      BY <2>3, <2>a, <3>1, <3>2, <3>3
  <2>9. ASSUME NEW verdict \in {"none", "failed", "ok", "accepted"}, Ends(v, verdict),
               r.at # "new", r.at # "ended",
               UNCHANGED <<adapter, evidence, heard, short, sent, before>>,
               verdict # "none" => r.at = "conclude",
               verdict \in {"ok", "accepted"} => ~r.failed,
               verdict = "accepted" => ~r.blocked
        PROVE  FabricInv'
    <3> DEFINE rr == [Unborn EXCEPT !.at = "ended", !.command = r.command, !.id = r.id,
                                   !.verdict = verdict]
    <3>1. run' = [run EXCEPT ![v] = rr]
      BY <2>9 DEF Ends
    <3>2. /\ rr.at = "ended" /\ rr.stage = 0 /\ rr.command = r.command /\ rr.id = r.id
          /\ rr.blocked = FALSE /\ rr.verdict = verdict
      BY DEF Unborn
    <3>3. rr \in Runs
      BY <2>0 DEF Unborn, Runs
    <3> HIDE DEF rr
    <3>4. run'[v] = rr /\ run' \in [Invocation -> Runs]
          /\ \A u \in Invocation \ {v} : run'[u] = run[u]
      BY <1>0, <3>1, <3>3
    <3>5. (InPlace(v))'
      BY <2>a, <3>2, <3>4, StagesAre DEF InPlace
    <3>6. r.id \in RunId
      BY <2>0, <2>9 DEF Unfinished
    <3>7. Moves(v)
      BY <2>0, <2>9, <3>2, <3>4, <3>5, <3>6 DEF Moves
    <3>8. Shares(v) => (Shares(v))'
      BY <2>9, <3>7, SharesStay
    <3>9. \A w \in before'[v] : run'[w].at = "ended"
      BY <2>0, <2>9, <3>4 DEF Unfinished
    <3>10. (Unfinished(v))'
      BY <3>2, <3>4, <3>6, <3>9 DEF Unfinished
    <3>11. (Selected(v))' = Selected(v)
      BY <3>2, <3>4 DEF Selected
    <3>12. /\ verdict = "accepted" => v \notin short
           /\ verdict = "ok" /\ ~Validates(r.command) => v \notin short
           /\ verdict = "ok" /\ r.command = "f3" => v \in heard
      BY <2>0, <2>9 DEF Unfinished
    <3>13. (Earned(v))'
      BY <2>0, <2>9, <3>2, <3>4, <3>8, <3>11, <3>12 DEF Earned
    <3> QED
      BY <3>7, <3>10, <3>13, OneMoves
  <2>10. CASE Conclude(v)
    <3> DEFINE verdict == IF r.failed THEN "failed"
                          ELSE IF r.command = "acceptance-closeout" /\ ~r.blocked
                               THEN "accepted" ELSE "ok"
    <3>1. r.at = "conclude" /\ Ends(v, verdict)
          /\ UNCHANGED <<adapter, evidence, heard, short, sent, before>>
      BY <2>10 DEF Conclude, historyVars
    <3>2. /\ verdict \in {"none", "failed", "ok", "accepted"}
          /\ verdict \in {"ok", "accepted"} => ~r.failed
          /\ verdict = "accepted" => ~r.blocked
      OBVIOUS
    <3> HIDE DEF verdict, r
    <3> QED
      BY <2>9, <3>1, <3>2
  <2>11. CASE Interrupt(v)
    <3>1. r.at \notin {"new", "ended"} /\ Ends(v, "none")
          /\ UNCHANGED <<adapter, evidence, heard, short, sent, before>>
      BY <2>11 DEF Interrupt, historyVars
    <3> HIDE DEF r
    <3> QED
      BY <2>9, <3>1
  <2> QED
    BY <1>3, <2>2, <2>4, <2>5, <2>6, <2>7, <2>8, <2>10, <2>11 DEF InvocationStep, StageStep
<1> QED
  BY <1>1, <1>2, <1>3 DEF FabricNext

LEMMA InitFabric == FabricInit => FabricInv
<1> SUFFICES ASSUME FabricInit PROVE FabricInv
  OBVIOUS
<1>1. Unborn \in Runs
  BY DEF Unborn, Runs
<1>2. run \in [Invocation -> Runs] /\ \A v \in Invocation : run[v] = Unborn
  BY <1>1 DEF FabricInit
<1>3. FabricTypeOK
  <2>1. \A v \in Invocation : InPlace(v)
    BY <1>2, StagesAre DEF Unborn, InPlace
  <2> QED
    BY <1>2, <2>1 DEF FabricInit, FabricTypeOK, Unborn, InPlace
<1>4. \A v \in Invocation : Unfinished(v) /\ Earned(v)
  BY <1>2 DEF FabricInit, Unborn, Unfinished, Earned
<1> QED
  BY <1>2, <1>3, <1>4 DEF FabricInv

LEMMA FabricInvariant == FabricSpec => []FabricInv
BY InitFabric, StepFabric, PTL DEF FabricSpec

(* Runs, evidence and the history have the types the code gives them. *)
THEOREM FabricTypeCorrect == FabricSpec => []FabricTypeOK
BY FabricInvariant, PTL DEF FabricInv

(* A run is accepted only when all its stages have passed, a closeout and   *)
(* an import succeed only then, the F3 closeout only when k1s has its own   *)
(* trace, and evidence that is sent is of this run or of one at work at the *)
(* same time (ai_fabric_lab.py), for any number of invocations and run ids. *)
THEOREM TheVerdictIsEarned == FabricSpec => []VerdictIsEarned
<1>1. FabricInv => VerdictIsEarned
  BY DEF FabricInv, Earned, VerdictIsEarned
<1> QED
  BY FabricInvariant, <1>1, PTL

-----------------------------------------------------------------------------
(* The retrieval index. *)

AtWork(i) == indexer[i].at # "idle"

Searches ==
  [at : {"idle", "ask", "local", "found"}, in : {"none", "qdrant", "local"}, limit : 0..20,
   found : SUBSET Chunks, due : [qdrant : SUBSET Chunks, local : SUBSET Chunks]]

(* What an index that no other has overlapped can rely on. *)
Undisturbed(i) ==
  LET r == indexer[i] IN
  /\ AtWork(i) /\ \A k \in Indexer \ {i} : ~AtWork(k)
  /\ r.at \in {"look", "delete", "create"} => r.left = r.chunks
  /\ r.at = "put" => collection = "ours" /\ r.chunks \ r.left \subseteq points
  /\ r.at \in {"manifest", "clear", "extend"} /\ r.ok => r.chunks \subseteq points
  /\ r.at = "extend" => memory = {}

(* What a search has found lacks nothing that is due, unless it is full.    *)
MissesNothing(q) ==
  /\ q.in = "qdrant" => q.due.qdrant \subseteq q.found \/ Cardinality(q.found) = q.limit
  /\ q.in = "local" /\ q.due.local # {} =>
       /\ q.found \subseteq q.due.local
       /\ q.found = q.due.local \/ Cardinality(q.found) = q.limit

RetrievalInv ==
  /\ RetrievalTypeOK
  /\ search \in [Searcher -> Searches]
  /\ \A i \in Indexer : indexer[i].alone => Undisturbed(i)
  /\ (\E i \in Indexer : AtWork(i)) => settled = {}
  /\ settled # {} => memory = settled
  /\ reported \subseteq points
  /\ \A s \in Searcher :
       /\ search[s].at = "local" => search[s].due.local \in {{}, settled}
       /\ search[s].at = "found" => MissesNothing(search[s])

Indexers ==
  [at : {"idle", "look", "delete", "create", "put", "manifest", "clear", "extend"},
   chunks : SUBSET Chunks, left : SUBSET Chunks, ok : BOOLEAN, alone : BOOLEAN]

(* A step of one index that only changes what Qdrant has and where it is.   *)
LEMMA OnePutsOn ==
  ASSUME RetrievalInv, NEW i \in Indexer, NEW next \in Indexers,
         AtWork(i), indexer' = [indexer EXCEPT ![i] = next],
         UNCHANGED <<corpus, memory, search, reported, settled>>,
         manifest' \subseteq Chunks,
         collection' \in {"none", "other", "ours"}, points' \subseteq Chunks,
         collection' # "ours" => points' = {},
         next.alone => indexer[i].alone, next.alone => (Undisturbed(i))'
  PROVE  RetrievalInv'
<1>1. indexer' \in [Indexer -> Indexers] /\ indexer \in [Indexer -> Indexers]
  BY DEF RetrievalInv, RetrievalTypeOK, Indexers
<1>2. RetrievalTypeOK'
  BY <1>1 DEF RetrievalInv, RetrievalTypeOK, Indexers
<1>3. settled = {} /\ reported = {}
  BY DEF RetrievalInv, RetrievalTypeOK
<1>4. ASSUME NEW k \in Indexer, indexer'[k].alone PROVE (Undisturbed(k))'
  <2>1. CASE k = i
    BY <1>1, <1>4, <2>1
  <2>2. CASE k # i
    <3>1. indexer[k].alone
      BY <1>1, <1>4, <2>2
    <3> QED
      BY <2>2, <3>1 DEF RetrievalInv, Undisturbed
  <2> QED
    BY <2>1, <2>2
<1> QED
  BY <1>2, <1>3, <1>4 DEF RetrievalInv

LEMMA StepRetrieval == RetrievalInv /\ [RetrievalNext]_retrievalVars => RetrievalInv'
<1> SUFFICES ASSUME RetrievalInv, [RetrievalNext]_retrievalVars PROVE RetrievalInv'
  OBVIOUS
<1>0. /\ indexer \in [Indexer -> Indexers] /\ search \in [Searcher -> Searches]
      /\ corpus \in [Doc -> 0..Versions] /\ Versions \in Nat
      /\ points \subseteq Chunks /\ memory \subseteq Chunks /\ manifest \subseteq Chunks
      /\ reported \subseteq settled /\ settled \subseteq Chunks
      /\ collection \in {"none", "other", "ours"} /\ (collection # "ours" => points = {})
  BY RetrievalAssumption DEF RetrievalInv, RetrievalTypeOK, Indexers
<1>1. CASE UNCHANGED retrievalVars
  BY <1>1 DEF retrievalVars, RetrievalInv, RetrievalTypeOK, Undisturbed, AtWork
<1>2. CASE EditDocument
  <2>1. PICK d \in Doc : corpus[d] < Versions /\ corpus' = [corpus EXCEPT ![d] = @ + 1]
    BY <1>2 DEF EditDocument
  <2>2. corpus' \in [Doc -> 0..Versions]
    BY <1>0, <2>1
  <2>3. UNCHANGED <<collection, points, memory, indexer, manifest, search, reported, settled>>
    BY <1>2 DEF EditDocument, qdrant
  <2> QED
    BY <2>2, <2>3 DEF RetrievalInv, RetrievalTypeOK, Undisturbed, AtWork
<1>3. ASSUME NEW i \in Indexer, ReadCorpus(i) PROVE RetrievalInv'
  <2> DEFINE chunks == {<<d, corpus[d]>> : d \in Doc}
             begun == [at |-> "look", chunks |-> chunks, left |-> chunks, ok |-> TRUE,
                       alone |-> \A k \in Indexer : indexer[k].at = "idle"]
  <2>1. chunks \subseteq Chunks
    BY <1>0 DEF Chunks
  <2>2. begun \in Indexers
    <3>1. (\A k \in Indexer : indexer[k].at = "idle") \in BOOLEAN
      OBVIOUS
    <3> HIDE DEF chunks
    <3> QED
      BY <2>1, <3>1 DEF Indexers
  <2>3. /\ indexer' = [j \in Indexer |-> IF j = i THEN begun ELSE [indexer[j] EXCEPT !.alone = FALSE]]
        /\ reported' = {} /\ settled' = {}
        /\ search' = [s \in Searcher |-> [search[s] EXCEPT !.due = Due({}, {})]]
        /\ UNCHANGED <<corpus, collection, points, memory, manifest>>
    BY <1>3 DEF ReadCorpus, qdrant
  <2>4. /\ begun.at = "look" /\ begun.left = begun.chunks
        /\ begun.alone => \A k \in Indexer : indexer[k].at = "idle"
    OBVIOUS
  <2> HIDE DEF begun
  <2>5. \A j \in Indexer : [indexer[j] EXCEPT !.alone = FALSE] \in Indexers
                           /\ [indexer[j] EXCEPT !.alone = FALSE].at = indexer[j].at
                           /\ [indexer[j] EXCEPT !.alone = FALSE].alone = FALSE
    BY <1>0 DEF Indexers
  <2>6. indexer' \in [Indexer -> Indexers] /\ indexer'[i] = begun
        /\ \A j \in Indexer \ {i} : indexer'[j].at = indexer[j].at /\ indexer'[j].alone = FALSE
    BY <2>2, <2>3, <2>5
  <2>7. Due({}, {}) \in [qdrant : SUBSET Chunks, local : SUBSET Chunks]
        /\ Due({}, {}).qdrant = {} /\ Due({}, {}).local = {}
    BY DEF Due
  <2>8. \A s \in Searcher : /\ [search[s] EXCEPT !.due = Due({}, {})] \in Searches
                            /\ [search[s] EXCEPT !.due = Due({}, {})].due = Due({}, {})
    BY <1>0, <2>7 DEF Searches
  <2>9. search' \in [Searcher -> Searches] /\ \A s \in Searcher : search'[s].due = Due({}, {})
    BY <2>3, <2>8
  <2>10. RetrievalTypeOK'
    BY <1>0, <2>3, <2>6, <2>9 DEF RetrievalTypeOK, Searches, Indexers
  <2>11. \A j \in Indexer : indexer'[j].alone => (Undisturbed(j))'
    BY <2>4, <2>6 DEF Undisturbed, AtWork
  <2> QED
    BY <2>3, <2>7, <2>9, <2>10, <2>11 DEF RetrievalInv, MissesNothing
<1>4. ASSUME NEW i \in Indexer, LookForCollection(i) PROVE RetrievalInv'
  <2>1. PICK next \in {"put", "delete", "create"} :
          /\ indexer' = [indexer EXCEPT ![i] = [indexer[i] EXCEPT !.at = next]]
          /\ next = "put" => collection = "ours"
    BY <1>0, <1>4 DEF LookForCollection, IndexerAt
  <2>2. indexer[i].at = "look"
        /\ UNCHANGED <<corpus, collection, points, memory, manifest, search, reported, settled>>
    BY <1>4 DEF LookForCollection, qdrant
  <2> DEFINE rr == [indexer[i] EXCEPT !.at = next]
  <2>3. /\ rr \in Indexers /\ rr.at = next /\ rr.alone = indexer[i].alone
        /\ rr.left = indexer[i].left /\ rr.chunks = indexer[i].chunks
    BY <1>0 DEF Indexers
  <2> HIDE DEF rr
  <2>4. rr.alone => (Undisturbed(i))'
    BY <1>0, <2>1, <2>2, <2>3 DEF RetrievalInv, Undisturbed, AtWork, rr
  <2>5. AtWork(i)
    BY <2>2 DEF AtWork
  <2> QED
    BY <1>0, <2>1, <2>2, <2>3, <2>4, <2>5, OnePutsOn DEF rr
<1>5. ASSUME NEW i \in Indexer, DeleteCollection(i) PROVE RetrievalInv'
  <2>1. /\ indexer' = [indexer EXCEPT ![i] = [indexer[i] EXCEPT !.at = "create"]]
        /\ indexer[i].at = "delete" /\ collection' = "none" /\ points' = {}
        /\ UNCHANGED <<corpus, memory, manifest, search, reported, settled>>
    BY <1>5 DEF DeleteCollection, IndexerAt
  <2> DEFINE rr == [indexer[i] EXCEPT !.at = "create"]
  <2>2. /\ rr \in Indexers /\ rr.at = "create" /\ rr.alone = indexer[i].alone
        /\ rr.left = indexer[i].left /\ rr.chunks = indexer[i].chunks
    BY <1>0 DEF Indexers
  <2>3. indexer'[i] = rr /\ \A k \in Indexer \ {i} : indexer'[k] = indexer[k]
    BY <1>0, <2>1
  <2> HIDE DEF rr
  <2>4. rr.alone => (Undisturbed(i))'
    BY <2>1, <2>2, <2>3, ZenonT(60) DEF RetrievalInv, Undisturbed, AtWork
  <2>5. AtWork(i)
    BY <2>1 DEF AtWork
  <2> QED
    BY <1>0, <2>1, <2>2, <2>4, <2>5, OnePutsOn DEF rr
<1>6. ASSUME NEW i \in Indexer, CreateCollection(i) PROVE RetrievalInv'
  <2>1. /\ indexer[i].at = "create"
        /\ UNCHANGED <<corpus, points, memory, manifest, search, reported, settled>>
        /\ \/ /\ collection = "none" /\ collection' = "ours"
              /\ indexer' = [indexer EXCEPT ![i] = [indexer[i] EXCEPT !.at = "put"]]
           \/ /\ collection' = collection
              /\ indexer' = [indexer EXCEPT ![i] = [indexer[i] EXCEPT !.at = "manifest", !.ok = FALSE]]
    BY <1>6 DEF CreateCollection, IndexerAt
  <2>2. AtWork(i)
    BY <2>1 DEF AtWork
  <2>3. CASE /\ collection = "none" /\ collection' = "ours"
             /\ indexer' = [indexer EXCEPT ![i] = [indexer[i] EXCEPT !.at = "put"]]
    <3> DEFINE rr == [indexer[i] EXCEPT !.at = "put"]
    <3>1. /\ rr \in Indexers /\ rr.at = "put" /\ rr.alone = indexer[i].alone
          /\ rr.left = indexer[i].left /\ rr.chunks = indexer[i].chunks
      BY <1>0 DEF Indexers
    <3>2. indexer'[i] = rr /\ \A k \in Indexer \ {i} : indexer'[k] = indexer[k]
      BY <1>0, <2>3
    <3> HIDE DEF rr
    <3>3. rr.alone => (Undisturbed(i))'
      BY <2>1, <2>3, <3>1, <3>2, ZenonT(60) DEF RetrievalInv, Undisturbed, AtWork
    <3> QED
      BY <1>0, <2>1, <2>2, <2>3, <3>1, <3>3, OnePutsOn DEF rr
  <2>4. CASE /\ collection' = collection
             /\ indexer' = [indexer EXCEPT ![i] = [indexer[i] EXCEPT !.at = "manifest", !.ok = FALSE]]
    <3> DEFINE rr == [indexer[i] EXCEPT !.at = "manifest", !.ok = FALSE]
    <3>1. /\ rr \in Indexers /\ rr.at = "manifest" /\ rr.ok = FALSE /\ rr.alone = indexer[i].alone
      BY <1>0 DEF Indexers
    <3>2. indexer'[i] = rr /\ \A k \in Indexer \ {i} : indexer'[k] = indexer[k]
      BY <1>0, <2>4
    <3> HIDE DEF rr
    <3>3. rr.alone => (Undisturbed(i))'
      BY <2>1, <3>1, <3>2 DEF RetrievalInv, Undisturbed, AtWork
    <3> QED
      BY <1>0, <2>1, <2>2, <2>4, <3>1, <3>3, OnePutsOn DEF rr
  <2> QED
    BY <2>1, <2>3, <2>4
<1>7. ASSUME NEW i \in Indexer, PutBatch(i) PROVE RetrievalInv'
  <2>1. PICK b \in SUBSET indexer[i].left :
          /\ points' = points \cup b
          /\ indexer' = [indexer EXCEPT ![i] = [indexer[i] EXCEPT !.left = @ \ b,
                                                  !.at = IF b = indexer[i].left THEN "manifest"
                                                                                ELSE "put"]]
    BY <1>7 DEF PutBatch, IndexerAt
  <2>2. /\ indexer[i].at = "put" /\ collection = "ours"
        /\ UNCHANGED <<corpus, collection, memory, manifest, search, reported, settled>>
    BY <1>7 DEF PutBatch
  <2> DEFINE next == IF b = indexer[i].left THEN "manifest" ELSE "put"
             rr == [indexer[i] EXCEPT !.left = @ \ b, !.at = next]
  <2>a. next \in {"manifest", "put"} /\ (next = "manifest" => b = indexer[i].left)
    OBVIOUS
  <2>b. indexer[i].left \ b \subseteq Chunks /\ b \subseteq Chunks
    BY <1>0 DEF Indexers
  <2> HIDE DEF next
  <2>3. /\ rr \in Indexers /\ rr.at = next /\ rr.alone = indexer[i].alone
        /\ rr.left = indexer[i].left \ b /\ rr.chunks = indexer[i].chunks
    BY <1>0, <2>a, <2>b DEF Indexers
  <2>c. indexer' = [indexer EXCEPT ![i] = rr]
    BY <2>1 DEF next
  <2> HIDE DEF rr
  <2>4. indexer'[i] = rr /\ \A k \in Indexer \ {i} : indexer'[k] = indexer[k]
    BY <1>0, <2>c
  <2>d. indexer[i].alone => /\ \A k \in Indexer \ {i} : ~AtWork(k)
                            /\ indexer[i].chunks \ indexer[i].left \subseteq points
    BY <2>2 DEF RetrievalInv, Undisturbed
  <2>e. rr.alone => /\ rr.chunks \ rr.left \subseteq points'
                    /\ rr.at = "manifest" => rr.chunks \subseteq points'
    BY <2>1, <2>3, <2>a, <2>d
  <2>f. rr.alone => (\A k \in Indexer \ {i} : ~AtWork(k))' /\ AtWork(i)'
    BY <2>3, <2>4, <2>a, <2>d DEF AtWork
  <2>5. rr.alone => (Undisturbed(i))'
    BY <2>2, <2>3, <2>4, <2>a, <2>e, <2>f DEF Undisturbed
  <2>6. AtWork(i)
    BY <2>2 DEF AtWork
  <2> QED
    BY <1>0, <2>1, <2>2, <2>3, <2>5, <2>6, <2>b, <2>c, OnePutsOn
<1>8. ASSUME NEW i \in Indexer, QdrantFails(i) PROVE RetrievalInv'
  <2>1. /\ indexer[i].at \in {"look", "delete", "create", "put"}
        /\ UNCHANGED <<corpus, collection, points, memory, manifest, search, reported, settled>>
        /\ \/ indexer' = [indexer EXCEPT ![i] = [indexer[i] EXCEPT !.at = "manifest", !.ok = FALSE]]
           \/ indexer' = [indexer EXCEPT ![i] = NotIndexing]
    BY <1>8 DEF QdrantFails, IndexerAt, qdrant
  <2>2. AtWork(i)
    BY <2>1 DEF AtWork
  <2>3. CASE indexer' = [indexer EXCEPT ![i] = NotIndexing]
    <3>1. NotIndexing \in Indexers /\ NotIndexing.alone = FALSE
      BY DEF NotIndexing, Indexers
    <3> QED
      BY <1>0, <2>1, <2>2, <2>3, <3>1, OnePutsOn
  <2>4. CASE indexer' = [indexer EXCEPT ![i] = [indexer[i] EXCEPT !.at = "manifest", !.ok = FALSE]]
    <3> DEFINE rr == [indexer[i] EXCEPT !.at = "manifest", !.ok = FALSE]
    <3>1. /\ rr \in Indexers /\ rr.at = "manifest" /\ rr.ok = FALSE /\ rr.alone = indexer[i].alone
      BY <1>0 DEF Indexers
    <3>2. indexer'[i] = rr /\ \A k \in Indexer \ {i} : indexer'[k] = indexer[k]
      BY <1>0, <2>4
    <3> HIDE DEF rr
    <3>3. rr.alone => (Undisturbed(i))'
      BY <2>1, <3>1, <3>2 DEF RetrievalInv, Undisturbed, AtWork
    <3> QED
      BY <1>0, <2>1, <2>2, <2>4, <3>1, <3>3, OnePutsOn DEF rr
  <2> QED
    BY <2>1, <2>3, <2>4
<1>9. ASSUME NEW i \in Indexer, WriteManifest(i) PROVE RetrievalInv'
  <2>1. /\ indexer[i].at = "manifest" /\ manifest' = indexer[i].chunks
        /\ indexer' = [indexer EXCEPT ![i] = [indexer[i] EXCEPT !.at = "clear"]]
        /\ UNCHANGED <<corpus, collection, points, memory, search, reported, settled>>
    BY <1>9 DEF WriteManifest, IndexerAt, qdrant
  <2> DEFINE rr == [indexer[i] EXCEPT !.at = "clear"]
  <2>2. /\ rr \in Indexers /\ rr.at = "clear" /\ rr.alone = indexer[i].alone
        /\ rr.ok = indexer[i].ok /\ rr.chunks = indexer[i].chunks /\ manifest' \subseteq Chunks
    BY <1>0, <2>1 DEF Indexers
  <2>3. indexer'[i] = rr /\ \A k \in Indexer \ {i} : indexer'[k] = indexer[k]
    BY <1>0, <2>1
  <2> HIDE DEF rr
  <2>4. rr.alone => (Undisturbed(i))'
    BY <2>1, <2>2, <2>3, ZenonT(60) DEF RetrievalInv, Undisturbed, AtWork
  <2>5. AtWork(i)
    BY <2>1 DEF AtWork
  <2> QED
    BY <1>0, <2>1, <2>2, <2>4, <2>5, OnePutsOn DEF rr
<1>10. ASSUME NEW i \in Indexer, ClearMemory(i) PROVE RetrievalInv'
  <2>1. /\ indexer[i].at = "clear" /\ memory' = {}
        /\ indexer' = [indexer EXCEPT ![i] = [indexer[i] EXCEPT !.at = "extend"]]
        /\ UNCHANGED <<corpus, collection, points, manifest, search, reported, settled>>
    BY <1>10 DEF ClearMemory, IndexerAt, qdrant
  <2> DEFINE rr == [indexer[i] EXCEPT !.at = "extend"]
  <2>2. /\ rr \in Indexers /\ rr.at = "extend" /\ rr.alone = indexer[i].alone
        /\ rr.ok = indexer[i].ok /\ rr.chunks = indexer[i].chunks
    BY <1>0 DEF Indexers
  <2> HIDE DEF rr
  <2>3. indexer'[i] = rr /\ indexer' \in [Indexer -> Indexers]
        /\ \A k \in Indexer \ {i} : indexer'[k] = indexer[k]
    BY <1>0, <2>1, <2>2 DEF rr
  <2>4. RetrievalTypeOK'
    BY <1>0, <2>1, <2>3 DEF RetrievalInv, RetrievalTypeOK, Indexers
  <2>5. settled = {}
    BY <2>1 DEF RetrievalInv, AtWork
  <2>6. ASSUME NEW k \in Indexer, indexer'[k].alone PROVE (Undisturbed(k))'
    <3>1. CASE k = i
      BY <2>1, <2>2, <2>3, <2>6, <3>1 DEF RetrievalInv, Undisturbed, AtWork
    <3>2. CASE k # i
      BY <2>1, <2>3, <2>6, <3>2 DEF RetrievalInv, Undisturbed, AtWork
    <3> QED
      BY <3>1, <3>2
  <2> QED
    BY <2>1, <2>4, <2>5, <2>6 DEF RetrievalInv
<1>11. ASSUME NEW i \in Indexer, ExtendMemory(i) PROVE RetrievalInv'
  <2> DEFINE r == indexer[i]
  <2>1. /\ r.at = "extend" /\ memory' = memory \cup r.chunks
        /\ reported' = (IF r.alone /\ r.ok THEN r.chunks ELSE {})
        /\ settled' = (IF r.alone THEN r.chunks ELSE {})
        /\ indexer' = [indexer EXCEPT ![i] = NotIndexing]
        /\ UNCHANGED <<corpus, collection, points, manifest, search>>
    BY <1>11 DEF ExtendMemory, IndexerAt, qdrant
  <2>2. NotIndexing \in Indexers /\ NotIndexing.at = "idle" /\ NotIndexing.alone = FALSE
    BY DEF NotIndexing, Indexers
  <2>3. r.chunks \subseteq Chunks
    BY <1>0 DEF Indexers
  <2>4. indexer'[i] = NotIndexing /\ indexer' \in [Indexer -> Indexers]
        /\ \A k \in Indexer \ {i} : indexer'[k] = indexer[k]
    BY <1>0, <2>1, <2>2
  <2>5. RetrievalTypeOK'
    BY <1>0, <2>1, <2>3, <2>4 DEF RetrievalInv, RetrievalTypeOK, Indexers
  <2>6. AtWork(i) /\ settled = {}
    BY <2>1 DEF RetrievalInv, AtWork
  <2>7. r.alone => /\ \A k \in Indexer \ {i} : ~AtWork(k)
                   /\ memory = {} /\ (r.ok => r.chunks \subseteq points)
    BY <2>1 DEF RetrievalInv, Undisturbed
  <2>8. ASSUME NEW k \in Indexer PROVE ~indexer'[k].alone
    <3>1. CASE k = i
      BY <2>2, <2>4, <3>1
    <3>2. CASE k # i
      BY <2>4, <2>6, <3>2 DEF RetrievalInv, Undisturbed
    <3> QED
      BY <3>1, <3>2
  <2>9. (\E k \in Indexer : AtWork(k))' => settled' = {}
    BY <2>1, <2>2, <2>4, <2>7 DEF AtWork
  <2>10. (settled' # {} => memory' = settled') /\ reported' \subseteq points'
    BY <2>1, <2>7
  <2>11. \A s \in Searcher : search[s].at = "local" => search[s].due.local \in {{}, settled'}
    BY <2>6 DEF RetrievalInv
  <2> QED
    BY <2>1, <2>5, <2>8, <2>9, <2>10, <2>11 DEF RetrievalInv
<1>12. ASSUME NEW s \in Searcher, NEW rr \in Searches,
              search' = [search EXCEPT ![s] = rr],
              UNCHANGED <<corpus, collection, points, memory, indexer, manifest, reported, settled>>,
              rr.at = "local" => rr.due.local \in {{}, settled},
              rr.at = "found" => MissesNothing(rr)
       PROVE  RetrievalInv'
  <2>1. search' \in [Searcher -> Searches] /\ search'[s] = rr
        /\ \A t \in Searcher \ {s} : search'[t] = search[t]
    BY <1>0, <1>12
  <2>2. RetrievalTypeOK'
    BY <1>12, <2>1 DEF RetrievalInv, RetrievalTypeOK, Searches
  <2>3. ASSUME NEW t \in Searcher
        PROVE  /\ search'[t].at = "local" => search'[t].due.local \in {{}, settled}
               /\ search'[t].at = "found" => MissesNothing(search'[t])
    <3>1. CASE t = s
      BY <1>12, <2>1, <3>1
    <3>2. CASE t # s
      BY <2>1, <3>2 DEF RetrievalInv
    <3> QED
      BY <3>1, <3>2
  <2> QED
    BY <1>12, <2>1, <2>2, <2>3 DEF RetrievalInv, Undisturbed, AtWork
<1>13. ASSUME NEW s \in Searcher, SearchQdrant(s) PROVE RetrievalInv'
  <2>0. PICK n \in Wanted : \E hits \in SUBSET points :
          LET r == [NotSearching EXCEPT !.due = Due(reported, settled), !.limit = n] IN
          \/ /\ AreBest(hits, points, n)
             /\ search' = [search EXCEPT ![s] = [r EXCEPT !.at = "found", !.in = "qdrant",
                                                          !.found = hits]]
          \/ search' = [search EXCEPT ![s] = [r EXCEPT !.at = "local"]]
    BY <1>13 DEF SearchQdrant
  <2>1. PICK hits \in SUBSET points :
          LET r == [NotSearching EXCEPT !.due = Due(reported, settled), !.limit = n] IN
          \/ /\ AreBest(hits, points, n)
             /\ search' = [search EXCEPT ![s] = [r EXCEPT !.at = "found", !.in = "qdrant",
                                                          !.found = hits]]
          \/ search' = [search EXCEPT ![s] = [r EXCEPT !.at = "local"]]
    BY <2>0
  <2> DEFINE r == [NotSearching EXCEPT !.due = Due(reported, settled), !.limit = n]
             there == [r EXCEPT !.at = "found", !.in = "qdrant", !.found = hits]
             elsewhere == [r EXCEPT !.at = "local"]
  <2>2. /\ Due(reported, settled) \in [qdrant : SUBSET Chunks, local : SUBSET Chunks]
        /\ Due(reported, settled).qdrant = reported /\ Due(reported, settled).local = settled
    BY <1>0 DEF Due
  <2>8. /\ n \in 0..20 /\ hits \subseteq Chunks
        /\ UNCHANGED <<corpus, collection, points, memory, indexer, manifest, reported, settled>>
    <3>1. n \in 1..20 /\ hits \subseteq Chunks
      BY <1>0, RetrievalAssumption
    <3>2. UNCHANGED <<corpus, collection, points, memory, indexer, manifest, reported, settled>>
      BY <1>13 DEF SearchQdrant, qdrant
    <3> QED
      BY <3>1, <3>2
  <2>3. r \in Searches /\ r.due = Due(reported, settled) /\ r.limit = n
    <3>1. NotSearching \in Searches
      BY DEF NotSearching, Searches, Due
    <3> QED
      BY <2>2, <2>8, <3>1 DEF Searches
  <2>6. \/ AreBest(hits, points, n) /\ search' = [search EXCEPT ![s] = there]
        \/ search' = [search EXCEPT ![s] = elsewhere]
    BY <2>1
  <2> HIDE DEF r
  <2>4. /\ there \in Searches /\ there.at = "found" /\ there.in = "qdrant" /\ there.found = hits
        /\ there.due = r.due /\ there.limit = n
        /\ elsewhere \in Searches /\ elsewhere.at = "local" /\ elsewhere.due = r.due
    BY <1>0, <2>2, <2>3, <2>8 DEF Searches
  <2> HIDE DEF there, elsewhere
  <2>5. reported \subseteq points
    BY DEF RetrievalInv
  <2>7. AreBest(hits, points, n) => MissesNothing(there)
    BY <2>2, <2>3, <2>4, <2>5 DEF AreBest, MissesNothing
  <2> QED
    BY <1>12, <2>2, <2>3, <2>4, <2>6, <2>7, <2>8
<1>14. ASSUME NEW s \in Searcher, SearchLocal(s) PROVE RetrievalInv'
  <2>0. PICK hits \in SUBSET memory :
          /\ AreBest(hits, memory, search[s].limit)
          /\ search' = [search EXCEPT ![s] = [search[s] EXCEPT !.at = "found", !.in = "local",
                                                               !.found = hits]]
    BY <1>0, <1>14 DEF SearchLocal
  <2> DEFINE rr == [search[s] EXCEPT !.at = "found", !.in = "local", !.found = hits]
  <2>1. /\ search[s].at = "local" /\ search' = [search EXCEPT ![s] = rr] /\ hits \subseteq Chunks
        /\ UNCHANGED <<corpus, collection, points, memory, indexer, manifest, reported, settled>>
    BY <1>0, <1>14, <2>0 DEF SearchLocal, qdrant
  <2>2. /\ rr \in Searches /\ rr.at = "found" /\ rr.in = "local" /\ rr.found = hits
        /\ rr.due = search[s].due /\ rr.limit = search[s].limit
    BY <1>0, <2>1 DEF Searches
  <2> HIDE DEF rr
  <2>3. search[s].due.local # {} => search[s].due.local = memory
    BY <2>1 DEF RetrievalInv
  <2>4. MissesNothing(rr)
    BY <2>0, <2>2, <2>3 DEF AreBest, MissesNothing
  <2> QED
    BY <1>12, <2>1, <2>2, <2>4
<1>15. ASSUME NEW s \in Searcher, EndSearch(s) PROVE RetrievalInv'
  <2>1. /\ search' = [search EXCEPT ![s] = NotSearching]
        /\ UNCHANGED <<corpus, collection, points, memory, indexer, manifest, reported, settled>>
    BY <1>15 DEF EndSearch, qdrant
  <2>2. NotSearching \in Searches /\ NotSearching.at = "idle"
    BY DEF NotSearching, Searches, Due
  <2> QED
    BY <1>12, <2>1, <2>2
<1> QED
  BY <1>1, <1>2, <1>3, <1>4, <1>5, <1>6, <1>7, <1>8, <1>9, <1>10, <1>11, <1>13, <1>14, <1>15
     DEF RetrievalNext

LEMMA InitRetrieval == RetrievalInit => RetrievalInv
<1> SUFFICES ASSUME RetrievalInit PROVE RetrievalInv
  OBVIOUS
<1>1. NotSearching \in Searches /\ NotSearching.at = "idle"
  BY DEF NotSearching, Searches, Due
<1>2. NotIndexing \in Indexers /\ NotIndexing.at = "idle" /\ NotIndexing.alone = FALSE
  BY DEF NotIndexing, Indexers
<1>3. search \in [Searcher -> Searches] /\ indexer \in [Indexer -> Indexers]
  BY <1>1, <1>2 DEF RetrievalInit
<1>4. corpus \in [Doc -> 0..Versions]
  BY RetrievalAssumption DEF RetrievalInit
<1>5. RetrievalTypeOK
  BY <1>3, <1>4 DEF RetrievalInit, RetrievalTypeOK, Searches, Indexers
<1> QED
  BY <1>1, <1>2, <1>3, <1>5 DEF RetrievalInit, RetrievalInv, AtWork

LEMMA RetrievalInvariant == RetrievalSpec => []RetrievalInv
BY InitRetrieval, StepRetrieval, PTL DEF RetrievalSpec

(* Indexes, searches and what they read and write have the types the code   *)
(* gives them.                                                              *)
THEOREM RetrievalTypeCorrect == RetrievalSpec => []RetrievalTypeOK
BY RetrievalInvariant, PTL DEF RetrievalInv

(* After an index that no other has overlapped, and until another begins,   *)
(* a search misses nothing of what it has read unless its answer is full    *)
(* (build_index, search), however many documents, indexes and searches      *)
(* there are, however big a batch is and however much a search asks for.    *)
THEOREM TheIndexIsFound == RetrievalSpec => []SearchFinds
<1>1. RetrievalInv => SearchFinds
  BY DEF RetrievalInv, SearchFinds, MissesNothing
<1> QED
  BY RetrievalInvariant, <1>1, PTL

-----------------------------------------------------------------------------
(* The advice of the AI fabric. *)

(* Of the facts acknowledged before a request, those in the lines asked     *)
(* about are in the answer, or as many lines are better as were asked for.  *)
Founded(earlier, facts, lines, query) ==
  \A k \in earlier : k.line \in lines =>
    k.fact \in In(facts) \/ Cardinality({j \in lines : Better(query, j, k.line)}) >= Limit

Terms(r) == IF r.by = "subject" THEN {} ELSE r.asks.query
AskedFor(r) == IF r.by = "subject" THEN About(r.subject) ELSE Matches(r.asks.query)

(* What a request has got so far is founded, and stays so while the file    *)
(* grows.                                                                   *)
AskerInv(a, r) ==
  /\ r.at = "none" => r = NotAsked
  /\ r.at # "none" => r.asks \in Queries
  /\ r.symbolic # <<>> => /\ Founded(r.before, r.symbolic, Matches(r.asks.query), r.asks.query)
                          /\ Len(r.symbolic) <= Limit
  /\ r.at \in {"model", "answered"} /\ r.verdict # "unavailable" =>
       /\ Founded(r.before, r.facts, AskedFor(r), Terms(r))
       /\ r.verdict = "review" => \A f \in In(r.facts) : ~Blocks(r.subject, f, In(r.facts))

(* A line in the file holds the fact it was acknowledged with, unless it    *)
(* was torn, as the last one may be.                                        *)
AdviceInv ==
  /\ AdviceTypeOK
  /\ Len(log) + Len(import.left) <= MaxLines
  /\ torn => log # <<>> /\ log[Len(log)] = NoFact
  /\ \A d \in import.done \cup kept : log[d.line] \in {d.fact, NoFact}
  /\ \A a \in Asker : AskerInv(a, request[a])

LEMMA ImportedFacts ==
  ASSUME NEW sight \in Observed
  PROVE  RuntimeFacts(sight) \in Seq(Facts)
<1>1. FactsOf(sight) \subseteq Facts /\ IsFiniteSet(FactsOf(sight))
  BY FactsAssumption DEF Facts
<1>2. ASSUME NEW S, S \subseteq FactsOf(sight) PROVE SetToSeq(S) \in Seq(Facts)
  <2>1. SetToSeq(S) \in Seq(S)
    BY <1>1, <1>2, FS_Subset, SequenceOfSet
  <2> QED
    BY <1>1, <1>2, <2>1
<1>3. /\ SetToSeq(StagedFacts(sight)) \in Seq(Facts) /\ SetToSeq(StateFacts(sight)) \in Seq(Facts)
      /\ SetToSeq(StatusFacts(sight)) \in Seq(Facts) /\ SetToSeq(PhaseFacts(sight)) \in Seq(Facts)
  BY <1>2 DEF FactsOf
<1> QED
  BY <1>3 DEF RuntimeFacts

(* A score is a number: a fact names a subject and an object at most.       *)
LEMMA ScoresAreNumbers ==
  ASSUME NEW query, NEW fact
  PROVE  Score(query, fact) \in Nat
<1> DEFINE S == {s \in query : s \in {fact.subject, fact.object}}
<1>1. S \subseteq {fact.subject} \cup {fact.object}
  OBVIOUS
<1>2. IsFiniteSet({fact.subject} \cup {fact.object})
  BY FS_Singleton, FS_Union
<1>3. IsFiniteSet(S)
  BY <1>1, <1>2, FS_Subset
<1> QED
  BY <1>3, FS_CardinalityType DEF Score

(* An answer has as many facts as were asked for at most, each from a line, *)
(* and has that of a line unless as many others are better.                 *)
LEMMA BestAnswers ==
  ASSUME log \in Seq(Facts \cup {NoFact}), NEW lines, lines \subseteq Readable, NEW query
  PROVE  /\ Best(lines, query) \in Seq(Facts) /\ Len(Best(lines, query)) <= Limit
         /\ \A i \in lines : \/ log[i] \in In(Best(lines, query))
                             \/ Cardinality({j \in lines : Better(query, j, i)}) >= Limit
<1> DEFINE upTo == [i \in lines |-> {j \in lines : j = i \/ Better(query, j, i)}]
           rank(i) == Cardinality({j \in lines : j = i \/ Better(query, j, i)})
           chosen == {i \in lines : rank(i) <= Limit}
           score == [i \in lines |-> Score(query, log[i])]
           M == Cardinality(chosen)
           place(n) == CHOOSE i \in chosen : rank(i) = n
<1>1. /\ IsFiniteSet(lines) /\ lines \subseteq Nat /\ \A i \in lines : log[i] \in Facts
      /\ Limit \in Nat
  <2>1. lines \subseteq 1..Len(log)
    BY DEF Readable
  <2>2. \A i \in lines : log[i] \in Facts
    BY DEF Readable
  <2>3. IsFiniteSet(1..Len(log)) /\ 1..Len(log) \subseteq Nat
    BY FS_Interval
  <2>4. IsFiniteSet(lines) /\ lines \subseteq Nat
    BY <2>1, <2>3, FS_Subset
  <2>5. Limit \in Nat
    BY AdvisoryAssumption
  <2> QED
    BY <2>2, <2>4, <2>5
<1>2. score \in [lines -> Nat]
  BY ScoresAreNumbers
<1>3. \A i, j \in lines : Better(query, i, j) <=> (score[i] > score[j] \/ (score[i] = score[j] /\ i > j))
  BY DEF Better
<1>4. \A i, j \in lines : j \in upTo[i] <=> (j = i \/ Better(query, j, i))
  OBVIOUS
<1>5. upTo \in [lines -> SUBSET lines] /\ \A i \in lines : i \in upTo[i]
  OBVIOUS
<1>6. \A i \in lines : rank(i) = Cardinality(upTo[i])
  OBVIOUS
<1> HIDE DEF score, upTo, rank
<1>7. \A i, j \in lines : j \in upTo[i] => upTo[j] \subseteq upTo[i]
  <2>1. SUFFICES ASSUME NEW i \in lines, NEW j \in lines, j \in upTo[i], NEW k \in upTo[j]
                 PROVE  k \in upTo[i]
    OBVIOUS
  <2>2. k \in lines /\ score[i] \in Nat /\ score[j] \in Nat /\ score[k] \in Nat
    BY <1>2, <1>5, <2>1
  <2>3. i \in Nat /\ j \in Nat /\ k \in Nat
    BY <1>1, <2>2
  <2>4. (k = j \/ score[k] > score[j] \/ (score[k] = score[j] /\ k > j))
        /\ (j = i \/ score[j] > score[i] \/ (score[j] = score[i] /\ j > i))
    BY <1>3, <1>4, <2>1, <2>2
  <2>5. k = i \/ score[k] > score[i] \/ (score[k] = score[i] /\ k > i)
    BY <2>2, <2>3, <2>4
  <2> QED
    BY <1>3, <1>4, <2>2, <2>5
<1>8. \A i, j \in lines : i \in upTo[j] \/ j \in upTo[i]
  <2>1. SUFFICES ASSUME NEW i \in lines, NEW j \in lines PROVE i \in upTo[j] \/ j \in upTo[i]
    OBVIOUS
  <2>2. score[i] \in Nat /\ score[j] \in Nat /\ i \in Nat /\ j \in Nat
    BY <1>1, <1>2
  <2> QED
    BY <1>3, <1>4, <2>2
<1>9. \A i, j \in lines : i \in upTo[j] /\ j \in upTo[i] => i = j
  <2>1. SUFFICES ASSUME NEW i \in lines, NEW j \in lines, i \in upTo[j], j \in upTo[i], i # j PROVE FALSE
    OBVIOUS
  <2>2. score[i] \in Nat /\ score[j] \in Nat /\ i \in Nat /\ j \in Nat
    BY <1>1, <1>2
  <2> QED
    BY <1>3, <1>4, <2>1, <2>2
<1>10. \A i, j \in lines : Cardinality(upTo[i]) = Cardinality(upTo[j]) => i = j
  <2>1. \A i, j \in lines : upTo[i] \subseteq upTo[j] \/ upTo[j] \subseteq upTo[i]
    BY <1>7, <1>8
  <2>2. \A i, j \in lines : upTo[i] = upTo[j] => i = j
    BY <1>5, <1>9
  <2>3. Ranking(lines, upTo)
    BY <1>1, <1>5, <2>1, <2>2 DEF Ranking
  <2>4. Ranked(lines, upTo)
    BY <2>3, Ranks
  <2> QED
    BY <2>4 DEF Ranked
<1>11. \A i \in lines : IsFiniteSet(upTo[i]) /\ Cardinality(upTo[i]) \in Nat \ {0}
  <2>1. \A i \in lines : IsFiniteSet(upTo[i]) /\ upTo[i] # {}
    BY <1>1, <1>5, FS_Subset
  <2> QED
    BY <2>1, FS_CardinalityType, FS_EmptySet
<1>12. IsFiniteSet(chosen) /\ M \in Nat /\ chosen \subseteq lines
  <2>1. chosen \subseteq lines
    OBVIOUS
  <2> HIDE DEF chosen
  <2> QED
    BY <1>1, <2>1, FS_Subset, FS_CardinalityType
<1>13. \A i \in chosen : Cardinality(upTo[i]) \in 1..M
  <2>1. SUFFICES ASSUME NEW i \in chosen PROVE Cardinality(upTo[i]) \in 1..M
    OBVIOUS
  <2>2. i \in lines /\ Cardinality(upTo[i]) <= Limit
    BY <1>6
  <2>3. \A j \in upTo[i] : j \in lines /\ Cardinality(upTo[j]) <= Cardinality(upTo[i])
    <3>1. \A j \in upTo[i] : j \in lines /\ upTo[j] \subseteq upTo[i]
      BY <1>5, <1>7, <2>2
    <3> QED
      BY <1>11, <2>2, <3>1, FS_Subset
  <2>4. ASSUME NEW j \in upTo[i] PROVE j \in lines /\ Cardinality(upTo[j]) <= Limit
    <3>1. j \in lines /\ Cardinality(upTo[j]) <= Cardinality(upTo[i])
      BY <2>3
    <3>2. Cardinality(upTo[j]) \in Nat /\ Cardinality(upTo[i]) \in Nat
      BY <1>11, <2>2, <3>1
    <3> QED
      BY <1>1, <2>2, <3>1, <3>2
  <2>5. upTo[i] \subseteq chosen
    BY <1>6, <2>4
  <2> HIDE DEF chosen
  <2>6. Cardinality(upTo[i]) <= M
    BY <1>12, <2>5, FS_Subset
  <2> QED
    BY <1>11, <1>12, <2>2, <2>6
<1>14. M <= Limit
  <2> DEFINE order == [i \in chosen |-> Cardinality(upTo[i])]
  <2>1. ASSUME NEW i \in chosen PROVE Cardinality(upTo[i]) \in 1..Limit
    <3>1. i \in lines /\ Cardinality(upTo[i]) <= Limit
      BY <1>6
    <3>2. Cardinality(upTo[i]) \in Nat \ {0}
      BY <1>11, <3>1
    <3> QED
      BY <1>1, <3>1, <3>2
  <2>2. order \in Injection(chosen, 1..Limit)
    BY <1>10, <1>12, <2>1 DEF Injection, IsInjective
  <2>3. IsFiniteSet(1..Limit) /\ Cardinality(1..Limit) = Limit
    BY <1>1, FS_Interval
  <2> HIDE DEF chosen, order
  <2> QED
    BY <2>2, <2>3, FS_Injection
<1>15. \A n \in 1..M : place(n) \in chosen
  <2> DEFINE order == [i \in chosen |-> Cardinality(upTo[i])]
  <2>1. order \in Injection(chosen, 1..M)
    BY <1>10, <1>12, <1>13 DEF Injection, IsInjective
  <2>2. IsFiniteSet(1..M) /\ Cardinality(1..M) = M
    BY <1>12, FS_Interval
  <2>3. order \in Surjection(chosen, 1..M)
    <3> HIDE DEF order, chosen
    <3> QED
      BY <1>12, <2>1, <2>2, FS_Injection
  <2>4. \A n \in 1..M : \E i \in chosen : rank(i) = n
    BY <1>6, <1>12, <2>3 DEF Surjection
  <2> HIDE DEF chosen
  <2> QED
    BY <2>4
<1>16. \A i \in chosen : place(Cardinality(upTo[i])) = i
  <2>1. \A i, j \in chosen : rank(i) = rank(j) => i = j
    BY <1>6, <1>10, <1>12
  <2>2. \A i \in chosen : place(rank(i)) = i
    <3> HIDE DEF chosen
    <3> QED
      BY <2>1
  <2> HIDE DEF chosen, place
  <2> QED
    BY <1>6, <1>12, <2>2
<1>17. Best(lines, query) = [n \in 1..M |-> log[place(n)]]
  BY DEF Best, rank
<1>18. \A n \in 1..M : log[place(n)] \in Facts
  BY <1>1, <1>12, <1>15
<1>19. \A i \in lines : i \in chosen \/ Cardinality({j \in lines : Better(query, j, i)}) >= Limit
  <2>1. SUFFICES ASSUME NEW i \in lines, i \notin chosen
                 PROVE  Cardinality({j \in lines : Better(query, j, i)}) >= Limit
    OBVIOUS
  <2> DEFINE B == {j \in lines : Better(query, j, i)}
  <2>2. ~(Cardinality(upTo[i]) <= Limit)
    BY <1>6, <2>1
  <2>3. upTo[i] = B \cup {i}
    BY <1>4, <1>5
  <2>4. IsFiniteSet(B)
    BY <1>1, FS_Subset
  <2> HIDE DEF B
  <2>5. Cardinality(B) \in Nat
    BY <2>4, FS_CardinalityType
  <2>6. Cardinality(upTo[i]) = Cardinality(B) \/ Cardinality(upTo[i]) = Cardinality(B) + 1
    BY <2>3, <2>4, FS_AddElement
  <2>7. Limit \in Nat
    BY <1>1
  <2>8. Cardinality(B) >= Limit
    BY <2>2, <2>5, <2>6, <2>7
  <2> QED
    BY <2>8 DEF B
<1> HIDE DEF chosen, place, M
<1>20. /\ Best(lines, query) \in Seq(Facts) /\ Len(Best(lines, query)) = M
       /\ DOMAIN Best(lines, query) = 1..M
       /\ \A n \in 1..M : Best(lines, query)[n] = log[place(n)]
  BY <1>12, <1>17, <1>18
<1>21. \A i \in chosen : log[i] \in In(Best(lines, query))
  BY <1>13, <1>16, <1>20 DEF In
<1> QED
  BY <1>14, <1>19, <1>20, <1>21

LEMMA AdviceInitial == ASSUME AdviceInit PROVE AdviceInv
<1>1. <<>> \in Seq(Facts) /\ <<>> \in Seq(Facts \cup {NoFact}) /\ Len(<<>>) = 0
  OBVIOUS
<1>2. NotAsked \in Requests
  BY <1>1 DEF NotAsked, Requests, Subjects
<1>3. 0 <= MaxLines /\ 0 <= Limit
  BY AdvisoryAssumption
<1>4. import = NoImport /\ import.left = <<>> /\ import.done = {}
  BY DEF AdviceInit, NoImport
<1>5. import \in [left : Seq(Facts), done : SUBSET [fact : Facts, line : 1..Len(log)]]
  BY <1>1, <1>4 DEF NoImport
<1>6. \A a \in Asker : request[a] = NotAsked
  BY DEF AdviceInit
<1>7. \A a \in Asker : Len(request[a].facts) <= Limit /\ request[a].before \subseteq kept
  BY <1>1, <1>3, <1>6 DEF NotAsked
<1>8. AdviceTypeOK
  <2>1. request \in [Asker -> Requests]
    BY <1>2 DEF AdviceInit
  <2>2. log = <<>> /\ torn \in BOOLEAN /\ bridge = "up" /\ atoms = {} /\ kept = {} /\ onRecord = {}
        /\ cutOff \in BOOLEAN
    BY DEF AdviceInit
  <2>3. Len(log) <= MaxLines
    BY <1>1, <1>3, <2>2
  <2> QED
    BY <1>1, <1>5, <1>7, <2>1, <2>2, <2>3 DEF AdviceTypeOK
<1>9. \A a \in Asker : AskerInv(a, NotAsked)
  BY DEF AskerInv, NotAsked
<1> QED
  BY <1>1, <1>3, <1>4, <1>6, <1>8, <1>9 DEF AdviceInv, AdviceInit

(* The file only grows.                                                     *)
Grows == \/ log' = log
         \/ \E x \in Facts \cup {NoFact} : log' = Append(log, x)

LEMMA LinesStay ==
  ASSUME AdviceTypeOK, Grows
  PROVE  /\ log' \in Seq(Facts \cup {NoFact}) /\ Len(log) \in Nat /\ Len(log') \in Nat
         /\ Len(log) <= Len(log') /\ \A i \in 1..Len(log) : log'[i] = log[i]
         /\ DOMAIN log = 1..Len(log) /\ DOMAIN log' = 1..Len(log')
<1>1. log \in Seq(Facts \cup {NoFact})
  BY DEF AdviceTypeOK
<1>2. CASE log' = log
  BY <1>1, <1>2
<1>3. CASE \E x \in Facts \cup {NoFact} : log' = Append(log, x)
  BY <1>1, <1>3
<1> QED
  BY <1>2, <1>3 DEF Grows

(* What is founded stays so: the lines that were there are as they were,    *)
(* and if more lines are better, the more are better.                       *)
LEMMA StaysFounded ==
  ASSUME AdviceTypeOK, Grows, NEW earlier, earlier \subseteq kept, NEW facts, NEW query,
         NEW lines, NEW more, lines \subseteq 1..Len(log), more \subseteq 1..Len(log'),
         \A i \in 1..Len(log) : i \in more <=> i \in lines,
         Founded(earlier, facts, lines, query)
  PROVE  Founded(earlier, facts, more, query)'
<1>1. /\ Len(log) \in Nat /\ Len(log') \in Nat
      /\ Len(log) <= Len(log') /\ \A i \in 1..Len(log) : log'[i] = log[i]
  BY LinesStay
<1>2. SUFFICES ASSUME NEW k \in earlier, k.line \in more, k.fact \notin In(facts)
               PROVE  Cardinality({j \in more : Better(query, j, k.line)'}) >= Limit
  BY DEF Founded
<1>3. k.line \in 1..Len(log)
  BY DEF AdviceTypeOK
<1> DEFINE old == {j \in lines : Better(query, j, k.line)}
           new == {j \in more : Better(query, j, k.line)'}
<1>4. Cardinality(old) >= Limit
  BY <1>2, <1>3 DEF Founded
<1>5. \A j \in lines : j \in more /\ (Better(query, j, k.line)' <=> Better(query, j, k.line))
  BY <1>1, <1>3 DEF Better, Score
<1>6. old \subseteq new
  BY <1>5
<1>7. IsFiniteSet(new)
  <2>1. new \subseteq 1..Len(log')
    OBVIOUS
  <2> HIDE DEF new
  <2>2. IsFiniteSet(1..Len(log'))
    BY <1>1, FS_Interval
  <2> QED
    BY <2>1, <2>2, FS_Subset
<1> HIDE DEF old, new
<1>8. /\ Cardinality(old) \in Nat /\ Cardinality(new) \in Nat
      /\ Cardinality(old) <= Cardinality(new)
  BY <1>6, <1>7, FS_Subset, FS_CardinalityType
<1>9. Cardinality(new) >= Limit
  BY <1>4, <1>8, AdvisoryAssumption
<1> QED
  BY <1>9 DEF new

LEMMA AskerStays ==
  ASSUME AdviceTypeOK, Grows, NEW a \in Asker,
         NEW r, r = request[a], AskerInv(a, r)
  PROVE  AskerInv(a, r)'
<1>1. r.before \subseteq kept
  BY DEF AdviceTypeOK
<1>2. /\ Len(log) <= Len(log') /\ \A i \in 1..Len(log) : log'[i] = log[i]
      /\ Len(log) \in Nat /\ Len(log') \in Nat
      /\ DOMAIN log = 1..Len(log) /\ DOMAIN log' = 1..Len(log')
  BY LinesStay
<1>3. \A i \in 1..Len(log) : i \in 1..Len(log')
  BY <1>2
<1>4. ASSUME NEW query
      PROVE  /\ Matches(query) \subseteq 1..Len(log) /\ Matches(query)' \subseteq 1..Len(log')
             /\ \A i \in 1..Len(log) : i \in Matches(query)' <=> i \in Matches(query)
  BY <1>2, <1>3 DEF Matches, Readable, Score
<1>5. ASSUME NEW subject
      PROVE  /\ About(subject) \subseteq 1..Len(log) /\ About(subject)' \subseteq 1..Len(log')
             /\ \A i \in 1..Len(log) : i \in About(subject)' <=> i \in About(subject)
  BY <1>2, <1>3 DEF About, Readable
<1>6. ASSUME r.symbolic # <<>>
      PROVE  Founded(r.before, r.symbolic, Matches(r.asks.query), r.asks.query)'
  <2>1. Founded(r.before, r.symbolic, Matches(r.asks.query), r.asks.query)
    BY <1>6 DEF AskerInv
  <2>2. PICK lines, more : lines = Matches(r.asks.query) /\ more = Matches(r.asks.query)'
    OBVIOUS
  <2>3. Founded(r.before, r.symbolic, more, r.asks.query)'
    BY <1>1, <1>4, <2>1, <2>2, StaysFounded
  <2> QED
    BY <2>2, <2>3 DEF Founded
<1>7. ASSUME r.at \in {"model", "answered"}, r.verdict # "unavailable"
      PROVE  Founded(r.before, r.facts, AskedFor(r), Terms(r))'
  <2>1. Founded(r.before, r.facts, AskedFor(r), Terms(r))
    BY <1>7 DEF AskerInv
  <2>2. PICK lines, more : lines = AskedFor(r) /\ more = AskedFor(r)'
    OBVIOUS
  <2>3. /\ lines \subseteq 1..Len(log) /\ more \subseteq 1..Len(log')
        /\ \A i \in 1..Len(log) : i \in more <=> i \in lines
    BY <1>4, <1>5, <2>2 DEF AskedFor
  <2>4. Founded(r.before, r.facts, more, Terms(r))'
    BY <1>1, <2>1, <2>2, <2>3, StaysFounded
  <2> QED
    BY <2>2, <2>4 DEF Founded, Terms
<1>8. r.symbolic # <<>> => Len(r.symbolic) <= Limit
  BY DEF AskerInv
<1>9. r.at \in {"model", "answered"} /\ r.verdict # "unavailable" =>
        (r.verdict = "review" => \A f \in In(r.facts) : ~Blocks(r.subject, f, In(r.facts)))
  BY DEF AskerInv
<1>10. (r.at = "none" => r = NotAsked) /\ (r.at # "none" => r.asks \in Queries)
  BY DEF AskerInv
<1> HIDE DEF Founded
<1> QED
  BY <1>6, <1>7, <1>8, <1>9, <1>10 DEF AskerInv

(* Facts arrive, or the bridge dies or starts: no request moves.            *)
LEMMA BridgeMoves ==
  ASSUME AdviceInv, Grows, UNCHANGED <<request, onRecord>>, Len(log') <= MaxLines, torn' \in BOOLEAN,
         cutOff' \in BOOLEAN,
         bridge' \in {"up", "down"}, atoms' \subseteq Facts,
         bridge' = "down" => atoms' = {} /\ import' = NoImport,
         import' \in [left : Seq(Facts), done : SUBSET [fact : Facts, line : 1..Len(log')]],
         Len(log') + Len(import'.left) <= MaxLines,
         torn' => log' # <<>> /\ log'[Len(log')] = NoFact,
         kept' = kept \/ kept' = kept \cup import.done,
         \A d \in import'.done : d \in import.done \/ log'[d.line] \in {d.fact, NoFact}
  PROVE  AdviceInv'
<1>1. AdviceTypeOK /\ \A d \in import.done \cup kept : log[d.line] \in {d.fact, NoFact}
  BY DEF AdviceInv
<1>2. /\ log' \in Seq(Facts \cup {NoFact}) /\ Len(log) \in Nat /\ Len(log') \in Nat
      /\ Len(log) <= Len(log') /\ \A i \in 1..Len(log) : log'[i] = log[i]
  BY <1>1, LinesStay
<1>3. \A d \in import.done \cup kept : d \in [fact : Facts, line : 1..Len(log)]
  BY <1>1 DEF AdviceTypeOK
<1>4. [fact : Facts, line : 1..Len(log)] \subseteq [fact : Facts, line : 1..Len(log')]
  BY <1>2
<1>5. kept' \subseteq [fact : Facts, line : 1..Len(log')] /\ kept \subseteq kept'
  BY <1>3, <1>4
<1>6. \A d \in import.done \cup kept : log'[d.line] \in {d.fact, NoFact}
  <2>1. \A d \in import.done \cup kept : d.line \in 1..Len(log)
    BY <1>3
  <2> QED
    BY <1>1, <1>2, <2>1
<1>7. \A d \in import'.done \cup kept' : log'[d.line] \in {d.fact, NoFact}
  BY <1>6
<1>8. \A a \in Asker : Len(request'[a].facts) <= Limit /\ request'[a].before \subseteq kept'
  BY <1>1, <1>5 DEF AdviceTypeOK
<1>9. AdviceTypeOK'
  BY <1>1, <1>2, <1>5, <1>8 DEF AdviceTypeOK
<1>10. ASSUME NEW a \in Asker PROVE AskerInv(a, request[a])'
  <2>1. PICK r : r = request[a] /\ r = request'[a]
    OBVIOUS
  <2>2. AskerInv(a, r)
    BY <2>1 DEF AdviceInv
  <2>3. AskerInv(a, r)'
    BY <1>1, <2>1, <2>2, AskerStays
  <2> QED
    BY <2>1, <2>3
<1> QED
  BY <1>7, <1>9, <1>10 DEF AdviceInv

(* One request moves, and reads what it needs: nothing else changes.        *)
LEMMA OneAsks ==
  ASSUME AdviceInv, NEW a \in Asker, NEW rr \in Requests, Becomes(a, rr),
         Len(rr.facts) <= Limit, rr.before \subseteq kept, AskerInv(a, rr)',
         UNCHANGED <<log, torn, atoms, bridge, import, kept>>,
         onRecord' \subseteq Asker \X {"query", "decision"}, cutOff' \in BOOLEAN
  PROVE  AdviceInv'
<1>1. AdviceTypeOK /\ Grows
  BY DEF AdviceInv, Grows
<1>2. request' \in [Asker -> Requests] /\ request'[a] = rr /\ \A b \in Asker \ {a} : request'[b] = request[b]
  BY <1>1 DEF AdviceTypeOK, Becomes
<1>3. AdviceTypeOK'
  <2>1. \A b \in Asker : Len(request'[b].facts) <= Limit /\ request'[b].before \subseteq kept
    BY <1>1, <1>2 DEF AdviceTypeOK
  <2> QED
    BY <1>1, <1>2, <2>1 DEF AdviceTypeOK
<1>4. ASSUME NEW b \in Asker PROVE AskerInv(b, request[b])'
  <2>1. CASE b = a
    <3>1. PICK q : q = request'[b] /\ q = rr
      BY <1>2, <2>1
    <3> QED
      BY <2>1, <3>1
  <2>2. CASE b # a
    <3>1. PICK r : r = request[b] /\ r = request'[b]
      BY <1>2, <2>2
    <3>2. AskerInv(b, r)
      BY <3>1 DEF AdviceInv
    <3>3. AskerInv(b, r)'
      BY <1>1, <3>1, <3>2, AskerStays
    <3> QED
      BY <3>1, <3>3
  <2> QED
    BY <2>1, <2>2
<1> QED
  BY <1>3, <1>4 DEF AdviceInv

(* What the bridge answers with is founded.                                 *)
LEMMA BestIsFounded ==
  ASSUME AdviceInv, NEW earlier, earlier \subseteq kept, NEW lines, lines \subseteq Readable, NEW query
  PROVE  Founded(earlier, Best(lines, query), lines, query)
<1>1. log \in Seq(Facts \cup {NoFact}) /\ \A k \in kept : log[k.line] \in {k.fact, NoFact}
  BY DEF AdviceInv, AdviceTypeOK
<1>2. \A i \in lines : log[i] # NoFact
  BY DEF Readable
<1>3. \A i \in lines : \/ log[i] \in In(Best(lines, query))
                       \/ Cardinality({j \in lines : Better(query, j, i)}) >= Limit
  BY <1>1, BestAnswers
<1>4. \A k \in earlier : k.line \in lines => log[k.line] = k.fact
  BY <1>1, <1>2
<1> QED
  BY <1>3, <1>4 DEF Founded

LEMMA ImportSteps ==
  ASSUME AdviceInv, BeginImport \/ AppendFact \/ AnswerImport \/ BridgeDies \/ BridgeStarts
  PROVE  AdviceInv'
<1>1. /\ AdviceTypeOK /\ Len(log) + Len(import.left) <= MaxLines
      /\ torn => log # <<>> /\ log[Len(log)] = NoFact
  BY DEF AdviceInv
<1>2. /\ log \in Seq(Facts \cup {NoFact}) /\ Len(log) \in Nat /\ import.left \in Seq(Facts)
      /\ Len(import.left) \in Nat /\ MaxLines \in Nat /\ torn \in BOOLEAN
      /\ import.done \subseteq [fact : Facts, line : 1..Len(log)] /\ cutOff \in BOOLEAN
  BY <1>1, AdvisoryAssumption DEF AdviceTypeOK
<1>3. <<>> \in Seq(Facts) /\ Len(<<>>) = 0
  OBVIOUS
<1>4. NoImport \in [left : Seq(Facts), done : SUBSET [fact : Facts, line : 1..Len(log')]]
  BY <1>3 DEF NoImport
<1>5. NoImport.left = <<>> /\ NoImport.done = {}
  BY DEF NoImport
<1>6. ASSUME BeginImport PROVE AdviceInv'
  <2>1. PICK sight \in Observed : /\ Len(log) + Len(RuntimeFacts(sight)) <= MaxLines
                                  /\ import' = [import EXCEPT !.left = RuntimeFacts(sight)]
    BY <1>6 DEF BeginImport
  <2>2. RuntimeFacts(sight) \in Seq(Facts)
    BY ImportedFacts
  <2>3. UNCHANGED <<log, torn, atoms, bridge, request, onRecord, cutOff, kept>> /\ bridge = "up" /\ Grows
    BY <1>6 DEF BeginImport, Grows
  <2>4. /\ import' \in [left : Seq(Facts), done : SUBSET [fact : Facts, line : 1..Len(log)]]
        /\ import'.left = RuntimeFacts(sight) /\ import'.done = import.done
    BY <1>1, <2>1, <2>2 DEF AdviceTypeOK
  <2> QED
    BY <1>1, <1>2, <2>1, <2>3, <2>4, BridgeMoves DEF AdviceTypeOK
<1>7. ASSUME AppendFact PROVE AdviceInv'
  <2>1. /\ bridge = "up" /\ import.left # <<>> /\ log' = (IF torn THEN log ELSE Append(log, Head(import.left)))
        /\ torn' = FALSE
        /\ import' = [left |-> Tail(import.left),
                      done |-> import.done \cup {[fact |-> Head(import.left), line |-> Len(log')]}]
        /\ UNCHANGED <<atoms, bridge, request, onRecord, cutOff, kept>>
    BY <1>7 DEF AppendFact
  <2>2. /\ Head(import.left) \in Facts /\ Tail(import.left) \in Seq(Facts)
        /\ Len(Tail(import.left)) = Len(import.left) - 1 /\ Len(import.left) >= 1
    BY <1>2, <2>1
  <2>3. Grows
    BY <2>1, <2>2 DEF Grows
  <2>4. /\ log' \in Seq(Facts \cup {NoFact}) /\ Len(log') \in Nat
        /\ Len(log) <= Len(log') /\ \A i \in 1..Len(log) : log'[i] = log[i]
    BY <1>1, <2>3, LinesStay
  <2>5. Len(log') <= Len(log) + 1 /\ Len(log') >= 1
    <3>1. CASE torn
      <4>1. Len(log) # 0
        BY <1>1, <1>2, <3>1
      <4> QED
        BY <1>2, <2>1, <3>1, <4>1
    <3>2. CASE ~torn
      BY <1>2, <2>1, <2>2, <3>2
    <3> QED
      BY <3>1, <3>2
  <2>6. Len(log') + Len(Tail(import.left)) <= MaxLines /\ Len(log') <= MaxLines
    BY <1>1, <1>2, <2>2, <2>4, <2>5
  <2> DEFINE line == [fact |-> Head(import.left), line |-> Len(log')]
  <2>7. line \in [fact : Facts, line : 1..Len(log')] /\ line.fact = Head(import.left) /\ line.line = Len(log')
    BY <2>2, <2>4, <2>5
  <2>8. import' = [left |-> Tail(import.left), done |-> import.done \cup {line}]
    BY <2>1
  <2> HIDE DEF line
  <2>9. [fact : Facts, line : 1..Len(log)] \subseteq [fact : Facts, line : 1..Len(log')]
    BY <1>2, <2>4
  <2>10. /\ import' \in [left : Seq(Facts), done : SUBSET [fact : Facts, line : 1..Len(log')]]
         /\ import'.left = Tail(import.left) /\ import'.done = import.done \cup {line}
    BY <1>2, <2>2, <2>7, <2>8, <2>9
  <2>11. log'[Len(log')] \in {Head(import.left), NoFact}
    BY <1>1, <1>2, <2>1, <2>2
  <2>12. log'[line.line] \in {line.fact, NoFact}
    BY <2>7, <2>11
  <2> QED
    BY <1>1, <2>1, <2>3, <2>6, <2>10, <2>12, BridgeMoves DEF AdviceTypeOK
<1>8. ASSUME AnswerImport PROVE AdviceInv'
  <2>1. /\ atoms' \in {atoms, atoms \cup {d.fact : d \in import.done}} /\ kept' = kept \cup import.done
        /\ import' = NoImport /\ bridge = "up" /\ UNCHANGED <<log, torn, bridge, request, onRecord, cutOff>>
        /\ Grows
    BY <1>8 DEF AnswerImport, Grows
  <2>2. atoms' \subseteq Facts
    BY <1>1, <1>2, <2>1 DEF AdviceTypeOK
  <2>3. Len(log') <= MaxLines /\ Len(log') + Len(import'.left) <= MaxLines
    BY <1>1, <1>2, <1>3, <1>5, <2>1
  <2> QED
    BY <1>1, <1>2, <1>4, <1>5, <2>1, <2>2, <2>3, BridgeMoves
<1>9. ASSUME BridgeDies PROVE AdviceInv'
  <2>1. /\ bridge' = "down" /\ atoms' = {} /\ import' = NoImport /\ UNCHANGED <<request, onRecord, kept>>
        /\ cutOff' \in {cutOff, TRUE}
        /\ \/ UNCHANGED <<log, torn>>
           \/ import.left # <<>> /\ torn' = TRUE /\ log' = (IF torn THEN log ELSE Append(log, NoFact))
    BY <1>9 DEF BridgeDies
  <2>2. Grows /\ torn' \in BOOLEAN /\ cutOff' \in BOOLEAN
    BY <1>2, <2>1 DEF Grows
  <2>3. Len(log') <= MaxLines /\ Len(log') \in Nat
    <3>1. CASE log' = log
      BY <1>1, <1>2, <3>1
    <3>2. CASE import.left # <<>> /\ log' = Append(log, NoFact)
      <4>1. Len(import.left) >= 1 /\ Len(log') = Len(log) + 1
        BY <1>2, <3>2
      <4> QED
        BY <1>1, <1>2, <4>1
    <3> QED
      BY <2>1, <3>1, <3>2
  <2>4. torn' => log' # <<>> /\ log'[Len(log')] = NoFact
    <3>1. CASE UNCHANGED <<log, torn>>
      BY <1>1, <3>1
    <3>2. CASE log' = (IF torn THEN log ELSE Append(log, NoFact))
      BY <1>1, <1>2, <3>2
    <3> QED
      BY <2>1, <3>1, <3>2
  <2>5. Len(log') + Len(import'.left) <= MaxLines
    BY <1>3, <1>5, <2>1, <2>3
  <2> QED
    BY <1>4, <1>5, <2>1, <2>2, <2>3, <2>4, <2>5, BridgeMoves
<1>10. ASSUME BridgeStarts PROVE AdviceInv'
  <2>1. /\ bridge' = "up" /\ atoms' = {log[i] : i \in Readable}
        /\ UNCHANGED <<log, torn, import, request, onRecord, cutOff, kept>> /\ Grows
    BY <1>10 DEF BridgeStarts, Grows
  <2>2. atoms' \subseteq Facts
    BY <1>2, <2>1 DEF Readable
  <2>3. Len(log') <= MaxLines
    BY <1>1, <2>1 DEF AdviceTypeOK
  <2> QED
    BY <1>1, <1>2, <2>1, <2>2, <2>3, BridgeMoves DEF AdviceTypeOK
<1> QED
  BY <1>6, <1>7, <1>8, <1>9, <1>10

LEMMA SubjectsAreKnown ==
  ASSUME AdviceTypeOK, NEW asks \in Queries, NEW facts \in Seq(Facts)
  PROVE  SubjectOf(asks, facts) \subseteq Subjects
<1>1. facts # <<>> => facts[1] \in Facts
  OBVIOUS
<1>2. asks.subject \in Subjects
  BY DEF Subjects
<1>3. facts # <<>> => facts[1].subject \in Subjects
  BY <1>1 DEF Subjects
<1>4. Services \subseteq Subjects /\ NoFact \in Subjects
  BY DEF Subjects
<1> QED
  BY <1>2, <1>3, <1>4 DEF SubjectOf

(* What is founded depends on the file alone.                               *)
LEMMA SameFile ==
  ASSUME log' = log, NEW earlier, NEW facts, NEW query, NEW subject
  PROVE  /\ Founded(earlier, facts, Matches(query), query)
              => Founded(earlier, facts, Matches(query), query)'
         /\ Founded(earlier, facts, About(subject), {}) => Founded(earlier, facts, About(subject), {})'
BY DEF Founded, Better, Matches, About, Readable

LEMMA RecordsKeepShape ==
  ASSUME AdviceTypeOK, NEW a \in Asker, NEW kind \in {"query", "decision"},
         Recorded(a, kind) \/ Unanswered(a, kind)
  PROVE  onRecord' \subseteq Asker \X {"query", "decision"} /\ cutOff' \in BOOLEAN
<1>1. onRecord' \in {onRecord, onRecord \cup {<<a, kind>>}} /\ cutOff' \in {cutOff, FALSE}
  <2>1. CASE UNCHANGED <<onRecord, cutOff>>
    BY <2>1
  <2>2. CASE Recorded(a, kind)
    BY <2>2 DEF Recorded
  <2> QED
    BY <2>1, <2>2 DEF Unanswered
<1>2. onRecord \subseteq Asker \X {"query", "decision"} /\ cutOff \in BOOLEAN
  BY DEF AdviceTypeOK
<1>3. <<a, kind>> \in Asker \X {"query", "decision"}
  OBVIOUS
<1> QED
  BY <1>1, <1>2, <1>3

LEMMA AskerSteps ==
  ASSUME AdviceInv, NEW a \in Asker,
         BeginRequest(a) \/ SymbolicEvidence(a) \/ Decide(a) \/ AnswerRequest(a)
  PROVE  AdviceInv'
<1>0. PICK r : r = request[a]
  OBVIOUS
<1>1. AdviceTypeOK /\ AskerInv(a, r) /\ r \in Requests /\ Len(r.facts) <= Limit /\ r.before \subseteq kept
  BY <1>0 DEF AdviceInv, AdviceTypeOK
<1>2. /\ log \in Seq(Facts \cup {NoFact}) /\ onRecord \subseteq Asker \X {"query", "decision"}
      /\ cutOff \in BOOLEAN
      /\ kept \subseteq [fact : Facts, line : 1..Len(log)]
  BY <1>1 DEF AdviceTypeOK
<1>3. kept \subseteq [fact : Facts, line : 1..MaxLines]
  <2>1. Len(log) \in Nat /\ Len(log) <= MaxLines /\ MaxLines \in Nat
    BY <1>1, AdvisoryAssumption DEF AdviceTypeOK
  <2>2. 1..Len(log) \subseteq 1..MaxLines
    BY <2>1
  <2>3. [fact : Facts, line : 1..Len(log)] \subseteq [fact : Facts, line : 1..MaxLines]
    BY <2>2
  <2> QED
    BY <1>2, <2>3
<1>4. \A query : Matches(query) \subseteq Readable
  BY DEF Matches
<1>5. \A subject : About(subject) \subseteq Readable
  BY DEF About
<1>6. r.at # "none" => r.asks \in Queries
  BY <1>1 DEF AskerInv
<1>7. ASSUME BeginRequest(a) PROVE AdviceInv'
  <2>1. PICK q \in Queries, s \in {"symbolic", "decide"} :
          Becomes(a, [r EXCEPT !.at = s, !.asks = q, !.before = kept])
    BY <1>0, <1>7 DEF BeginRequest
  <2>0. PICK rr : rr = [r EXCEPT !.at = s, !.asks = q, !.before = kept]
    OBVIOUS
  <2>2. r = NotAsked
    BY <1>0, <1>1, <1>7 DEF AskerInv, BeginRequest
  <2>3. /\ rr \in Requests /\ rr.at = s /\ rr.asks = q /\ rr.before = kept
        /\ rr.symbolic = r.symbolic /\ rr.facts = r.facts
    BY <1>1, <1>3, <2>0 DEF Requests
  <2>4. UNCHANGED <<log, torn, atoms, bridge, import, onRecord, cutOff, kept>>
    BY <1>7 DEF BeginRequest
  <2>5. rr.symbolic = <<>> /\ rr.at \in {"symbolic", "decide"}
    BY <2>2, <2>3 DEF NotAsked
  <2>6. AskerInv(a, rr)'
    BY <2>3, <2>5 DEF AskerInv
  <2> QED
    BY <1>1, <1>2, <2>0, <2>1, <2>3, <2>4, <2>6, OneAsks
<1>8. ASSUME SymbolicEvidence(a) PROVE AdviceInv'
  <2>1. /\ r.at = "symbolic" /\ r.asks \in Queries
        /\ UNCHANGED <<log, torn, atoms, bridge, import, kept>>
    BY <1>0, <1>6, <1>8 DEF SymbolicEvidence
  <2>2. PICK q : q = r.asks.query
    OBVIOUS
  <2> DEFINE best == Best(Matches(q), q)
  <2>3. best \in Seq(Facts) /\ Len(best) <= Limit /\ Founded(r.before, best, Matches(q), q)
    BY <1>1, <1>2, <1>4, BestAnswers, BestIsFounded
  <2>4. CASE /\ Becomes(a, [r EXCEPT !.at = "decide", !.symbolic = best])
             /\ Recorded(a, "query")
    <3>0. PICK rr : rr = [r EXCEPT !.at = "decide", !.symbolic = best]
      OBVIOUS
    <3>1. /\ rr \in Requests /\ rr.at = "decide" /\ rr.asks = r.asks /\ rr.before = r.before
          /\ rr.symbolic = best /\ rr.facts = r.facts
      BY <1>1, <2>3, <3>0 DEF Requests
    <3> HIDE DEF best
    <3>2. Founded(rr.before, rr.symbolic, Matches(q), q)'
      BY <2>1, <2>3, <3>1, SameFile
    <3>3. AskerInv(a, rr)'
      BY <2>1, <2>2, <2>3, <3>1, <3>2 DEF AskerInv
    <3>4. onRecord' \subseteq Asker \X {"query", "decision"} /\ cutOff' \in BOOLEAN
      BY <1>1, <2>4, RecordsKeepShape
    <3> QED
      BY <1>1, <2>1, <2>4, <3>0, <3>1, <3>3, <3>4, OneAsks
  <2>5. CASE Becomes(a, [r EXCEPT !.at = "decide"]) /\ Unanswered(a, "query")
    <3>0. PICK rr : rr = [r EXCEPT !.at = "decide"]
      OBVIOUS
    <3>1. /\ rr \in Requests /\ rr.at = "decide" /\ rr.asks = r.asks /\ rr.before = r.before
          /\ rr.symbolic = r.symbolic /\ rr.facts = r.facts
      BY <1>1, <3>0 DEF Requests
    <3> HIDE DEF best
    <3>2. r.symbolic # <<>> => Founded(r.before, r.symbolic, Matches(q), q)' /\ Len(r.symbolic) <= Limit
      BY <1>1, <2>1, <2>2, SameFile DEF AskerInv
    <3>3. AskerInv(a, rr)'
      BY <2>1, <2>2, <3>1, <3>2 DEF AskerInv, Founded
    <3>4. onRecord' \subseteq Asker \X {"query", "decision"} /\ cutOff' \in BOOLEAN
      BY <1>1, <2>5, RecordsKeepShape
    <3> QED
      BY <1>1, <2>1, <2>5, <3>0, <3>1, <3>3, <3>4, OneAsks
  <2> QED
    BY <1>0, <1>8, <2>2, <2>4, <2>5 DEF SymbolicEvidence
<1>9. ASSUME Decide(a) PROVE AdviceInv'
  <2>1. /\ r.at = "decide" /\ r.asks \in Queries /\ UNCHANGED <<log, torn, atoms, bridge, import, kept>>
    BY <1>0, <1>6, <1>9 DEF Decide
  <2>2. PICK q : q = r.asks.query
    OBVIOUS
  <2>3. CASE Becomes(a, [request[a] EXCEPT !.at = "model", !.verdict = "unavailable"]) /\ Unanswered(a, "decision")
    <3>0. PICK rr : rr = [r EXCEPT !.at = "model", !.verdict = "unavailable"]
      OBVIOUS
    <3>1. /\ rr \in Requests /\ rr.at = "model" /\ rr.asks = r.asks /\ rr.before = r.before
          /\ rr.symbolic = r.symbolic /\ rr.facts = r.facts /\ rr.verdict = "unavailable"
      BY <1>1, <3>0 DEF Requests
    <3>2. r.symbolic # <<>> => Founded(r.before, r.symbolic, Matches(q), q)' /\ Len(r.symbolic) <= Limit
      BY <1>1, <2>1, <2>2, SameFile DEF AskerInv
    <3>3. AskerInv(a, rr)'
      BY <2>1, <2>2, <3>1, <3>2 DEF AskerInv, Founded
    <3>4. onRecord' \subseteq Asker \X {"query", "decision"} /\ cutOff' \in BOOLEAN
      BY <1>1, <2>3, RecordsKeepShape
    <3> QED
      BY <1>0, <1>1, <2>1, <2>3, <3>0, <3>1, <3>3, <3>4, OneAsks
  <2> DEFINE about(first) == IF first = NoFact THEN <<>> ELSE Best(About(first), {})
             by(first) == IF request[a].symbolic # <<>> THEN "symbolic"
                          ELSE IF about(first) # <<>> THEN "subject" ELSE "query"
             facts(first) == CASE by(first) = "symbolic" -> request[a].symbolic
                               [] by(first) = "subject" -> about(first)
                               [] by(first) = "query" -> Best(Matches(request[a].asks.query), request[a].asks.query)
             verdict(s, fs) == IF \E f \in In(fs) : Blocks(s, f, In(fs)) THEN "blocked" ELSE "review"
  <2>4. CASE /\ \E first \in SubjectOf(request[a].asks, request[a].symbolic) :
                  \E s \in IF first # NoFact THEN {first} ELSE SubjectOf(request[a].asks, facts(first)) :
                    Becomes(a, [request[a] EXCEPT !.at = "model", !.by = by(first), !.subject = s, !.facts = facts(first),
                                         !.verdict = verdict(s, facts(first))])
             /\ Recorded(a, "decision")
    <3>1. PICK first \in SubjectOf(request[a].asks, request[a].symbolic) :
            \E s \in IF first # NoFact THEN {first} ELSE SubjectOf(request[a].asks, facts(first)) :
              Becomes(a, [request[a] EXCEPT !.at = "model", !.by = by(first), !.subject = s, !.facts = facts(first),
                                   !.verdict = verdict(s, facts(first))])
      BY <2>4
    <3>2. PICK fs, way, s :
            /\ fs = facts(first) /\ way = by(first)
            /\ s \in IF first # NoFact THEN {first} ELSE SubjectOf(r.asks, fs)
            /\ Becomes(a, [r EXCEPT !.at = "model", !.by = way, !.subject = s, !.facts = fs,
                                    !.verdict = verdict(s, fs)])
      <4> HIDE DEF facts, by
      <4> QED
        BY <1>0, <3>1
    <3> HIDE DEF verdict
    <3>3. r.symbolic \in Seq(Facts) /\ r.before \subseteq kept
      BY <1>1 DEF Requests
    <3>4. \/ way = "symbolic" /\ fs = r.symbolic /\ r.symbolic # <<>>
          \/ way = "subject" /\ first # NoFact /\ fs = Best(About(first), {})
          \/ way = "query" /\ fs = Best(Matches(q), q)
      BY <1>0, <2>2, <3>2
    <3> HIDE DEF facts, by, about
    <3>5. /\ fs \in Seq(Facts) /\ Len(fs) <= Limit
          /\ way = "subject" => s = first /\ Founded(r.before, fs, About(s), {})
          /\ way # "subject" => Founded(r.before, fs, Matches(q), q)
      <4>1. CASE way = "symbolic" /\ fs = r.symbolic /\ r.symbolic # <<>>
        BY <1>1, <2>2, <3>3, <4>1 DEF AskerInv
      <4>2. CASE way = "subject" /\ first # NoFact /\ fs = Best(About(first), {})
        <5>1. s = first
          BY <3>2, <4>2
        <5> QED
          BY <1>2, <1>5, <3>3, <4>2, <5>1, BestAnswers, BestIsFounded
      <4>3. CASE way = "query" /\ fs = Best(Matches(q), q)
        BY <1>2, <1>4, <3>3, <4>3, BestAnswers, BestIsFounded
      <4> QED
        BY <3>4, <4>1, <4>2, <4>3
    <3>6. s \in Subjects
      <4>1. first \in SubjectOf(r.asks, r.symbolic)
        BY <1>0, <3>1
      <4>2. SubjectOf(r.asks, r.symbolic) \subseteq Subjects /\ SubjectOf(r.asks, fs) \subseteq Subjects
        BY <1>1, <2>1, <3>3, <3>5, SubjectsAreKnown
      <4> QED
        BY <3>2, <4>1, <4>2
    <3>7. way \in {"symbolic", "subject", "query"}
      BY <3>4
    <3>8. PICK v : v = verdict(s, fs)
      OBVIOUS
    <3>9. v \in {"blocked", "review"} /\ (v = "review" => \A f \in In(fs) : ~Blocks(s, f, In(fs)))
      BY <3>8 DEF verdict
    <3>0. PICK rr : rr = [r EXCEPT !.at = "model", !.by = way, !.subject = s, !.facts = fs, !.verdict = v]
      OBVIOUS
    <3>10. /\ rr \in Requests /\ rr.at = "model" /\ rr.by = way /\ rr.subject = s /\ rr.facts = fs
           /\ rr.verdict = v /\ rr.asks = r.asks /\ rr.before = r.before /\ rr.symbolic = r.symbolic
      BY <1>1, <3>0, <3>5, <3>6, <3>7, <3>9 DEF Requests
    <3>11. Becomes(a, rr)
      BY <3>0, <3>2, <3>8
    <3>12. r.symbolic # <<>> => Founded(r.before, r.symbolic, Matches(q), q)' /\ Len(r.symbolic) <= Limit
      BY <1>1, <2>1, <2>2, SameFile DEF AskerInv
    <3>13. /\ way = "subject" => Founded(r.before, fs, About(s), {})'
           /\ way # "subject" => Founded(r.before, fs, Matches(q), q)'
      BY <2>1, <3>5, SameFile
    <3>14. Founded(rr.before, rr.facts, AskedFor(rr), Terms(rr))'
      BY <2>1, <2>2, <3>10, <3>13 DEF Founded, AskedFor, Terms
    <3>15. onRecord' \subseteq Asker \X {"query", "decision"} /\ cutOff' \in BOOLEAN
      BY <1>1, <2>4, RecordsKeepShape
    <3>16. AskerInv(a, rr)'
      BY <2>1, <2>2, <3>9, <3>10, <3>12, <3>14, <3>15 DEF AskerInv
    <3> QED
      BY <1>1, <2>1, <3>5, <3>10, <3>11, <3>15, <3>16, OneAsks
  <2> QED
    BY <1>9, <2>3, <2>4 DEF Decide
<1>10. ASSUME AnswerRequest(a) PROVE AdviceInv'
  <2>0. PICK rr : rr = [r EXCEPT !.at = "answered"]
    OBVIOUS
  <2>1. /\ rr \in Requests /\ rr.at = "answered" /\ rr.by = r.by /\ rr.subject = r.subject /\ rr.facts = r.facts
        /\ rr.verdict = r.verdict /\ rr.asks = r.asks /\ rr.before = r.before /\ rr.symbolic = r.symbolic
    BY <1>1, <2>0 DEF Requests
  <2>8. /\ r.at = "model" /\ Becomes(a, rr)
        /\ UNCHANGED <<log, torn, atoms, bridge, import, onRecord, cutOff, kept>>
    BY <1>0, <1>10, <2>0 DEF AnswerRequest
  <2>2. PICK q : q = r.asks.query
    OBVIOUS
  <2>3. r.symbolic # <<>> => Founded(r.before, r.symbolic, Matches(q), q)' /\ Len(r.symbolic) <= Limit
    BY <1>1, <2>2, <2>8, SameFile DEF AskerInv
  <2>4. r.verdict # "unavailable" => Founded(r.before, r.facts, AskedFor(r), Terms(r))
    BY <1>1, <2>8 DEF AskerInv
  <2>5. PICK m : m = AskedFor(rr)' /\ m = AskedFor(r)
    BY <2>1, <2>8 DEF AskedFor, About, Matches, Readable
  <2>6. r.verdict # "unavailable" => Founded(rr.before, rr.facts, AskedFor(rr), Terms(rr))'
    BY <2>1, <2>4, <2>5, <2>8 DEF Founded, Better, Terms
  <2>7. AskerInv(a, rr)'
    BY <1>1, <1>6, <2>1, <2>2, <2>3, <2>6, <2>8 DEF AskerInv, Founded
  <2> QED
    BY <1>1, <1>2, <2>1, <2>7, <2>8, OneAsks
<1> QED
  BY <1>7, <1>8, <1>9, <1>10

LEMMA AdviceStep ==
  ASSUME AdviceInv, [AdviceNext]_adviceVars PROVE AdviceInv'
<1>1. CASE UNCHANGED adviceVars
  <2>1. AdviceTypeOK /\ Grows
    BY <1>1 DEF AdviceInv, Grows, adviceVars
  <2>2. AdviceTypeOK'
    BY <1>1, <2>1 DEF AdviceTypeOK, adviceVars
  <2>3. ASSUME NEW a \in Asker PROVE AskerInv(a, request[a])'
    <3>1. PICK r : r = request[a] /\ r = request'[a]
      BY <1>1 DEF adviceVars
    <3>2. AskerInv(a, r)'
      BY <1>1, <2>1, <3>1, AskerStays DEF AdviceInv, adviceVars
    <3> QED
      BY <3>1, <3>2
  <2> QED
    BY <1>1, <2>2, <2>3 DEF AdviceInv, adviceVars
<1> QED
  BY <1>1, ImportSteps, AskerSteps DEF AdviceNext

LEMMA AdviceInvariant == AdviceSpec => []AdviceInv
BY AdviceInitial, AdviceStep, PTL DEF AdviceSpec

(* The state of the bridge, of its file and of the requests keeps its shape *)
(* (das-bridge/app.py, router/app.py).                                      *)
THEOREM AdviceTypeCorrect == AdviceSpec => []AdviceTypeOK
<1>1. AdviceInv => AdviceTypeOK
  BY DEF AdviceInv
<1> QED
  BY <1>1, AdviceInvariant, PTL

(* Advice to review hides no fact acknowledged before the request that      *)
(* would block it, but for those that were not asked about, or were not     *)
(* among the best, or went into half a line (_query_facts,                  *)
(* _advisory_decision).                                                     *)
THEOREM TheAdviceIsFounded == AdviceSpec => []AdviceIsFounded
<1>1. AdviceInv => AdviceIsFounded
  <2>1. SUFFICES ASSUME AdviceInv, NEW a \in Asker, NEW r, r = request[a], r.at = "answered",
                        r.verdict = "review"
                 PROVE  \A k \in r.before :
                          \/ ~Blocks(r.subject, k.fact, In(r.facts))
                          \/ k.line \notin AskedFor(r)
                          \/ Cardinality({j \in AskedFor(r) : Better(Terms(r), j, k.line)}) >= Limit
    BY DEF AdviceIsFounded, AskedFor, Terms
  <2>2. AskerInv(a, r)
    BY <2>1 DEF AdviceInv
  <2> QED
    BY <2>1, <2>2 DEF AskerInv, Founded
<1> QED
  BY <1>1, AdviceInvariant, PTL
=============================================================================
