--------------------------- MODULE FabricValidation ---------------------------
(***************************************************************************)
(* The commands that validate an AI fabric laboratory and close its phases *)
(* (scripts/dev/ai_fabric_lab.py): each goes through its stages one by one *)
(* against services that may fail at any request, goes on after a failure, *)
(* shares the directory of its run id with every other invocation that is  *)
(* given the same id, sends what it has found to the k1s controller, and   *)
(* gives a verdict.                                                        *)
(***************************************************************************)
EXTENDS Naturals, Sequences, SequencesExt

CONSTANTS
  Invocation, \* of the script, each once
  RunId,
  FabricCommand, \* bound: the commands that are given
  Nobody

ASSUME FabricAssumption ==
  /\ Nobody \notin Invocation \cup RunId
  /\ FabricCommand \subseteq {"all", "acceptance-closeout", "quality-contract", "evidence-closeout",
                        "lora-adapter-smoke", "lora-plumbing", "f3", "f1-f2", "hyperon"}

\* _selected_runtime_suites, and the steps of the closeouts and of the Hyperon import.
StagesOf(c) ==
  CASE c = "all" -> <<"quality-contract", "mixed-soak", "evidence-closeout">>
    [] c = "acceptance-closeout" ->
         <<"adapter-preflight", "lora-adapter-smoke", "quality-comparison", "stress-burst",
           "recovery-smoke", "advisor-scenarios", "evidence-closeout">>
    [] c = "f3" -> <<"phase-report", "runtime-facts", "advisory-query", "evidence-closeout">>
    [] c = "f1-f2" -> <<"nodes">>
    [] c = "hyperon" -> <<"sidecar">>
    [] OTHER -> <<c>>

Validates(c) == c \notin {"f3", "f1-f2", "hyperon"}

\* RUNTIME_MODEL_SUITES.
NeedsModels == {"mixed-soak", "quality-contract", "lora-plumbing", "lora-adapter-smoke",
                "quality-comparison", "stress-burst", "recovery-smoke"}

VARIABLES
  adapter,  \* the adapter payload in the storage: absent, invalid, ready
  evidence, \* who asked the bridge for the f5-evidence.json in the directory of each run id
  heard,    \* the invocations whose traces k1s has
  run,      \* each invocation
  short,    \* history: the invocations of which a stage has not passed
  sent,     \* history: who had asked for the evidence it has sent
  before    \* history: the invocations that had ended when it began

fabricVars == <<adapter, evidence, heard, run, short, sent, before>>
historyVars == <<short, sent, before>>

\* at: new, health, lanes, stage, import, fetch, conclude, ended.  ready: what a later stage
\* needs of an earlier step, the host aliases or the phase report.
Unborn ==
  [at |-> "new", stage |-> 0, command |-> "all", id |-> Nobody, preflight |-> "absent",
   ready |-> TRUE, failed |-> FALSE, blocked |-> FALSE, traced |-> FALSE, verdict |-> "none"]

\* The places of an invocation; what it has sent or left behind is an invocation's.
FabricTypeOK ==
  /\ adapter \in {"absent", "invalid", "ready"}
  /\ evidence \in [RunId -> Invocation \cup {Nobody}]
  /\ heard \subseteq Invocation /\ short \subseteq Invocation
  /\ sent \in [Invocation -> Invocation \cup {Nobody}]
  /\ before \in [Invocation -> SUBSET Invocation]
  /\ \A v \in Invocation :
       /\ run[v].at \in {"new", "health", "lanes", "stage", "import", "fetch", "conclude",
                         "ended"}
       /\ run[v].command \in FabricCommand \cup {"all"} /\ run[v].id \in RunId \cup {Nobody}
       /\ run[v].stage \in 0 .. Len(StagesOf(run[v].command)) + 1
       /\ run[v].at = "stage" => run[v].stage \in DOMAIN StagesOf(run[v].command)
       /\ run[v].preflight \in {"absent", "invalid", "ready"}
       /\ run[v].verdict \in {"none", "failed", "ok", "accepted"}
       /\ {run[v].ready, run[v].failed, run[v].blocked, run[v].traced} \subseteq BOOLEAN

FabricInit ==
  /\ adapter \in {"absent", "invalid", "ready"}
  /\ evidence = [i \in RunId |-> Nobody] /\ heard = {}
  /\ run = [v \in Invocation |-> Unborn]
  /\ short = {}
  /\ sent = [v \in Invocation |-> Nobody]
  /\ before = [v \in Invocation |-> {}]

Selected(v) == ToSet(StagesOf(run[v].command))

-----------------------------------------------------------------------------

AdapterChanges ==
  /\ adapter' \in {"absent", "invalid", "ready"} \ {adapter}
  /\ UNCHANGED <<evidence, heard, run, historyVars>>

Begins(v, c, i, at, preflight) ==
  /\ run[v].at = "new"
  /\ run' = [run EXCEPT ![v] = [Unborn EXCEPT !.at = at, !.stage = 1, !.command = c, !.id = i,
                                             !.preflight = preflight]]
  /\ before' = [before EXCEPT ![v] = {w \in Invocation : run[w].at = "ended"}]
  /\ UNCHANGED <<adapter, evidence, heard, short, sent>>

\* A suite of the adapter alone asks for no service unless the payload is ready.
BeginValidation(v, c, i) ==
  /\ Validates(c)
  /\ LET suites == ToSet(StagesOf(c))
         smoke == "lora-adapter-smoke" \in suites
         asks == suites \ (IF smoke /\ adapter # "ready"
                           THEN {"lora-adapter-smoke", "adapter-preflight"}
                           ELSE {"adapter-preflight"})
     IN Begins(v, c, i, IF asks # {} THEN "health" ELSE "stage",
               IF smoke THEN adapter ELSE "absent")

BeginF3Closeout(v, i) == Begins(v, "f3", i, "health", "absent")

BeginLocalityCloseout(v, i) == Begins(v, "f1-f2", i, "stage", "absent")

BeginHyperonImport(v, i) == Begins(v, "hyperon", i, "stage", "absent")

\* _health_snapshot and _host_alias_snapshot ask the same services one after the other.
\* The second counts for the recovery smoke and the F3 closeout; nobody waits for lanes
\* that an unhealthy router would have to ask.
CheckHealth(v) ==
  /\ run[v].at = "health"
  /\ \E ok, hosts \in BOOLEAN :
       LET models == Selected(v) \cap
                       (IF run[v].preflight = "ready" THEN NeedsModels
                                                      ELSE NeedsModels \ {"lora-adapter-smoke"})
           counts == run[v].command = "f3" \/ "recovery-smoke" \in Selected(v)
       IN run' = [run EXCEPT
            ![v].at = IF ok /\ models # {} THEN "lanes" ELSE "stage",
            ![v].ready = hosts \/ ~counts \/ run[v].command = "f3",
            ![v].failed = ~ok \/ (~hosts /\ counts)]
  /\ UNCHANGED <<adapter, evidence, heard, historyVars>>

\* Each lane is probed until it has answered with its own model, or the time is up.
AwaitLanes(v) ==
  /\ run[v].at = "lanes"
  /\ \E answered \in SUBSET {"coordinator", "expert"} :
       run' = [run EXCEPT ![v].at = "stage",
                 ![v].failed = @ \/ answered # {"coordinator", "expert"}]
  /\ UNCHANGED <<adapter, evidence, heard, historyVars>>

\* The result of a stage is noted, and the next one begins whatever it was.
NoteFrom(current, v, result, traced) ==
  LET next == current.stage + 1 IN
  /\ run' = [run EXCEPT ![v] =
       [current EXCEPT !.stage = next,
          !.at = IF next <= Len(StagesOf(current.command)) THEN "stage" ELSE "import",
          !.failed = @ \/ result = "failed",
          !.blocked = @ \/ result = "blocked",
          !.traced = @ \/ traced]]
  /\ short' = IF result = "passed" THEN short ELSE short \cup {v}

Note(v, result, traced) == NoteFrom(run[v], v, result, traced)

AtStage(v, s) == run[v].at = "stage" /\ StagesOf(run[v].command)[run[v].stage] = s

\* What _run_adapter_preflight finds.
Preflight(payload) ==
  CASE payload = "absent" -> "blocked" [] payload = "invalid" -> "failed"
    [] payload = "ready" -> "passed"

PreflightStage(v) ==
  /\ AtStage(v, "adapter-preflight")
  /\ Note(v, Preflight(adapter), FALSE)
  /\ UNCHANGED <<adapter, evidence, heard, sent, before>>

\* The preflight was made when the run began.  The base model and the adapter's must both
\* be listed and answer, each under its own name.
SmokeStage(v) ==
  /\ AtStage(v, "lora-adapter-smoke")
  /\ \E listed, base, adapted \in BOOLEAN :
       NoteFrom([run[v] EXCEPT !.preflight = "absent"], v,
                IF run[v].preflight # "ready" THEN Preflight(run[v].preflight)
                ELSE IF listed /\ base /\ adapted THEN "passed" ELSE "failed", FALSE)
  /\ UNCHANGED <<adapter, evidence, heard, sent, before>>

\* The track has an expert with adapters, the directory is there, the expert answers.
PlumbingStage(v) ==
  /\ AtStage(v, "lora-plumbing")
  /\ \E configured, present, answered \in BOOLEAN :
       Note(v, IF configured /\ present /\ answered THEN "passed" ELSE "failed", FALSE)
  /\ UNCHANGED <<adapter, evidence, heard, sent, before>>

\* The prompts of a suite, whose answers are good, bad with a trace or bad without one.  No
\* prompt at all is a failure, and the suite says no more of it.
Prompted(v, from, answers, sound) ==
  NoteFrom(from, v, IF sound /\ answers = {"good"} THEN "passed" ELSE "failed",
           answers \cap {"good", "traced"} # {})

PromptStage(v) ==
  /\ \E s \in {"quality-contract", "quality-comparison"} : AtStage(v, s)
  /\ \E answers \in SUBSET {"good", "traced", "bad"} : Prompted(v, run[v], answers, TRUE)
  /\ UNCHANGED <<adapter, evidence, heard, sent, before>>

\* Two prompts that are always there, and the host aliases of before.
RecoveryStage(v) ==
  /\ AtStage(v, "recovery-smoke")
  /\ \E answers \in SUBSET {"good", "traced", "bad"} \ {{}} :
       Prompted(v, [run[v] EXCEPT !.ready = TRUE], answers, run[v].ready)
  /\ UNCHANGED <<adapter, evidence, heard, sent, before>>

\* Chats carry no trace.  Without prompts no worker starts; otherwise enough of what was
\* asked has to be answered, within the memory of the GPU.
SoakStage(v) ==
  /\ \E s \in {"mixed-soak", "stress-burst"} : AtStage(v, s)
  /\ \E prompts, enough, grown, exhausted \in BOOLEAN :
       Note(v, IF prompts /\ enough /\ ~grown /\ ~exhausted THEN "passed" ELSE "failed", FALSE)
  /\ UNCHANGED <<adapter, evidence, heard, sent, before>>

\* Every scenario of the file, and one of the services' state at this moment.
ScenarioStage(v) ==
  /\ AtStage(v, "advisor-scenarios")
  /\ \E synthetic, live \in BOOLEAN :
       Note(v, IF synthetic /\ live THEN "passed" ELSE "failed", FALSE)
  /\ UNCHANGED <<adapter, evidence, heard, sent, before>>

\* What cannot be copied or made is written down as a report of the failure, and that is
\* what the import of the facts then finds; it finds some copies to be no reports as well.
ReportStage(v) ==
  /\ AtStage(v, "phase-report")
  /\ \E made, valid \in BOOLEAN :
       NoteFrom([run[v] EXCEPT !.ready = made /\ valid], v,
                IF made THEN "passed" ELSE "failed", FALSE)
  /\ UNCHANGED <<adapter, evidence, heard, sent, before>>

\* With a finding nothing is posted to the bridge.
FactsStage(v) ==
  /\ AtStage(v, "runtime-facts")
  /\ \E posted \in BOOLEAN :
       NoteFrom([run[v] EXCEPT !.ready = TRUE], v,
                IF run[v].ready /\ posted THEN "passed" ELSE "failed", FALSE)
  /\ UNCHANGED <<adapter, evidence, heard, sent, before>>

\* The one answer of the router that the F3 closeout is about: an answer may be good for
\* nothing but its trace, or lack it.
AdvisoryStage(v) ==
  /\ AtStage(v, "advisory-query")
  /\ \E good, traced \in BOOLEAN : Note(v, IF good THEN "passed" ELSE "failed", traced)
  /\ UNCHANGED <<adapter, evidence, heard, sent, before>>

\* Any node k1s shows will do, ready or not; without one it invents the node it reports on.
NodesStage(v) ==
  /\ AtStage(v, "nodes")
  /\ \E shown \in BOOLEAN : Note(v, IF shown THEN "passed" ELSE "failed", FALSE)
  /\ UNCHANGED <<adapter, evidence, heard, sent, before>>

\* The sidecar is not asked about facts that are none.
SidecarStage(v) ==
  /\ AtStage(v, "sidecar")
  /\ \E facts, good, traced \in BOOLEAN :
       Note(v, IF facts /\ good THEN "passed" ELSE "failed", facts /\ traced)
  /\ UNCHANGED <<adapter, evidence, heard, sent, before>>

\* Mutant of EvidenceStage: only complete evidence is written.
EvidenceKept(v) ==
  /\ AtStage(v, "evidence-closeout")
  /\ \E result \in {"passed", "failed"} :
       /\ Note(v, result, FALSE)
       /\ evidence' = IF result = "passed" THEN [evidence EXCEPT ![run[v].id] = v] ELSE evidence
  /\ UNCHANGED <<adapter, heard, sent, before>>

\* What the bridge answers is written before it is looked at: an error has no records, and
\* there may be some but not of all kinds.  They are the last thirty of the one log of the
\* bridge, whosever queries they tell of: all kinds may be there although this invocation
\* has asked nothing, and its own may not be among them.
EvidenceStage(v) ==
  /\ AtStage(v, "evidence-closeout")
  /\ \E records \in {"none", "some", "all"} :
       /\ Note(v, IF records = "all" THEN "passed" ELSE "failed", FALSE)
       /\ evidence' = [evidence EXCEPT ![run[v].id] = IF records = "none" THEN Nobody ELSE v]
  /\ UNCHANGED <<adapter, heard, sent, before>>

\* Who asked for f5-evidence.json in the run's directory, for the commands that send it.
EvidenceOf(v) == IF run[v].command \in {"f1-f2", "hyperon"} THEN Nobody ELSE evidence[run[v].id]

\* What is posted may be accepted and the answer lost.
Posted(v, next, refused) ==
  \E accepted, known \in BOOLEAN :
    /\ known => accepted
    /\ run' = [run EXCEPT ![v].at = next, ![v].failed = @ \/ (refused /\ ~known)]
    /\ heard' = IF accepted /\ run[v].traced THEN heard \cup {v} ELSE heard
    /\ sent' = [sent EXCEPT ![v] = EvidenceOf(v)]

\* Without a controller, or with nothing to tell it; a validation may be told not to import.
NotPosted(v, next, missed) ==
  /\ run' = [run EXCEPT ![v].at = next, ![v].failed = @ \/ missed]
  /\ UNCHANGED <<heard, sent>>

\* For a validation a failed import is a warning; the F3 closeout counts it, and one that was
\* skipped, and goes on to ask k1s.
ImportAdvisory(v) ==
  /\ run[v].at = "import" /\ (Validates(run[v].command) \/ run[v].command = "f3")
  /\ LET f3 == run[v].command = "f3"
         next == IF f3 THEN "fetch" ELSE "conclude"
     IN \/ NotPosted(v, next, f3)
        \/ /\ run[v].traced \/ EvidenceOf(v) # Nobody
           /\ Posted(v, next, f3)
  /\ UNCHANGED <<adapter, evidence, short, before>>

\* A node, a chunk, its residency and a movement: there is always something to tell.
ImportLocality(v) ==
  /\ run[v].at = "import" /\ run[v].command = "f1-f2"
  /\ NotPosted(v, "fetch", TRUE) \/ Posted(v, "fetch", TRUE)
  /\ UNCHANGED <<adapter, evidence, short, before>>

\* What was skipped is no failure here.
ImportHyperon(v) ==
  /\ run[v].at = "import" /\ run[v].command = "hyperon"
  /\ \/ NotPosted(v, "conclude", FALSE)
     \/ run[v].traced /\ Posted(v, "conclude", TRUE)
  /\ UNCHANGED <<adapter, evidence, short, before>>

\* _fetch_k1s_closeout_state: k1s must show the trace of this very advisory.
FetchAdvisory(v) ==
  /\ run[v].at = "fetch" /\ run[v].command = "f3"
  /\ \E ok \in BOOLEAN :
       run' = [run EXCEPT ![v].at = "conclude", ![v].failed = @ \/ ~ok \/ v \notin heard]
  /\ UNCHANGED <<adapter, evidence, heard, historyVars>>

\* Of chunks, residencies and movements k1s may show those of any run.
FetchLocality(v) ==
  /\ run[v].at = "fetch" /\ run[v].command = "f1-f2"
  /\ \E chunks, residencies, movements, phases \in BOOLEAN :
       run' = [run EXCEPT ![v].at = "conclude",
                 ![v].failed = @ \/ ~(chunks /\ residencies /\ movements /\ phases)]
  /\ UNCHANGED <<adapter, evidence, heard, historyVars>>

Ends(v, verdict) ==
  run' = [run EXCEPT ![v] =
    [Unborn EXCEPT !.at = "ended", !.command = run[v].command, !.id = run[v].id,
                   !.verdict = verdict]]

\* acceptance.json, and the result of the command.
Conclude(v) ==
  /\ run[v].at = "conclude"
  /\ Ends(v, IF run[v].failed THEN "failed"
             ELSE IF run[v].command = "acceptance-closeout" /\ ~run[v].blocked
                  THEN "accepted" ELSE "ok")
  /\ UNCHANGED <<adapter, evidence, heard, historyVars>>

Interrupt(v) ==
  /\ run[v].at \notin {"new", "ended"}
  /\ Ends(v, "none")
  /\ UNCHANGED <<adapter, evidence, heard, historyVars>>

InvocationStep(v) ==
  \/ \E i \in RunId :
       \/ \E c \in FabricCommand : BeginValidation(v, c, i)
       \/ "f3" \in FabricCommand /\ BeginF3Closeout(v, i)
       \/ "f1-f2" \in FabricCommand /\ BeginLocalityCloseout(v, i)
       \/ "hyperon" \in FabricCommand /\ BeginHyperonImport(v, i)
  \/ CheckHealth(v) \/ AwaitLanes(v)
  \/ PreflightStage(v) \/ SmokeStage(v) \/ PlumbingStage(v) \/ PromptStage(v)
  \/ RecoveryStage(v) \/ SoakStage(v) \/ ScenarioStage(v) \/ EvidenceStage(v)
  \/ ReportStage(v) \/ FactsStage(v) \/ AdvisoryStage(v) \/ NodesStage(v) \/ SidecarStage(v)
  \/ ImportAdvisory(v) \/ ImportLocality(v) \/ ImportHyperon(v)
  \/ FetchAdvisory(v) \/ FetchLocality(v) \/ Conclude(v) \/ Interrupt(v)

FabricNext == AdapterChanges \/ \E v \in Invocation : InvocationStep(v)

FabricSpec == FabricInit /\ [][FabricNext]_fabricVars

-----------------------------------------------------------------------------

\* Another invocation with v's run id that had not ended when v began, or began later.
Shares(v) == \E w \in Invocation \ ({v} \cup before[v]) : run[w].id = run[v].id

\* An acceptance is given only to a run whose every stage has passed, none of them
\* blocked, and a closeout and an import succeed only if theirs have, the F3 closeout only
\* when k1s has the trace of its own advisory.  And no command that collects evidence ever
\* sends what an earlier run with the same id has asked the bridge for, whatever failed: it
\* has asked itself, or one has that was at work at the same time.  Of the records it so
\* sends nothing is said: the bridge gives those of any run
\* (ai_fabric_lab.py:704-934, 1278-1607, 2555-2754, 3828-3848).
VerdictIsEarned ==
  \A v \in Invocation :
    /\ run[v].verdict = "accepted" => v \notin short
    /\ run[v].verdict = "ok" /\ ~Validates(run[v].command) => v \notin short
    /\ run[v].verdict = "ok" /\ run[v].command = "f3" => v \in heard
    /\ "evidence-closeout" \in Selected(v) => sent[v] \in {v, Nobody} \/ Shares(v)
=============================================================================
