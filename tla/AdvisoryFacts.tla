---------------------------- MODULE AdvisoryFacts ----------------------------
(***************************************************************************)
(* The advice of the AI fabric (images/das-bridge/app.py and               *)
(* images/router/app.py): the bridge keeps facts in an append-only file,   *)
(* answers queries with the best of them and decides on a subject; the     *)
(* router asks the bridge twice for one request, and a model.  The bridge  *)
(* dies and is started again; the file survives, and may end in half a     *)
(* line, and so may the records of queries and decisions that it keeps in  *)
(* another.  A query is the set of the subjects it names.                  *)
(***************************************************************************)
EXTENDS Naturals, Sequences, FiniteSets, SequencesExt

CONSTANTS
  Observed,   \* bound: what the laboratory may see when it imports facts
  DependsOn,  \* AI_FABRIC_SERVICE_DEPENDENCIES: pairs of services
  Services,   \* subjects of services
  Phase,      \* subjects of phases
  PhaseBehind, \* [subjects of phase evidence -> Phase]
  Report,     \* the subject of the phase report
  Adapter,    \* subjects of adapters
  Queries,    \* what is asked: [subject, query], the subject perhaps NoFact
  NoFact,     \* no fact, and no subject
  Asker,      \* requests, each made once
  Limit,      \* how many facts the router asks for
  MaxLines    \* bound on the lines of the file

ASSUME AdvisoryAssumption == Limit \in Nat \ {0} /\ MaxLines \in Nat

-----------------------------------------------------------------------------
(* The facts of one import (ai_fabric_lab.py), from what the laboratory sees: the services  *)
(* that are staged, what those it asks say of their health, whether the models' lanes       *)
(* answer, the workloads of WorkerBee's status, and the phases of a report.                 *)

\* _condition_state of the bridge: what counts as degraded.
Degraded(state) ==
  state \in {"blocked", "degraded", "down", "failed", "false", "invalid", "missing", "not_ready",
            "stale", "unavailable", "unhealthy"}

\* A fact, its object a subject or a state.
Fact(s, p, o) ==
  [subject |-> s, predicate |-> p,
   object |-> IF p \in {"depends_on", "blocked_by"} THEN o ELSE "state",
   degraded |-> p \notin {"depends_on", "blocked_by"} /\ Degraded(o)]

\* A dependency is a fact when both services are staged.
StagedFacts(seen) ==
  {Fact(d[1], "depends_on", d[2]) : d \in {d \in DependsOn : {d[1], d[2]} \subseteq seen.staged}}

\* readiness and host_alias_health say the same of a service.  One at an address that is
\* not local is not asked.
StateFacts(seen) ==
  {Fact(s, "readiness", seen.health[s]) : s \in DOMAIN seen.health}
    \cup {Fact(m, "model_lane_readiness", seen.lanes[m]) : m \in DOMAIN seen.lanes}

\* The workloads of the status file as of the latest deployment.
StatusFacts(seen) == {Fact(s, "readiness", seen.workloads[s]) : s \in DOMAIN seen.workloads}

\* The gate of a phase, its status, what blocks it, and each piece of evidence, present or missing.
PhaseFacts(seen) ==
  {Fact(g, "gate_ready", seen.gates[g].state) : g \in DOMAIN seen.gates}
    \cup {Fact(g, "status", seen.gates[g].status) : g \in DOMAIN seen.gates}
    \cup UNION {{Fact(g, "blocked_by", b) : b \in seen.gates[g].blockers} : g \in DOMAIN seen.gates}
    \cup {Fact(e, "present", "unhealthy") : e \in seen.missing}

\* They are sent in this order.
RuntimeFacts(seen) ==
  SetToSeq(StagedFacts(seen)) \o SetToSeq(StateFacts(seen)) \o SetToSeq(StatusFacts(seen))
    \o SetToSeq(PhaseFacts(seen))

FactsOf(seen) == StagedFacts(seen) \cup StateFacts(seen) \cup StatusFacts(seen) \cup PhaseFacts(seen)

\* What is seen at one time is finite.
ASSUME FactsAssumption == \A seen \in Observed : IsFiniteSet(FactsOf(seen))

Facts == UNION {FactsOf(seen) : seen \in Observed}

\* What a request may be about.
Subjects == {NoFact} \cup Services \cup {q.subject : q \in Queries} \cup {f.subject : f \in Facts}

-----------------------------------------------------------------------------
(* The state. *)

VARIABLES
  log,      \* facts.jsonl: facts, and NoFact for a line that is no JSON
  torn,     \* its last line has no end
  atoms,    \* the backend's facts, in memory
  bridge,   \* "up" or "down"
  import,   \* the import under way: facts still to write, and the lines already written
  request,  \* [Asker -> where it is, what it asks and what it has got]
  onRecord, \* f5-evidence.jsonl: what can be read of which request
  cutOff,   \* the last line of f5-evidence.jsonl has no end
  kept      \* history: [fact, line] of the facts that were acknowledged

adviceVars == <<log, torn, atoms, bridge, import, request, onRecord, cutOff, kept>>

NoImport == [left |-> <<>>, done |-> {}]
NotAsked ==
  [at |-> "none", asks |-> NoFact, symbolic |-> <<>>, by |-> "none", subject |-> NoFact,
   facts |-> <<>>, verdict |-> "none", before |-> {}]

Requests ==
  [at : {"none", "symbolic", "decide", "model", "answered"}, asks : Queries \cup {NoFact},
   symbolic : Seq(Facts), by : {"none", "symbolic", "subject", "query"}, subject : Subjects,
   facts : Seq(Facts), verdict : {"none", "blocked", "review", "unavailable"},
   before : SUBSET [fact : Facts, line : 1..MaxLines]]

\* What is in memory, and what was acknowledged, stands in the file or did when it was written.
AdviceTypeOK ==
  /\ log \in Seq(Facts \cup {NoFact}) /\ Len(log) <= MaxLines /\ torn \in BOOLEAN
  /\ bridge \in {"up", "down"} /\ atoms \subseteq Facts
  /\ bridge = "down" => atoms = {} /\ import = NoImport
  /\ import \in [left : Seq(Facts), done : SUBSET [fact : Facts, line : 1..Len(log)]]
  /\ kept \subseteq [fact : Facts, line : 1..Len(log)]
  /\ onRecord \subseteq Asker \X {"query", "decision"} /\ cutOff \in BOOLEAN
  /\ request \in [Asker -> Requests]
  /\ \A a \in Asker : Len(request[a].facts) <= Limit /\ request[a].before \subseteq kept

AdviceInit ==
  /\ log = <<>> /\ torn = FALSE /\ atoms = {} /\ bridge = "up" /\ import = NoImport
  /\ request = [a \in Asker |-> NotAsked] /\ onRecord = {} /\ cutOff = FALSE
  /\ kept = {}

-----------------------------------------------------------------------------
(* What the bridge makes of its file. *)

Readable == {i \in DOMAIN log : log[i] # NoFact}

\* How many of the query's terms the text of a fact has in it.
Score(query, fact) == Cardinality({s \in query : s \in {fact.subject, fact.object}})

Matches(query) == {i \in Readable : query = {} \/ Score(query, log[i]) > 0}
About(subject) == {i \in Readable : log[i].subject = subject}

\* A line that comes before another in the answer: more terms, or as many and newer.
Better(query, i, j) ==
  LET s(k) == Score(query, log[k]) IN s(i) > s(j) \/ (s(i) = s(j) /\ i > j)

\* Mutant of Best: the worst and oldest first.
OldestFirst(lines, query) ==
  LET rank(i) == Cardinality({j \in lines : j = i \/ Better(query, i, j)})
      chosen == {i \in lines : rank(i) <= Limit}
  IN [n \in 1..Cardinality(chosen) |-> log[CHOOSE i \in chosen : rank(i) = n]]

\* The best lines of those that match, as many as asked for.
Best(lines, query) ==
  LET rank(i) == Cardinality({j \in lines : j = i \/ Better(query, j, i)})
      chosen == {i \in lines : rank(i) <= Limit}
  IN [n \in 1..Cardinality(chosen) |-> log[CHOOSE i \in chosen : rank(i) = n]]

IsPhaseFact(s) == s = Report \/ s \in Phase \cup DOMAIN PhaseBehind

\* _phase_fact_applies: a report has all phases, a phase has itself and its evidence.
Applies(subject, s) ==
  \/ subject = Report /\ IsPhaseFact(s)
  \/ subject \in Phase /\ s \in {subject} \cup {e \in DOMAIN PhaseBehind : PhaseBehind[e] = subject}

\* _decision_blocked_conditions: a fact that blocks a decision on the subject.
Blocks(subject, fact, facts) ==
  /\ fact.degraded
  /\ \/ /\ Applies(subject, fact.subject)
        /\ \/ fact.predicate \in {"gate_ready", "status"}
           \/ fact.predicate = "present" /\ fact.subject \in DOMAIN PhaseBehind
           \/ fact.predicate = "artifact_state" /\ fact.subject = Report
     \/ /\ ~IsPhaseFact(fact.subject)
        /\ \/ fact.predicate \in {"readiness", "status", "host_alias_health",
                                  "model_lane_readiness", "artifact_state"}
           \/ /\ subject \in Adapter /\ fact.subject = subject
              /\ fact.predicate \in {"adapter_state", "preflight_state"}
     \/ /\ fact.predicate \in {"readiness", "status", "host_alias_health"}
        /\ \E g \in facts : g.subject = subject /\ g.predicate = "depends_on"
                            /\ g.object = fact.subject

In(facts) == {facts[n] : n \in DOMAIN facts}

\* _advisory_subject: the one asked about; or else a service that the query names, from the
\* facts given or those on file; or else what the first fact is about.
SubjectOf(asks, facts) ==
  LET named == {s \in Services \cap asks.query :
                  \E f \in In(facts) \cup {log[i] : i \in Readable} : s \in {f.subject, f.object}}
  IN IF asks.subject # NoFact THEN {asks.subject}
     ELSE IF named # {} THEN named
     ELSE IF facts # <<>> THEN {facts[1].subject} ELSE {NoFact}

-----------------------------------------------------------------------------
(* Facts arrive. *)

\* /v1/facts with one fact, /v1/import/runtime with several.
BeginImport ==
  /\ bridge = "up" /\ import = NoImport
  /\ \E seen \in Observed : LET facts == RuntimeFacts(seen) IN
       /\ facts # <<>> /\ Len(log) + Len(facts) <= MaxLines
       /\ import' = [import EXCEPT !.left = facts]
  /\ UNCHANGED <<log, torn, atoms, bridge, request, onRecord, cutOff, kept>>

\* _append_fact, under its lock.  What follows half a line is part of it.
AppendFact ==
  /\ bridge = "up" /\ import.left # <<>>
  /\ log' = IF torn THEN log ELSE Append(log, Head(import.left))
  /\ torn' = FALSE
  /\ import' = [left |-> Tail(import.left),
                done |-> import.done \cup {[fact |-> Head(import.left), line |-> Len(log')]}]
  /\ UNCHANGED <<atoms, bridge, request, onRecord, cutOff, kept>>

\* The facts go to the backend, if there is one, and the answer to the client.
AnswerImport ==
  /\ bridge = "up" /\ import.done # {} /\ import.left = <<>>
  /\ atoms' \in {atoms, atoms \cup {d.fact : d \in import.done}}
  /\ kept' = kept \cup import.done
  /\ import' = NoImport
  /\ UNCHANGED <<log, torn, bridge, request, onRecord, cutOff>>

\* The bridge dies, perhaps with half a line written of a fact or of a record; its clients
\* get no answer.
BridgeDies ==
  /\ bridge = "up" /\ bridge' = "down" /\ atoms' = {} /\ import' = NoImport
  /\ \/ UNCHANGED <<log, torn, cutOff>>
     \/ /\ import.left # <<>> /\ torn' = TRUE
        /\ log' = IF torn THEN log ELSE Append(log, NoFact)
        /\ UNCHANGED cutOff
     \/ /\ \E a \in Asker : request[a].at \in {"symbolic", "decide"}
        /\ cutOff' = TRUE
        /\ UNCHANGED <<log, torn>>
  /\ UNCHANGED <<request, onRecord, kept>>

\* main: the backend gets what can be read.
BridgeStarts ==
  /\ bridge = "down" /\ bridge' = "up"
  /\ atoms' = {log[i] : i \in Readable}
  /\ UNCHANGED <<log, torn, import, request, onRecord, cutOff, kept>>

-----------------------------------------------------------------------------
(* A request. *)

Becomes(a, r) == request' = [request EXCEPT ![a] = r]

\* The router's /v1/advisory/query, which retrieves first; or a decision asked of the
\* bridge itself.
BeginRequest(a) ==
  /\ request[a].at = "none"
  /\ \E q \in Queries, s \in {"symbolic", "decide"} :
       Becomes(a, [request[a] EXCEPT !.at = s, !.asks = q, !.before = kept])
  /\ UNCHANGED <<log, torn, atoms, bridge, import, onRecord, cutOff, kept>>

\* _append_f5_evidence, under the lock of the facts.  What follows half a line cannot be read.
Recorded(a, kind) ==
  /\ bridge = "up"
  /\ onRecord' = IF cutOff THEN onRecord ELSE onRecord \cup {<<a, kind>>}
  /\ cutOff' = FALSE

\* No answer in time: the bridge may have done its part all the same.
Unanswered(a, kind) == Recorded(a, kind) \/ UNCHANGED <<onRecord, cutOff>>

\* _query_symbolic_evidence: the bridge's best facts and a record of the query; or none,
\* when it does not answer in time.
SymbolicEvidence(a) ==
  /\ request[a].at = "symbolic"
  /\ \/ /\ bridge = "up"
        /\ LET q == request[a].asks.query IN
           Becomes(a, [request[a] EXCEPT !.at = "decide", !.symbolic = Best(Matches(q), q)])
        /\ Recorded(a, "query")
     \/ /\ Becomes(a, [request[a] EXCEPT !.at = "decide"])
        /\ Unanswered(a, "query")
  /\ UNCHANGED <<log, torn, atoms, bridge, import, kept>>

\* _advisory_decision: on the facts that were supplied, or those about the subject, or those
\* that match the query.
Decide(a) ==
  LET r == request[a]
      q == r.asks.query
  IN /\ r.at = "decide"
     /\ \/ /\ bridge = "up"
           /\ \E first \in SubjectOf(r.asks, r.symbolic) :
                LET about == IF first = NoFact THEN <<>> ELSE Best(About(first), {})
                    by == IF r.symbolic # <<>> THEN "symbolic"
                          ELSE IF about # <<>> THEN "subject" ELSE "query"
                    facts == CASE by = "symbolic" -> r.symbolic
                               [] by = "subject" -> about
                               [] by = "query" -> Best(Matches(q), q)
                IN \E s \in IF first # NoFact THEN {first} ELSE SubjectOf(r.asks, facts) :
                     Becomes(a, [r EXCEPT
                       !.at = "model", !.by = by, !.subject = s, !.facts = facts,
                       !.verdict = IF \E f \in In(facts) : Blocks(s, f, In(facts))
                                     THEN "blocked" ELSE "review"])
           /\ Recorded(a, "decision")
        \/ /\ Becomes(a, [r EXCEPT !.at = "model", !.verdict = "unavailable"])
           /\ Unanswered(a, "decision")
     /\ UNCHANGED <<log, torn, atoms, bridge, import, kept>>

\* _call_advisory_model: its answer, or none, goes into the trace and decides nothing.  The
\* trace is written, if it can be, and the answer given in either case.
AnswerRequest(a) ==
  /\ request[a].at = "model"
  /\ Becomes(a, [request[a] EXCEPT !.at = "answered"])
  /\ UNCHANGED <<log, torn, atoms, bridge, import, onRecord, cutOff, kept>>

AdviceNext ==
  \/ BeginImport \/ AppendFact \/ AnswerImport \/ BridgeDies \/ BridgeStarts
  \/ \E a \in Asker :
       BeginRequest(a) \/ SymbolicEvidence(a) \/ Decide(a) \/ AnswerRequest(a)

AdviceSpec == AdviceInit /\ [][AdviceNext]_adviceVars

-----------------------------------------------------------------------------
(* What it promises. *)

\* A decision to review, on facts, that an answer gives hides no degraded fact: of those
\* acknowledged before the request, whatever was imported and whoever died meanwhile, each
\* that would block it was not matched, or is not among the best as many as were asked for,
\* or has been written into half a line (_query_facts, _advisory_decision).  Whether the
\* decision can be read in f5-evidence.jsonl is not claimed: after half a record it cannot.
AdviceIsFounded ==
  \A a \in Asker : LET r == request[a]
                       q == IF r.by = "subject" THEN {} ELSE r.asks.query
                       asked == IF r.by = "subject" THEN About(r.subject) ELSE Matches(q) IN
    r.at = "answered" /\ r.verdict = "review" =>
      \A k \in r.before :
        \/ ~Blocks(r.subject, k.fact, In(r.facts))
        \/ k.line \notin asked
        \/ Cardinality({j \in asked : Better(q, j, k.line)}) >= Limit
=============================================================================
