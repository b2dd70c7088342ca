---------------------------- MODULE DashboardJobs ----------------------------
(***************************************************************************)
(* The table of dashboard actions in the WorkerBee daemon (daemon.py):     *)
(* a request enqueues a job and returns, a thread of its own runs it, and  *)
(* the browser polls for the result until the job is pruned.  Everything   *)
(* happens under one mutex except the action itself, which takes as long   *)
(* as it takes (ProjectLifecycle has the handlers it calls).               *)
(***************************************************************************)
EXTENDS SequenceParts

CONSTANTS
  Job,
  MaxJobs,  \* how many jobs are kept (50)
  Horizon,  \* how long a finished one is kept (30 minutes)
  MaxTime   \* bound: the clock stops there

ASSUME JobsAssumption == MaxJobs \in Nat /\ Horizon \in Nat /\ MaxTime \in Nat

JobStatus == {"queued", "running", "succeeded", "failed"}

VARIABLES
  now,
  status,   \* _dashboard_jobs: the status of each job, or "none"
  createdAt,  \* when each job was created
  order,    \* _dashboard_jobs_order: the jobs in the order of their creation
  thread    \* the thread of each job

jobsVars == <<now, status, createdAt, order, thread>>

JobsTypeOK ==
  /\ now \in 0..MaxTime
  /\ status \in [Job -> JobStatus \cup {"none"}]
  /\ createdAt \in [Job -> 0..MaxTime]
  /\ order \in Seq(Job)
  /\ thread \in [Job -> {"none", "scheduled", "executing", "done"}]

JobsInit ==
  /\ now = 0
  /\ status = [j \in Job |-> "none"]
  /\ createdAt = [j \in Job |-> 0]
  /\ order = <<>>
  /\ thread = [j \in Job |-> "none"]

-----------------------------------------------------------------------------

Unfinished(s) == s \in {"queued", "running"}

\* Mutant of Recent: the age alone decides.
RecentByAge(s, c) == {j \in Job : s[j] # "none" /\ c[j] + Horizon >= now}

\* What is not finished or not older than the horizon.
Recent(s, c) == {j \in Job : s[j] # "none" /\ (Unfinished(s[j]) \/ c[j] + Horizon >= now)}

\* The first finished ones of the recent jobs, when those are more than MaxJobs.
Excess(o, s, recent) ==
  LET finished == Places(o, {j \in recent : ~Unfinished(s[j])}) IN
  {o[i] : i \in {k \in finished : Cardinality(UpTo(finished, k)) + MaxJobs
                                     <= Cardinality(Places(o, recent))}}

\* _prune_dashboard_jobs_locked
Prune(o, s, c) ==
  LET recent == Recent(s, c)
      kept == recent \ Excess(o, s, recent)
  IN
  /\ order' = Selection(o, kept)
  /\ status' = [j \in Job |-> IF j \in kept THEN s[j] ELSE "none"]

Enqueue(j) ==
  /\ thread[j] = "none"
  /\ createdAt' = [createdAt EXCEPT ![j] = now]
  /\ Prune(Append(order, j), [status EXCEPT ![j] = "queued"], createdAt')
  /\ thread' = [thread EXCEPT ![j] = "scheduled"]
  /\ UNCHANGED now

\* The thread starts the action, or returns at once when its job is gone.
RunJob(j) ==
  /\ thread[j] = "scheduled"
  /\ IF status[j] = "none"
     THEN thread' = [thread EXCEPT ![j] = "done"] /\ UNCHANGED status
     ELSE /\ thread' = [thread EXCEPT ![j] = "executing"]
          /\ status' = [status EXCEPT ![j] = "running"]
  /\ UNCHANGED <<now, createdAt, order>>

\* Mutant of FinishJob: an exception of the action is not reported.
FinishSilently(j) ==
  /\ thread[j] = "executing"
  /\ thread' = [thread EXCEPT ![j] = "done"]
  /\ \/ Prune(order, [status EXCEPT ![j] = "succeeded"], createdAt)
     \/ UNCHANGED <<status, order>>
  /\ UNCHANGED <<now, createdAt>>

\* The action returned a result or raised an exception: both are reported,
\* and the table is pruned with the job in it.
FinishJob(j) ==
  /\ thread[j] = "executing"
  /\ thread' = [thread EXCEPT ![j] = "done"]
  /\ IF status[j] = "none"
     THEN UNCHANGED <<status, order>>
     ELSE \E s \in {"succeeded", "failed"} : Prune(order, [status EXCEPT ![j] = s], createdAt)
  /\ UNCHANGED <<now, createdAt>>

JobClock ==
  /\ now < MaxTime
  /\ now' = now + 1
  /\ UNCHANGED <<status, createdAt, order, thread>>

JobsNext ==
  \/ \E j \in Job : Enqueue(j) \/ RunJob(j) \/ FinishJob(j)
  \/ JobClock

JobsSpec == JobsInit /\ [][JobsNext]_jobsVars

\* The scheduled threads run, and every handler they call ends.
JobsFairness == \A j \in Job : WF_jobsVars(RunJob(j) \/ FinishJob(j))

-----------------------------------------------------------------------------

\* A job that is waiting or at work is never pruned, however old it is and
\* however full the table: its thread finds it where it left it
\* (daemon.py:1940-1943, 1975).
NoneLost ==
  \A j \in Job : /\ thread[j] = "scheduled" => status[j] = "queued"
                 /\ thread[j] = "executing" => status[j] = "running"

\* Every job ends, and says how: an exception in the action does not leave it
\* running for ever (daemon.py:1931-1954).
JobEnds == \A j \in Job : status[j] = "queued" ~> status[j] \in {"succeeded", "failed", "none"}
=============================================================================
