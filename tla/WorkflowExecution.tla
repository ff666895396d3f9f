------------------------- MODULE WorkflowExecution -------------------------
(***************************************************************************)
(* One execution of a workflow template: the orchestrator that walks the   *)
(* stages in the process that handled the booking's event, and the         *)
(* handlers that run the delayed stages later.                             *)
(*                                                                         *)
(* A stage is immediate or delayed, required or optional.  Its automation  *)
(* succeeds or fails; updateStageResult reads the execution's array of     *)
(* results, appends, and writes it back in another statement.              *)
(***************************************************************************)
EXTENDS Naturals, FiniteSets

CONSTANTS
  N,          \* how many stages the template has
  Tries,      \* how often Inngest runs the handler of a delayed stage
  Deaths      \* whether processes die

WorkflowAssumption == {N, Tries} \subseteq Nat \ {0} /\ Deaths \in BOOLEAN

Stages  == 1 .. N
Writers == 0 .. N      \* 0: the orchestrator; n: the handler of delayed stage n

VARIABLES
  plan,       \* the stages
  status,     \* automation_executions.status
  results,    \* stageResults, as a set of <<stage, status>>
  stage,      \* the stage the orchestrator is at; N + 1: past the last
  failed,     \* hasFailure
  job,        \* per delayed stage: none, waiting, running, done
  tries,      \* per delayed stage: how often its handler was run
  at,         \* per writer: idle, execute, read, write
  entry,      \* per writer: the result to append
  copy,       \* per writer: the array as it read it
  ran         \* history: <<stage, outcome, how often>> of the automations

orchestrator == <<stage, failed>>
writer       == <<at, entry, copy>>
vars         == <<plan, status, results, orchestrator, job, tries, writer, ran>>

Outcomes == {"SUCCEEDED", "FAILED"}
Results  == Stages \X (Outcomes \cup {"SCHEDULED"})
Stage    == [delayed: BOOLEAN, optional: BOOLEAN]

TypeOK ==
  /\ plan \in [Stages -> Stage]
  /\ status \in {"none", "IN_PROGRESS", "PENDING", "SUCCEEDED", "FAILED"}
  /\ results \subseteq Results /\ stage \in 1 .. N + 1 /\ failed \in BOOLEAN
  /\ job \in [Stages -> {"none", "waiting", "running", "done"}]
  /\ tries \in [Stages -> 0 .. Tries]
  /\ at \in [Writers -> {"idle", "execute", "read", "write"}]
  /\ entry \in [Writers -> Results \cup {<<>>}]
  /\ \A w \in Writers : copy[w] \subseteq Results
  /\ ran \in [Stages -> [Outcomes -> 0 .. Tries]]

Init ==
  /\ plan \in [Stages -> Stage]
  /\ status = "none" /\ results = {} /\ stage = 1 /\ failed = FALSE
  /\ job = [n \in Stages |-> "none"] /\ tries = [n \in Stages |-> 0]
  /\ at = [w \in Writers |-> "idle"] /\ entry = [w \in Writers |-> <<>>]
  /\ copy = [w \in Writers |-> {}]
  /\ ran = [n \in Stages |-> [o \in Outcomes |-> 0]]

-----------------------------------------------------------------------------
Goto(w, p) == at' = [at EXCEPT ![w] = p]

Forget(w) ==
  entry' = [entry EXCEPT ![w] = <<>>] /\ copy' = [copy EXCEPT ![w] = {}]

Runs(n, outcome) == ran' = [ran EXCEPT ![n][outcome] = @ + 1]

Start ==
  /\ status = "none"
  /\ status' = "IN_PROGRESS" /\ Goto(0, "execute")
  /\ UNCHANGED <<plan, results, orchestrator, job, tries, entry, copy, ran>>

(* A delayed stage is dispatched; its delay may be nothing.                  *)
Schedule ==
  /\ at[0] = "execute" /\ stage <= N /\ plan[stage].delayed
  /\ job' = [job EXCEPT ![stage] = "waiting"]
  /\ entry' = [entry EXCEPT ![0] = <<stage, "SCHEDULED">>] /\ Goto(0, "read")
  /\ UNCHANGED <<plan, status, results, orchestrator, tries, copy, ran>>

Execute ==
  /\ at[0] = "execute" /\ stage <= N /\ ~plan[stage].delayed
  /\ \E outcome \in Outcomes :
       /\ Runs(stage, outcome)
       /\ entry' = [entry EXCEPT ![0] = <<stage, outcome>>]
       /\ failed' = (outcome = "FAILED" /\ ~plan[stage].optional)
  /\ Goto(0, "read")
  /\ UNCHANGED <<plan, status, results, stage, job, tries, copy>>

ReadResults(w) ==
  /\ at[w] = "read"
  /\ copy' = [copy EXCEPT ![w] = results] /\ Goto(w, "write")
  /\ UNCHANGED <<plan, status, results, orchestrator, job, tries, entry, ran>>

(* Broken: goes on to the next stage after any failure.                      *)
WriteResultsAndGoOn(w) ==
  /\ at[w] = "write"
  /\ results' = copy[w] \cup {entry[w]}
  /\ IF w = 0 THEN stage' = stage + 1 /\ Goto(0, "execute") /\ UNCHANGED job
              ELSE job' = [job EXCEPT ![w] = "done"] /\ Goto(w, "idle") /\ UNCHANGED stage
  /\ Forget(w)
  /\ UNCHANGED <<plan, status, failed, tries, ran>>

(* Then the orchestrator goes on to the next stage, or past the last one     *)
(* when a required stage failed; a handler is done.                          *)
WriteResults(w) ==
  /\ at[w] = "write"
  /\ results' = copy[w] \cup {entry[w]}
  /\ IF w = 0
       THEN /\ stage' = IF failed THEN N + 1 ELSE stage + 1
            /\ Goto(0, "execute") /\ UNCHANGED job
       ELSE job' = [job EXCEPT ![w] = "done"] /\ Goto(w, "idle") /\ UNCHANGED stage
  /\ Forget(w)
  /\ UNCHANGED <<plan, status, failed, tries, ran>>

AllDelayed == \A n \in Stages : plan[n].delayed

Complete ==
  /\ at[0] = "execute" /\ stage = N + 1
  /\ status' = IF AllDelayed THEN status ELSE IF failed THEN "FAILED" ELSE "SUCCEEDED"
  /\ Goto(0, "idle")
  /\ UNCHANGED <<plan, results, orchestrator, job, tries, entry, copy, ran>>

-----------------------------------------------------------------------------
RunJob(n) ==
  /\ job[n] = "waiting"
  /\ job' = [job EXCEPT ![n] = "running"] /\ tries' = [tries EXCEPT ![n] = @ + 1]
  /\ Goto(n, "execute")
  /\ UNCHANGED <<plan, status, results, orchestrator, entry, copy, ran>>

(* Whatever has become of the execution.                                     *)
ExecuteDelayed(n) ==
  /\ at[n] = "execute"
  /\ \E outcome \in Outcomes :
       Runs(n, outcome) /\ entry' = [entry EXCEPT ![n] = <<n, outcome>>]
  /\ Goto(n, "read")
  /\ UNCHANGED <<plan, status, results, orchestrator, job, tries, copy>>

(* The process dies or a statement fails: the orchestrator is not run again. *)
Dies(w) ==
  /\ Deaths /\ at[w] # "idle"
  /\ Goto(w, "idle")
  /\ IF w = 0 THEN UNCHANGED job
     ELSE job' = [job EXCEPT ![w] = IF tries[w] < Tries THEN "waiting" ELSE "done"]
  /\ Forget(w)
  /\ UNCHANGED <<plan, status, results, orchestrator, tries, ran>>

(* retry and bulkRetryFailed.                                                *)
Retry ==
  /\ status = "FAILED"
  /\ status' = "PENDING"
  /\ UNCHANGED <<plan, results, orchestrator, job, tries, writer, ran>>

-----------------------------------------------------------------------------
Orchestrate == Schedule \/ Execute \/ ReadResults(0) \/ WriteResults(0) \/ Complete
Handle(n)   == RunJob(n) \/ ExecuteDelayed(n) \/ ReadResults(n) \/ WriteResults(n)

Next ==
  \/ Start \/ Orchestrate \/ Retry
  \/ \E n \in Stages : Handle(n)
  \/ \E w \in Writers : Dies(w)

Spec == Init /\ [][Next]_vars

(* The orchestrator goes on; Inngest runs what is due.                       *)
FairSpec == Spec /\ WF_vars(Orchestrate) /\ \A n \in Stages : WF_vars(Handle(n))

-----------------------------------------------------------------------------
Ran(n) == ran[n]["SUCCEEDED"] + ran[n]["FAILED"] > 0
RequiredFailed(n) == ~plan[n].delayed /\ ~plan[n].optional /\ ran[n]["FAILED"] > 0

(* Whoever writes at once and whoever dies: SUCCEEDED means that every        *)
(* immediate required stage succeeded, and FAILED or PENDING that one failed. *)
StatusTellsImmediate ==
  /\ status = "SUCCEEDED" =>
       \A n \in Stages : ~plan[n].delayed /\ ~plan[n].optional => ran[n]["SUCCEEDED"] = 1
  /\ status \in {"FAILED", "PENDING"} => \E n \in Stages : RequiredFailed(n)

(* No immediate stage runs after a required one that failed, and none twice.  *)
FailureStopsImmediate ==
  \A m, n \in Stages :
    ~plan[n].delayed =>
      /\ ran[n]["SUCCEEDED"] + ran[n]["FAILED"] <= 1
      /\ m < n /\ RequiredFailed(m) => ~Ran(n)

(* While nothing dies, an execution with an immediate stage is completed.     *)
IsCompleted == (status = "IN_PROGRESS" /\ ~AllDelayed) ~> status # "IN_PROGRESS"

(* docs/phase-3-implementation-plan.md: "All non-optional stages must succeed *)
(* for workflow to reach SUCCEEDED status".                                   *)
SucceededMeansAll ==
  status = "SUCCEEDED" =>
    \A n \in Stages : ~plan[n].optional => ran[n]["SUCCEEDED"] > 0

(* "halt entire workflow -> status = FAILED": then no stage is run any more.  *)
FailedHalts == [][status = "FAILED" => UNCHANGED ran]_vars

(* A stage that failed is marked FAILED in stageResults, once nobody writes.  *)
FailuresAreRecorded ==
  (\A w \in Writers : at[w] = "idle") =>
    \A n \in Stages : ran[n]["FAILED"] > 0 => <<n, "FAILED">> \in results

(* "re-run from failed stage with original trigger data": a retried execution *)
(* does not stay PENDING.                                                     *)
RetryRuns == status = "PENDING" ~> status # "PENDING"
=============================================================================
