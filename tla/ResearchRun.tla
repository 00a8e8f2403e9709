----------------------------- MODULE ResearchRun -----------------------------
(***************************************************************************)
(* One research run: the row of research_runs, its append-only steps and   *)
(* evidence, the control requests of its owner, and the worker processes   *)
(* that execute its orchestrator jobs (application/research.py and         *)
(* research_executor.py, adapters/research_runs.py, api/research_routes.py *)
(* and workers/research_handler.py).                                       *)
(*                                                                         *)
(* Every action is one transaction, or one tool call with the transaction  *)
(* that records it.  The job queue is reduced to what JobQueue shows of    *)
(* one kind of job: a job is handed to one worker, handed to another when  *)
(* its lease has run out while the first still works, and settled by       *)
(* whoever publishes first.  Attempts are not counted: when a lease has    *)
(* run out the job is queued again, or it has none left and fails.         *)
(***************************************************************************)
EXTENDS Naturals, Sequences, FiniteSets

CONSTANTS
  Executors,    \* worker processes that serve research.execute
  Controllers,  \* control requests in progress at a time
  Configs,      \* configurations POST /research-runs is sent with
  AnyTools,     \* what an arbitrary planner is let propose, beside import
  MaxControls,  \* bound: requests
  MaxFaults     \* bound: lost leases, crashes, exceptions and revocations

ASSUME ResearchAssumption ==
  /\ MaxControls \in Nat /\ MaxFaults \in Nat
  /\ IsFiniteSet(Executors) /\ IsFiniteSet(Controllers)
  /\ Configs # {}
  /\ \A c \in Configs : c.steps \in Nat /\ c.calls \in Nat /\ c.imports \in Nat

VARIABLES
  run,          \* the research_runs row
  steps,        \* research_run_steps, in step_number order
  evidence,     \* research_evidence_snapshots, in append order
  orchestrator, \* per idempotency key (a revision), its job
  exec,         \* the worker processes
  control,      \* the control requests
  imported,     \* times import_fetched went through
  stranded,     \* why a running run may be without a job
  researchUsed  \* how much of each bound is used up

researchVars ==
  <<run, steps, evidence, orchestrator, exec, control, imported, stranded, researchUsed>>

-----------------------------------------------------------------------------
(* The run's states and the tools of its surface.                          *)

RunStatuses == {"created", "running", "paused", "succeeded", "failed", "cancelled"}

EndedRunStates == {"succeeded", "failed", "cancelled"}

RunTransitions(s) ==
  CASE s = "created" -> {"running", "cancelled"}
    [] s = "running" -> {"paused"} \cup EndedRunStates
    [] s = "paused"  -> {"running", "cancelled"}
    [] OTHER         -> {}

RunTransitionAllowed(from, to) == to \in RunTransitions(from)

Tools == {"search", "fetch", "browser", "observe", "interact", "import", "retrieve"}

SideEffectTools == {"import", "interact"}

BrowserTools == {"browser", "observe", "interact"}

(* _validate_run_config and ResearchBudget.  planner is what the worker has *)
(* for the run's mode: the discovery program, some other planner, or none. *)
AdmissibleConfig(c) ==
  /\ c.tools # {} /\ c.tools \subseteq Tools
  /\ c.approved \subseteq c.tools
  /\ SideEffectTools \cap c.tools \subseteq c.approved
  /\ c.steps > 0 /\ c.calls > 0

(* authorize_tool_call: the frozen configuration decides, nothing else.    *)
Denial(c, tool) ==
  IF tool \notin Tools THEN "surface"
  ELSE IF tool \notin c.tools THEN "not_enabled"
  ELSE IF tool \in SideEffectTools /\ tool \notin c.approved THEN "not_approved"
  ELSE "none"

-----------------------------------------------------------------------------
(* The store.                                                              *)

NoRun == [status |-> "absent", revision |-> 0, config |-> CHOOSE c \in Configs : TRUE,
          candidates |-> {}]

Keys == 0..MaxControls

Unclaimed(state) == [state |-> state, owner |-> "none"]

IdleExec == [pc |-> "idle", key |-> 0, lost |-> FALSE, n |-> 0, calls |-> 0,
             step |-> 0, proposal |-> [tool |-> "none", target |-> 0],
             denied |-> <<"none", "none">>, promoted |-> {}]

OpenJob(k) == orchestrator[k].state \in {"queued", "claimed"}

IdleControl == [pc |-> "idle", op |-> "none", status |-> "none", key |-> 0]

(* cas_status: one UPDATE guarded by the expected status.                  *)
CasStatusUnguarded(expected, target, found) ==            \* mutated form
  run' = [run EXCEPT !.status = target, !.revision = @ + 1, !.candidates = found]
CasStatus(expected, target, found) ==
  run' = IF run.status = expected
         THEN [run EXCEPT !.status = target, !.revision = @ + 1, !.candidates = found]
         ELSE run

(* A step that is inserted takes the number after the last; a second       *)
(* writer of the same number violates uq_research_run_steps_run_number.    *)
NumberIsFree(n) == n = Len(steps) + 1

NewStep(tool) == [tool |-> tool, status |-> "running", evidence |-> 0]

FinishStep(n, status, ev) ==
  steps' = [steps EXCEPT ![n].status = status, ![n].evidence = ev]

AppendEvidence(tool, located) ==
  evidence' = Append(evidence, [tool |-> tool, located |-> located, promoted |-> FALSE])

CountToolSteps == Cardinality({i \in DOMAIN steps : steps[i].tool # "none"})

Promoted == {i \in DOMAIN evidence : evidence[i].promoted}

(* _turns_from: what the planner is shown of the first n steps.            *)
TurnsFrom(n) == {i \in 1..n : steps[i].tool # "none"}

FaultsLeft == researchUsed.expiries + researchUsed.failures < MaxFaults

HasOpenJob == \E k \in Keys : OpenJob(k)

SettledJob(k) == [orchestrator EXCEPT ![k] = Unclaimed("settled")]

(* recover_expired: queued for another attempt, or failed after the last.  *)
ReapedJob(k) == {[orchestrator EXCEPT ![k] = Unclaimed("queued")], SettledJob(k)}

-----------------------------------------------------------------------------
(* SourceDiscoveryPlanner and _fetched_evidence: search, fetch, import,    *)
(* finish, decided from the turns alone.  A search that found no address   *)
(* ends the run.                                                           *)

Fetched(turns) == {i \in turns : steps[i].tool = "fetch" /\ steps[i].status = "succeeded"}

LastOf(S) == {i \in S : \A j \in S : j <= i}

ImportSucceeded(turns) ==                                 \* mutated form
  \E i \in turns : steps[i].tool = "import" /\ steps[i].status = "succeeded"
ImportTried(turns) == \E i \in turns : steps[i].tool = "import"

DiscoveryProposals(turns) ==
  IF \A i \in turns : steps[i].tool # "search"
  THEN {[tool |-> "search", target |-> 0]}
  ELSE IF Fetched(turns) = {}
  THEN {[tool |-> "finish", target |-> 0]}
       \cup (IF \E i \in turns : steps[i].tool = "search" /\ steps[i].status = "succeeded"
             THEN {[tool |-> "fetch", target |-> 0]} ELSE {})
  ELSE IF "import" \notin run.config.tools \/ ImportTried(turns)
  THEN {[tool |-> "finish", target |-> 0]}
  ELSE {[tool |-> "import", target |-> steps[i].evidence] : i \in LastOf(Fetched(turns))}

(* Any planner: next_action promises nothing.  "malformed" is what         *)
(* parse_action refuses: another tool, or other arguments.                 *)
AnyProposals ==
  [tool : AnyTools, target : {0}] \cup [tool : {"import"}, target : DOMAIN evidence]

Proposals(turns) ==
  IF run.config.planner = "any" THEN AnyProposals ELSE DiscoveryProposals(turns)

(* browser_automation_denial: approval of browser.open, or a static fetch  *)
(* that failed before.                                                     *)
AutomationAfterFetch ==                                   \* mutated form
  "browser" \notin run.config.approved /\ \A i \in DOMAIN steps : steps[i].tool # "fetch"
AutomationDenied ==
  /\ "browser" \notin run.config.approved
  /\ \A i \in DOMAIN steps : ~(steps[i].tool = "fetch" /\ steps[i].status = "failed")

-----------------------------------------------------------------------------
(* POST /research-runs.                                                    *)

CreateRun ==
  /\ run.status = "absent"
  /\ \E c \in Configs :
       /\ AdmissibleConfig(c)
       /\ run' = [NoRun EXCEPT !.status = "created", !.config = c]
  /\ UNCHANGED <<steps, evidence, orchestrator, exec, control, imported, stranded, researchUsed>>

(* The control routes read the row; a move the table does not have is      *)
(* answered 409 at once.                                                   *)
TargetOf(op) ==
  CASE op \in {"start", "resume"} -> "running"
    [] op = "pause"               -> "paused"
    [] op = "cancel"              -> "cancelled"

ReadRun(c) ==
  /\ control[c].pc = "idle" /\ run.status # "absent"
  /\ researchUsed.controls < MaxControls
  /\ researchUsed' = [researchUsed EXCEPT !.controls = @ + 1]
  /\ \E op \in {"start", "pause", "resume", "cancel"} :
       /\ RunTransitionAllowed(run.status, TargetOf(op))
       /\ control' = [control EXCEPT ![c] =
            [pc |-> IF op \in {"start", "resume"} THEN "enqueue" ELSE "cas",
             op |-> op, status |-> run.status, key |-> run.revision]]
  /\ UNCHANGED <<run, steps, evidence, orchestrator, exec, imported, stranded>>

(* _enqueue_execution: the key is the revision that was read, so a second  *)
(* request gets the job of the first, whatever became of it.               *)
KeyOfRun(key) == 0                                        \* mutated form
KeyOf(key) == key

EnqueueExecution(c) ==
  /\ control[c].pc = "enqueue"
  /\ LET k == KeyOf(control[c].key) IN
       orchestrator' = IF orchestrator[k].state = "none"
                       THEN [orchestrator EXCEPT ![k] = Unclaimed("queued")]
                       ELSE orchestrator
  /\ control' = [control EXCEPT ![c].pc = "cas"]
  /\ UNCHANGED <<run, steps, evidence, exec, imported, stranded, researchUsed>>

ExpectedStatus(c) ==
  CASE control[c].op = "start"  -> "created"
    [] control[c].op = "pause"  -> "running"
    [] control[c].op = "resume" -> "paused"
    [] control[c].op = "cancel" -> control[c].status

(* StartResearchRun, PauseResearchRun, ResumeResearchRun: a lost           *)
(* compare-and-swap is answered 409 and leaves the job it enqueued.        *)
ChangeStatus(c) ==
  /\ control[c].pc = "cas" /\ control[c].op # "cancel"
  /\ CasStatus(ExpectedStatus(c), TargetOf(control[c].op), run.candidates)
  /\ control' = [control EXCEPT ![c] = IdleControl]
  /\ stranded' = IF control[c].op # "pause" /\ run.revision # control[c].key
                 THEN stranded \cup {"moved"} ELSE stranded
  /\ UNCHANGED <<steps, evidence, orchestrator, exec, imported, researchUsed>>

(* CancelResearchRun: first the row, then its job.                         *)
CancelRun(c) ==
  /\ control[c].pc = "cas" /\ control[c].op = "cancel"
  /\ CasStatus(control[c].status, "cancelled", run.candidates)
  /\ control' = [control EXCEPT ![c] =
       IF run.status = control[c].status THEN [@ EXCEPT !.pc = "cancel_job"] ELSE IdleControl]
  /\ UNCHANGED <<steps, evidence, orchestrator, exec, imported, stranded, researchUsed>>

(* _cancel_execution: the oldest job of the run that a worker holds.       *)
CancelExecution(c) ==
  /\ control[c].pc = "cancel_job"
  /\ LET held == {k \in Keys : orchestrator[k].state = "claimed"} IN
       \/ held = {} /\ UNCHANGED orchestrator
       \/ \E k \in held : (\A l \in held : k <= l) /\ orchestrator' = SettledJob(k)
  /\ control' = [control EXCEPT ![c] = IdleControl]
  /\ UNCHANGED <<run, steps, evidence, exec, imported, stranded, researchUsed>>

(* The API process dies inside a request.                                  *)
RequestDies(c) ==
  /\ control[c].pc # "idle" /\ FaultsLeft
  /\ researchUsed' = [researchUsed EXCEPT !.failures = @ + 1]
  /\ control' = [control EXCEPT ![c] = IdleControl]
  /\ stranded' = IF control[c].pc = "cas" /\ control[c].op \in {"start", "resume"}
                 THEN stranded \cup {"reused"} ELSE stranded
  /\ UNCHANGED <<run, steps, evidence, orchestrator, exec, imported>>

-----------------------------------------------------------------------------
(* The worker: claim, ResearchRunHandler.run, ResearchRunExecutor.execute. *)

Goto_(e, at) == exec' = [exec EXCEPT ![e].pc = at]

(* The handler is left, and with it its locals.                            *)
LeaveHandler(e, at) ==
  exec' = [exec EXCEPT ![e] = [IdleExec EXCEPT !.pc = at, !.key = exec[e].key, !.lost = exec[e].lost]]

(* The claim's statement counts the jobs of the user that are in flight,   *)
(* one is allowed (ClassBudget(2, 1)), and looks for a queued one, on its  *)
(* snapshot.                                                               *)
BeginClaim(e) ==
  /\ exec[e].pc = "idle"
  /\ \A k \in Keys : orchestrator[k].state # "claimed"
  /\ \E k \in Keys :
       /\ orchestrator[k].state = "queued"
       /\ exec' = [exec EXCEPT ![e] = [IdleExec EXCEPT !.pc = "claim", !.key = k]]
  /\ UNCHANGED <<run, steps, evidence, orchestrator, control, imported, stranded, researchUsed>>

(* The row is locked and is taken if it is still queued; nothing counts    *)
(* again, so another worker may have claimed another job of the run.       *)
ClaimExecution(e) ==
  /\ exec[e].pc = "claim"
  /\ IF orchestrator[exec[e].key].state = "queued"
     THEN /\ orchestrator' = [orchestrator EXCEPT ![exec[e].key] =
                                [state |-> "claimed", owner |-> e]]
          /\ Goto_(e, "dispatch")
          /\ researchUsed' = IF \E k \in Keys : orchestrator[k].state = "claimed"
                             THEN [researchUsed EXCEPT !.overlaps = @ + 1] ELSE researchUsed
     ELSE /\ exec' = [exec EXCEPT ![e] = IdleExec]
          /\ UNCHANGED <<orchestrator, researchUsed>>
  /\ UNCHANGED <<run, steps, evidence, control, imported, stranded>>

(* The lease runs out during an await.                                     *)
LeaseRunsOut(k) ==
  /\ orchestrator[k].state = "claimed" /\ FaultsLeft
  /\ researchUsed' = [researchUsed EXCEPT !.expiries = @ + 1]
  /\ orchestrator' \in ReapedJob(k)
  /\ stranded' = stranded \cup {"expired"}
  /\ UNCHANGED <<run, steps, evidence, exec, control, imported>>

(* POST /jobs/{id}/cancel, by the owner of the run: the job's row alone.   *)
CancelJob(k) ==
  /\ OpenJob(k) /\ researchUsed.controls < MaxControls
  /\ researchUsed' = [researchUsed EXCEPT !.controls = @ + 1,
       !.cancels = IF orchestrator[k].state = "claimed" THEN @ + 1 ELSE @]
  /\ orchestrator' = SettledJob(k)
  /\ stranded' = stranded \cup {"job_cancelled"}
  /\ UNCHANGED <<run, steps, evidence, exec, control, imported>>

(* progress and checkpoint: record_progress finds that the job is not this *)
(* worker's any more.                                                      *)
LostAfterReport(e) ==
  \/ exec[e].lost
  \/ orchestrator[exec[e].key] # [state |-> "claimed", owner |-> e]

(* _execute: the job is cancelled when its user may not run it any more,   *)
(* whoever has it by now; else it is set running, unless it has moved.     *)
DispatchExecution(e) ==
  /\ exec[e].pc = "dispatch"
  /\ \/ /\ IF orchestrator[exec[e].key] = [state |-> "claimed", owner |-> e]
          THEN Goto_(e, "enter") ELSE exec' = [exec EXCEPT ![e] = IdleExec]
        /\ UNCHANGED <<orchestrator, stranded, researchUsed>>
     \/ /\ FaultsLeft
        /\ researchUsed' = [researchUsed EXCEPT !.failures = @ + 1]
        /\ orchestrator' = IF OpenJob(exec[e].key) THEN SettledJob(exec[e].key) ELSE orchestrator
        /\ exec' = [exec EXCEPT ![e] = IdleExec]
        /\ stranded' = stranded \cup {"revoked"}
  /\ UNCHANGED <<run, steps, evidence, control, imported>>

(* execute, before the loop: the frozen configuration and the tool steps   *)
(* of earlier deliveries.  A run that is not running is left alone, and    *)
(* one without a planner for its mode fails.                               *)
EnterRun(e) ==
  /\ exec[e].pc = "enter"
  /\ IF run.status # "running" THEN LeaveHandler(e, "publish")
     ELSE exec' = [exec EXCEPT ![e].calls = CountToolSteps,
                               ![e].pc = IF run.config.planner = "none" THEN "fail" ELSE "boundary"]
  /\ stranded' = IF run.status \in {"created", "paused"} THEN stranded \cup {"early"}
                 ELSE stranded
  /\ UNCHANGED <<run, steps, evidence, orchestrator, control, imported, researchUsed>>

(* The step boundary: status, should_stop, step budget, the turns.         *)
BoundaryStops(e) == run.status # "running" \/ exec[e].lost

StepBudgetLate(n) == n > run.config.steps                 \* mutated form
StepBudgetSpent(n) == n >= run.config.steps

Boundary(e) ==
  /\ exec[e].pc = "boundary"
  /\ IF BoundaryStops(e) THEN LeaveHandler(e, "publish")
     ELSE IF StepBudgetSpent(Len(steps)) THEN Goto_(e, "fail")
     ELSE \E p \in Proposals(TurnsFrom(Len(steps))) :
            exec' = [exec EXCEPT ![e].pc = "plan", ![e].n = Len(steps) + 1,
                                 ![e].proposal = p]
  /\ UNCHANGED <<run, steps, evidence, orchestrator, control, imported, stranded, researchUsed>>

(* _begin_step: the insert fails when another executor took the number,    *)
(* and the exception leaves the handler.                                   *)
BeginStep(e, tool, next) ==
  IF NumberIsFree(exec[e].n)
  THEN /\ steps' = Append(steps, NewStep(tool))
       /\ exec' = [exec EXCEPT ![e].pc = next, ![e].step = exec[e].n,
                               ![e].lost = LostAfterReport(e)]
  ELSE /\ steps' = steps
       /\ LeaveHandler(e, "raise")

BeginPlan(e) ==
  /\ exec[e].pc = "plan"
  /\ BeginStep(e, "none", "decide")
  /\ UNCHANGED <<run, evidence, orchestrator, control, imported, stranded, researchUsed>>

(* The decision on the planner's proposal, from the frozen configuration:  *)
(* what is malformed or denied costs a turn, the same denial twice in a    *)
(* row ends the run, and so do the budgets.                                *)
DenyAgain(e, why) ==
  LET this == <<exec[e].proposal.tool, why>> IN
    IF exec[e].denied = this THEN Goto_(e, "fail")
    ELSE exec' = [exec EXCEPT ![e].pc = "boundary", ![e].denied = this]

CallBudgetSpent(e) == exec[e].calls >= run.config.calls

ImportBudgetIgnored(tool) == FALSE                        \* mutated form
ImportBudgetSpent(tool) == tool = "import" /\ Cardinality(Promoted) >= run.config.imports

Decide(e) ==
  /\ exec[e].pc = "decide"
  /\ LET tool == exec[e].proposal.tool
         why  == Denial(run.config, tool)
     IN \/ /\ tool = "malformed"
           /\ FinishStep(exec[e].step, "failed", 0)
           /\ exec' = [exec EXCEPT ![e].pc = "boundary", ![e].denied = <<"none", "none">>]
        \/ /\ tool # "malformed"
           /\ FinishStep(exec[e].step, "succeeded", 0)
           /\ \/ /\ tool = "finish"
                 /\ exec' = [exec EXCEPT ![e].pc = "succeed", ![e].promoted = Promoted]
              \/ tool # "finish" /\ why # "none" /\ DenyAgain(e, why)
              \/ /\ tool # "finish" /\ why = "none"
                 /\ IF CallBudgetSpent(e) \/ ImportBudgetSpent(tool) THEN Goto_(e, "fail")
                    ELSE exec' = [exec EXCEPT ![e].pc = "number", ![e].calls = @ + 1,
                                              ![e].denied = <<"none", "none">>,
                                              ![e].lost = LostAfterReport(e)]
  /\ UNCHANGED <<run, evidence, orchestrator, control, imported, stranded, researchUsed>>

(* _dispatch: the number of the tool's step, then the step.                *)
NumberTool(e) ==
  /\ exec[e].pc = "number"
  /\ exec' = [exec EXCEPT ![e].pc = "begin_tool", ![e].n = Len(steps) + 1]
  /\ UNCHANGED <<run, steps, evidence, orchestrator, control, imported, stranded, researchUsed>>

BeginTool(e) ==
  /\ exec[e].pc = "begin_tool"
  /\ BeginStep(e, exec[e].proposal.tool,
               IF exec[e].proposal.tool = "import" THEN "import" ELSE "tool")
  /\ UNCHANGED <<run, evidence, orchestrator, control, imported, stranded, researchUsed>>

(* After a tool: checkpoint, which is also a report.                       *)
BackToBoundary(e) ==
  exec' = [exec EXCEPT ![e].pc = "boundary", ![e].lost = LostAfterReport(e)]

(* Every tool but import: evidence and the step that names it, or the      *)
(* recorded failure.  A refused browser leaves evidence too, a denied      *)
(* browser.open only the failed step.                                      *)
CallTool(e) ==
  /\ exec[e].pc = "tool"
  /\ LET tool   == exec[e].proposal.tool
         next   == Len(evidence) + 1
         denied == tool = "browser" /\ AutomationDenied
     IN \/ /\ ~denied
           /\ AppendEvidence(tool, tool \notin {"search", "retrieve"})
           /\ FinishStep(exec[e].step, "succeeded", next)
        \/ /\ ~denied /\ tool \in BrowserTools
           /\ AppendEvidence(tool, FALSE)
           /\ FinishStep(exec[e].step, "failed", next)
        \/ /\ denied \/ tool \notin BrowserTools
           /\ FinishStep(exec[e].step, "failed", 0)
           /\ UNCHANGED evidence
  /\ BackToBoundary(e)
  /\ UNCHANGED <<run, orchestrator, control, imported, stranded, researchUsed>>

(* source.import: the target must be evidence of this run with an origin;  *)
(* AcquireWebSource fetches it again and acquires it, in transactions of   *)
(* its own.                                                                *)
ImportFetched(e) ==
  /\ exec[e].pc = "import"
  /\ LET target == exec[e].proposal.target IN
       IF target \in DOMAIN evidence /\ evidence[target].located
       THEN /\ imported' = imported + 1
            /\ Goto_(e, "promote")
            /\ UNCHANGED steps
       ELSE /\ FinishStep(exec[e].step, "failed", 0)
            /\ BackToBoundary(e)
            /\ UNCHANGED imported
  /\ UNCHANGED <<run, evidence, orchestrator, control, stranded, researchUsed>>

ImportRefused(e) ==
  /\ exec[e].pc = "import"
  /\ FinishStep(exec[e].step, "failed", 0)
  /\ BackToBoundary(e)
  /\ UNCHANGED <<run, evidence, orchestrator, control, imported, stranded, researchUsed>>

(* mark_promoted links the evidence once; a second link is not an error.   *)
MarkPromoted(e) ==
  /\ exec[e].pc = "promote"
  /\ evidence' = [evidence EXCEPT ![exec[e].proposal.target].promoted = TRUE]
  /\ FinishStep(exec[e].step, "succeeded", 0)
  /\ BackToBoundary(e)
  /\ UNCHANGED <<run, orchestrator, control, imported, stranded, researchUsed>>

(* _succeed and _fail: one compare-and-swap, whose loss goes unnoticed.    *)
SucceedRun(e) ==
  /\ exec[e].pc = "succeed"
  /\ CasStatus("running", "succeeded", exec[e].promoted)
  /\ LeaveHandler(e, "publish")
  /\ UNCHANGED <<steps, evidence, orchestrator, control, imported, stranded, researchUsed>>

FailRun(e) ==
  /\ exec[e].pc = "fail"
  /\ CasStatus("running", "failed", run.candidates)
  /\ LeaveHandler(e, "publish")
  /\ UNCHANGED <<steps, evidence, orchestrator, control, imported, stranded, researchUsed>>

(* An exception of the planner or the database leaves the handler.         *)
HandlerRaises(e) ==
  /\ exec[e].pc \notin {"idle", "claim", "dispatch", "publish", "raise"} /\ FaultsLeft
  /\ researchUsed' = [researchUsed EXCEPT !.failures = @ + 1]
  /\ LeaveHandler(e, "raise")
  /\ UNCHANGED <<run, steps, evidence, orchestrator, control, imported, stranded>>

(* _publish_result and the except branch of _execute: the job is settled   *)
(* whoever holds it.  The result is refused, and the worker ends, when the *)
(* job is queued again or its new holder has not set it running yet; a     *)
(* user who lost the right to it has even the queued job cancelled.        *)
PublishExecution(e) ==
  /\ exec[e].pc \in {"publish", "raise"}
  /\ \/ /\ orchestrator[exec[e].key].state = "claimed"
        /\ orchestrator' = SettledJob(exec[e].key)
     \/ /\ exec[e].pc = "publish" /\ orchestrator[exec[e].key].state = "queued"
        /\ orchestrator' = SettledJob(exec[e].key)
     \/ /\ orchestrator[exec[e].key] # [state |-> "claimed", owner |-> e]
        /\ UNCHANGED orchestrator
  /\ exec' = [exec EXCEPT ![e] = IdleExec]
  /\ stranded' = IF exec[e].pc = "raise" THEN stranded \cup {"raised"} ELSE stranded
  /\ UNCHANGED <<run, steps, evidence, control, imported, researchUsed>>

(* The worker dies; the lease of the job it was handed runs out.           *)
ExecutorDies(e) ==
  /\ exec[e].pc # "idle" /\ FaultsLeft
  /\ researchUsed' = [researchUsed EXCEPT !.failures = @ + 1]
  /\ exec' = [exec EXCEPT ![e] = IdleExec]
  /\ IF exec[e].pc # "claim" /\ orchestrator[exec[e].key] = [state |-> "claimed", owner |-> e]
     THEN /\ orchestrator' \in ReapedJob(exec[e].key)
          /\ stranded' = IF orchestrator' = SettledJob(exec[e].key)
                         THEN stranded \cup {"exhausted"} ELSE stranded
     ELSE UNCHANGED <<orchestrator, stranded>>
  /\ UNCHANGED <<run, steps, evidence, control, imported>>

-----------------------------------------------------------------------------
(* The specification.                                                      *)

ResearchInit ==
  /\ run = NoRun /\ steps = <<>> /\ evidence = <<>>
  /\ orchestrator = [k \in Keys |-> Unclaimed("none")]
  /\ exec = [e \in Executors |-> IdleExec]
  /\ control = [c \in Controllers |-> IdleControl]
  /\ imported = 0 /\ stranded = {}
  /\ researchUsed = [controls |-> 0, cancels |-> 0, expiries |-> 0, overlaps |-> 0, failures |-> 0]

ExecutorStep(e) ==
  \/ BeginClaim(e) \/ ClaimExecution(e) \/ DispatchExecution(e) \/ EnterRun(e) \/ Boundary(e)
  \/ BeginPlan(e) \/ Decide(e) \/ NumberTool(e) \/ BeginTool(e) \/ CallTool(e)
  \/ ImportFetched(e) \/ ImportRefused(e) \/ MarkPromoted(e) \/ SucceedRun(e) \/ FailRun(e) \/ PublishExecution(e)

ControlStep(c) ==
  EnqueueExecution(c) \/ ChangeStatus(c) \/ CancelRun(c) \/ CancelExecution(c)

ResearchNext ==
  \/ CreateRun
  \/ \E c \in Controllers : ReadRun(c) \/ ControlStep(c) \/ RequestDies(c)
  \/ \E e \in Executors : ExecutorStep(e) \/ HandlerRaises(e) \/ ExecutorDies(e)
  \/ \E k \in Keys : LeaseRunsOut(k) \/ CancelJob(k)

(* Requests that were begun and workers go on unless they die.             *)
ResearchSpec ==
  /\ ResearchInit /\ [][ResearchNext]_researchVars
  /\ \A e \in Executors : WF_researchVars(ExecutorStep(e))
  /\ \A c \in Controllers : WF_researchVars(ControlStep(c))

-----------------------------------------------------------------------------
(* Properties.                                                             *)

(* Types of the run, its steps and evidence, and of what executors hold.   *)
ResearchTypeOK ==
  /\ run.status \in RunStatuses \cup {"absent"} /\ run.revision \in Nat
  /\ \A i \in DOMAIN steps : /\ steps[i].status \in {"running", "succeeded", "failed"}
                             /\ steps[i].evidence \in {0} \cup DOMAIN evidence
  /\ \A k \in Keys : orchestrator[k].state \in {"none", "queued", "claimed", "settled"}
  /\ \A e \in Executors : exec[e].step \in 0..Len(steps)
  /\ imported \in Nat

(* A run that ended stays as it ended, against every executor and request  *)
(* that still acts on what it read before (research.py: "every later       *)
(* transition is a compare-and-swap against the stored status").           *)
EndedRunIsFinal ==
  [][run.status \in EndedRunStates => run' = run]_run

(* A running run has a job that is queued or held, so that someone drives  *)
(* it on.  The cases in which the code leaves it without one are named in  *)
(* stranded: a job that was entered before the request set the status      *)
(* (early), a request that died after the enqueue (reused), a lease that   *)
(* ran out under a live executor (expired), a request that enqueued for    *)
(* the revision it read and whose compare-and-swap, which compares the     *)
(* status alone, goes through on a later one (moved), and what ends a job  *)
(* without its run: its own cancellation by the owner (job_cancelled) or   *)
(* at dispatch (revoked), its last attempt (exhausted) and an exception in *)
(* the handler (raised).                                                   *)
RunningIsDriven ==
  run.status = "running" /\ stranded = {} => HasOpenJob

(* Times an executor came to work beside another: its lease ran out or its *)
(* job was cancelled under it, or its claim overlapped another's.          *)
Beside == researchUsed.expiries + researchUsed.cancels + researchUsed.overlaps

(* The ledger exceeds the step budget by the tool step of the last turn,   *)
(* and by one more for each executor that came to work beside another      *)
(* (executors of one run take their step numbers from one table).          *)
StepOvershootBounded ==
  Len(steps) <= run.config.steps + 1 + Beside

(* No more evidence is promoted than the import budget allows, but for the *)
(* executors beside the one: each counts before it imports.                *)
PromotionsBounded ==
  Cardinality(Promoted) <= run.config.imports + Beside

(* A side effect happens only in a run whose owner approved it when it was *)
(* created (research_executor.py: "model output can never grant            *)
(* capability"), and a page is opened only with approval or after a static *)
(* fetch of this run failed.                                               *)
SideEffectsApproved ==
  /\ imported > 0 => "import" \in run.config.approved
  /\ \A i \in DOMAIN evidence : evidence[i].tool = "browser" =>
       \/ "browser" \in run.config.approved
       \/ \E j \in DOMAIN steps : steps[j].tool = "fetch" /\ steps[j].status = "failed"

(* The discovery program imports one source, whatever crashes, pauses and  *)
(* resumptions lie between the import and the step that records it         *)
(* (domain/research.py: "re-enters running without re-running completed    *)
(* side effects"), but for the executors beside the one.                   *)
ImportedOnce ==
  run.config.planner = "discovery" => imported <= 1 + Beside

(* What a run may do, and never again once it has ended.                   *)
ResearchRights == []SideEffectsApproved /\ EndedRunIsFinal

(* What a run may use, whoever executes it; the types come with it.        *)
BudgetsKept == ResearchTypeOK /\ StepOvershootBounded /\ PromotionsBounded /\ ImportedOnce

(* A running run leaves that state, by its end or by a pause, unless it is *)
(* stranded.                                                               *)
Driven == run.status = "running" /\ stranded = {}

RunningIsLeft == Driven ~> ~Driven
=============================================================================
