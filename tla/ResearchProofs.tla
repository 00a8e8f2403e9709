---------------------------- MODULE ResearchProofs ----------------------------
(***************************************************************************)
(* What a research run may do, what it may use, and that a running run is  *)
(* driven on: proved for any number of executors, requests, faults and     *)
(* configurations, and for any planner.                                    *)
(*                                                                         *)
(* RunInv is the invariant of the row, its requests and its ledger; the    *)
(* rights of a run follow from it.  Driving says of a run that is open and *)
(* not stranded that every executor at work holds the job it works under,  *)
(* that jobs are entered behind the revision they are the key of, and that *)
(* the job of the last start is open: so a running run is driven.  Counts  *)
(* bounds the executors at work by the jobs that are held and those that   *)
(* were lost, and what each of them can still use up: so the budgets are   *)
(* kept.                                                                   *)
(***************************************************************************)
EXTENDS ResearchRun, FiniteSetTheorems, SequenceTheorems, TLAPS

-----------------------------------------------------------------------------
(* The types of the store and of what executors and requests hold.         *)

ProposalTools == AnyTools \cup Tools \cup {"finish", "none", "malformed"}
Reasons == {"none", "surface", "not_enabled", "not_approved"}

RunRows == [status : RunStatuses \cup {"absent"}, revision : Nat, config : Configs,
            candidates : SUBSET Nat]
StepRows == [tool : ProposalTools, status : {"running", "succeeded", "failed"}, evidence : Nat]
EvidenceRows == [tool : ProposalTools, located : BOOLEAN, promoted : BOOLEAN]
JobRows == [state : {"none", "queued", "claimed", "settled"}, owner : Executors \cup {"none"}]
ExecPlaces == {"idle", "claim", "dispatch", "enter", "boundary", "plan", "decide", "number", "begin_tool", "tool",
               "import", "promote", "succeed", "fail", "publish", "raise"}
Strandings == {"early", "reused", "expired", "moved", "job_cancelled", "revoked", "exhausted", "raised"}
Used == [controls : Nat, cancels : Nat, expiries : Nat, overlaps : Nat, failures : Nat]
ExecRows == [pc : ExecPlaces, key : Keys, lost : BOOLEAN, n : Nat, calls : Nat, step : Nat,
             proposal : [tool : ProposalTools, target : Nat],
             denied : ProposalTools \X Reasons, promoted : SUBSET Nat]
ControlRows == [pc : {"idle", "enqueue", "cas", "cancel_job"},
                op : {"none", "start", "pause", "resume", "cancel"},
                status : RunStatuses \cup {"none"}, key : Keys]

Types ==
  /\ run \in RunRows
  /\ steps \in Seq(StepRows) /\ evidence \in Seq(EvidenceRows)
  /\ orchestrator \in [Keys -> JobRows]
  /\ exec \in [Executors -> ExecRows]
  /\ control \in [Controllers -> ControlRows]
  /\ imported \in Nat
  /\ stranded \subseteq Strandings
  /\ researchUsed \in Used

(* Steps name evidence that is there, and executors steps that are.        *)
Refs ==
  /\ \A i \in 1..Len(steps) : steps[i].evidence <= Len(evidence)
  /\ \A e \in Executors : exec[e].step <= Len(steps)

(* Before the run is created nobody acts on it.                            *)
Fresh ==
  run.status = "absent" =>
    /\ \A c \in Controllers : control[c].pc = "idle"
    /\ \A e \in Executors : exec[e].pc = "idle"
    /\ \A k \in Keys : orchestrator[k].state = "none"
    /\ run.revision = 0 /\ steps = <<>> /\ evidence = <<>> /\ imported = 0

(* A run that has not ended, and one that waits to be started or resumed.  *)
Open == run.status \in {"created", "running", "paused"}
Waits == run.status \in {"created", "paused"}

(* A job is enqueued for a revision the row has, or for the present one    *)
(* while the run waits: no job is enqueued for a revision to come.         *)
Behind(k) == k < run.revision \/ (k = run.revision /\ Waits)

KeysBehind == \A k \in Keys : orchestrator[k].state # "none" => Behind(k)

(* What the requests in progress read, and what they did before.           *)
Requests ==
  \A c \in Controllers :
    /\ control[c].pc # "idle" => control[c].op # "none"
    /\ control[c].pc = "enqueue" => control[c].op \in {"start", "resume"}
    /\ control[c].pc \in {"enqueue", "cas"} /\ control[c].op \in {"start", "resume"} => Behind(control[c].key)
    /\ control[c].pc = "cas" /\ control[c].op \in {"start", "resume"} => orchestrator[control[c].key].state # "none"
    /\ control[c].pc = "cas" /\ control[c].op = "cancel" => control[c].status \in {"created", "running", "paused"}
    /\ control[c].pc = "cancel_job" => run.status = "cancelled"

(* Every revision of an open run was paid for by a request, so the keys    *)
(* suffice.                                                                *)
InFlight == {c \in Controllers : control[c].pc \in {"enqueue", "cas"}}
Revisions ==
  /\ researchUsed.controls <= MaxControls
  /\ Open => run.revision + Cardinality(InFlight) <= researchUsed.controls

(* An executor that has a step open is the only one that has this step,    *)
(* and nobody has finished it.                                             *)
Holds(e) == exec[e].pc \in {"decide", "tool", "import", "promote"}
StepsHeld ==
  \A e \in Executors : Holds(e) =>
    /\ exec[e].step \in 1..Len(steps)
    /\ steps[exec[e].step].status = "running"
    /\ \A f \in Executors \ {e} : Holds(f) => exec[f].step # exec[e].step

(* An executor acts on what the frozen configuration does not deny.        *)
Acting(e) == exec[e].pc \in {"number", "begin_tool", "tool", "import", "promote"}
Allowed ==
  \A e \in Executors :
    /\ Acting(e) => Denial(run.config, exec[e].proposal.tool) = "none"
    /\ exec[e].pc = "tool" => exec[e].proposal.tool # "import"
    /\ exec[e].pc \in {"import", "promote"} =>
         /\ exec[e].proposal.tool = "import"
         /\ steps[exec[e].step].tool = "import"
    /\ exec[e].pc = "promote" => exec[e].proposal.target \in 1..Len(evidence)

(* The jobs of the run that are held.                                      *)
Claimed == {k \in Keys : orchestrator[k].state = "claimed"}

(* Executors that were handed a job, and those that read the row under it. *)
Handed(e) == exec[e].pc \notin {"idle", "claim"}
Entered(e) == exec[e].pc \notin {"idle", "claim", "dispatch", "enter", "raise"}

(* Whoever was handed a job of an open run that is not stranded holds it,  *)
(* and nobody was told otherwise.                                          *)
JobsHeld ==
  \A e \in Executors :
    /\ exec[e].pc # "idle" => exec[e].lost = FALSE
    /\ Handed(e) => orchestrator[exec[e].key] = [state |-> "claimed", owner |-> e]

(* A job is entered, or settled, only after the revision it is the key of. *)
JobsBehind ==
  /\ \A e \in Executors : Entered(e) => exec[e].key < run.revision
  /\ \A k \in Keys : orchestrator[k].state = "settled" => k < run.revision

(* The job of the last start or resumption is open, and nobody who has it  *)
(* is about to settle it.                                                  *)
LastJobOpen ==
  run.status = "running" =>
    /\ run.revision - 1 \in Keys
    /\ orchestrator[run.revision - 1].state \in {"queued", "claimed"}
    /\ \A e \in Executors : exec[e].key = run.revision - 1 => exec[e].pc # "publish"

Drive == JobsHeld /\ JobsBehind /\ LastJobOpen

Driving == stranded = {} /\ Open => Drive

(* Executors by what they can still use up: any, a step, the tool step of  *)
(* the turn, an import to promote, an import to make.                      *)
Active == {e \in Executors : exec[e].pc \notin {"idle", "claim"}}
Working == {e \in Executors : exec[e].pc \in {"boundary", "plan", "decide", "number", "begin_tool", "tool", "import", "promote"}}
Planned == {e \in Executors : exec[e].pc \in {"decide", "number", "begin_tool"}}
Importing == {e \in Executors : exec[e].pc \in {"number", "begin_tool", "import", "promote"} /\ exec[e].proposal.tool = "import"}
ToImport == {e \in Executors : /\ exec[e].pc \in {"plan", "decide", "number", "begin_tool", "import"}
                               /\ exec[e].proposal.tool = "import"}

(* Executors beyond those that hold a claimed job lost theirs, and one     *)
(* alone came to work without another beside it; none begins to work on a  *)
(* run that ended.                                                         *)
Lost == researchUsed.expiries + researchUsed.cancels
ActiveBound ==
  Open => /\ Cardinality(Active) <= Cardinality(Claimed) + Lost
          /\ Cardinality(Active) <= 1 + Beside

(* Each job that was lost or overlapped lets one more executor work,       *)
(* whatever became of the run.                                             *)
WorkingBound == Cardinality(Working) <= 1 + Beside

(* The number of a plan step is within the budget; a tool step comes on    *)
(* top.                                                                    *)
PlansInBudget == \A e \in Executors : exec[e].pc = "plan" => exec[e].n <= run.config.steps

StepsBound == Len(steps) + Cardinality(Planned) <= run.config.steps + 1 + Beside

(* Who imports has counted the promoted evidence before.                   *)
ImportingBound ==
  Cardinality(Promoted) + Cardinality(Importing) <= run.config.imports + Beside

(* An import is made under a step that is already in the ledger, which is  *)
(* what the discovery program looks for.                                   *)
ImportLeavesStep == imported > 0 => \E i \in 1..Len(steps) : steps[i].tool = "import"

ToImportBound ==
  run.config.planner = "discovery" => imported + Cardinality(ToImport) <= 1 + Beside

Counts ==
  /\ ActiveBound /\ WorkingBound /\ PlansInBudget /\ StepsBound
  /\ ImportingBound /\ ImportLeavesStep /\ ToImportBound

(* The configuration of a row that is not there is some configuration.     *)
LEMMA ConfigsChosen == (CHOOSE c \in Configs : TRUE) \in Configs
BY ResearchAssumption

(* What the compare-and-swap does to the row.                              *)
LEMMA CasEffect ==
  ASSUME Types, NEW expected, NEW st \in RunStatuses, NEW found \in SUBSET Nat,
         CasStatus(expected, st, found)
  PROVE  /\ run' \in RunRows /\ run'.config = run.config
         /\ run.status # expected => run' = run
         /\ run.status = expected =>
              /\ run'.status = st /\ run'.revision = run.revision + 1 /\ run'.candidates = found
<1>1. run \in RunRows
  BY DEF Types
<1>2. CASE run.status = expected
  <2>1. run' = [run EXCEPT !.status = st, !.revision = run.revision + 1, !.candidates = found]
    BY <1>2 DEF CasStatus
  <2>2. run.revision + 1 \in Nat
    BY <1>1 DEF RunRows
  <2> DEFINE next == run.revision + 1
  <2> HIDE DEF next
  <2>3. run' \in RunRows /\ run'.config = run.config /\ run'.status = st /\ run'.revision = run.revision + 1
        /\ run'.candidates = found
    BY <1>1, <2>1, <2>2 DEF RunRows
  <2> QED BY <2>3, <1>2
<1>3. CASE run.status # expected
  BY <1>1, <1>3 DEF CasStatus
<1> QED BY <1>2, <1>3

(* The types hold at first.                                                *)
LEMMA InitTypes == ResearchInit => Types
<1> SUFFICES ASSUME ResearchInit PROVE Types
  OBVIOUS
<1>1. run \in RunRows
  BY ConfigsChosen DEF ResearchInit, NoRun, RunRows
<1>2. steps \in Seq(StepRows) /\ evidence \in Seq(EvidenceRows)
  BY EmptySeq DEF ResearchInit
<1>3. orchestrator \in [Keys -> JobRows]
  BY DEF ResearchInit, Unclaimed, JobRows
<1>4. exec \in [Executors -> ExecRows]
  <2>1. 0 \in Keys
    BY ResearchAssumption DEF Keys
  <2> QED BY <2>1 DEF ResearchInit, IdleExec, ExecRows, ExecPlaces, ProposalTools, Reasons
<1>5. control \in [Controllers -> ControlRows]
  <2>1. 0 \in Keys
    BY ResearchAssumption DEF Keys
  <2> QED BY <2>1 DEF ResearchInit, IdleControl, ControlRows
<1> QED BY <1>1, <1>2, <1>3, <1>4, <1>5 DEF ResearchInit, Types, Used

(* What a step that touches one executor alone leaves of the others.       *)
At(e, at) ==
  /\ exec' \in [Executors -> ExecRows]
  /\ exec'[e].pc = at /\ exec'[e].key = exec[e].key
  /\ \A f \in Executors : f # e => exec'[f] = exec[f]

(* An executor that only moves on.                                         *)
LEMMA GotoAt ==
  ASSUME Types, NEW e \in Executors, NEW at \in ExecPlaces, Goto_(e, at)
  PROVE  /\ At(e, at)
         /\ exec'[e].lost = exec[e].lost /\ exec'[e].n = exec[e].n /\ exec'[e].calls = exec[e].calls
         /\ exec'[e].step = exec[e].step /\ exec'[e].proposal = exec[e].proposal
         /\ exec'[e].denied = exec[e].denied /\ exec'[e].promoted = exec[e].promoted
BY DEF Types, ExecRows, Goto_, At

(* An idle executor is an executor.                                        *)
LEMMA IdleIsExec == IdleExec \in ExecRows /\ IdleExec.pc = "idle" /\ IdleExec.key = 0
<1>1. 0 \in Keys
  BY ResearchAssumption DEF Keys
<1> QED BY <1>1 DEF IdleExec, ExecRows, ExecPlaces, ProposalTools, Reasons

(* An executor that leaves its handler.                                    *)
LEMMA LeaveAt ==
  ASSUME Types, NEW e \in Executors, NEW at \in ExecPlaces, LeaveHandler(e, at)
  PROVE  At(e, at) /\ exec'[e].lost = exec[e].lost /\ exec'[e].step = 0
<1> DEFINE row == [IdleExec EXCEPT !.pc = at, !.key = exec[e].key, !.lost = exec[e].lost]
<1>1. exec[e].key \in Keys /\ exec[e].lost \in BOOLEAN /\ exec \in [Executors -> ExecRows]
  BY DEF Types, ExecRows
<1>2. row \in ExecRows
  BY <1>1, IdleIsExec DEF ExecRows
<1>3. row.pc = at /\ row.key = exec[e].key /\ row.lost = exec[e].lost /\ row.step = 0
  BY DEF IdleExec
<1>4. exec' = [exec EXCEPT ![e] = row]
  BY DEF LeaveHandler
<1> HIDE DEF row
<1> QED BY <1>1, <1>2, <1>3, <1>4 DEF At

(* What a report finds is a Boolean.                                       *)
LEMMA LostIsBoolean ==
  ASSUME Types, NEW e \in Executors
  PROVE  LostAfterReport(e) \in BOOLEAN
BY DEF Types, ExecRows, LostAfterReport

(* An executor that goes back to the boundary.                             *)
LEMMA BoundaryAt ==
  ASSUME Types, NEW e \in Executors, BackToBoundary(e)
  PROVE  /\ At(e, "boundary")
         /\ exec'[e].lost = LostAfterReport(e) /\ exec'[e].n = exec[e].n /\ exec'[e].calls = exec[e].calls
         /\ exec'[e].step = exec[e].step /\ exec'[e].proposal = exec[e].proposal
<1>1. PICK lost \in BOOLEAN : lost = LostAfterReport(e)
  BY LostIsBoolean
<1>2. exec' = [exec EXCEPT ![e].pc = "boundary", ![e].lost = lost]
  BY <1>1 DEF BackToBoundary
<1>3. exec \in [Executors -> ExecRows]
  BY DEF Types
<1> DEFINE row == [exec[e] EXCEPT !.pc = "boundary", !.lost = lost]
<1>4. exec[e] \in ExecRows
  BY <1>3
<1>5. row \in ExecRows
  BY <1>4 DEF ExecRows, ExecPlaces
<1>6. row.pc = "boundary" /\ row.key = exec[e].key /\ row.n = exec[e].n /\ row.calls = exec[e].calls
      /\ row.step = exec[e].step /\ row.proposal = exec[e].proposal
  BY <1>4 DEF ExecRows
<1>7. row.lost = lost
  BY <1>4 DEF ExecRows
<1>8. exec' = [exec EXCEPT ![e] = row]
  BY <1>2, <1>4 DEF ExecRows
<1> HIDE DEF row
<1> QED BY <1>1, <1>3, <1>5, <1>6, <1>7, <1>8 DEF At

(* What finishing a step does to the ledger.                               *)
LEMMA FinishedStep ==
  ASSUME Types, NEW n \in 1..Len(steps), NEW s \in {"succeeded", "failed"}, NEW ev \in Nat, FinishStep(n, s, ev)
  PROVE  /\ steps' \in Seq(StepRows) /\ Len(steps') = Len(steps)
         /\ \A i \in 1..Len(steps) : i # n => steps'[i] = steps[i]
         /\ steps'[n].tool = steps[n].tool /\ steps'[n].status = s /\ steps'[n].evidence = ev
<1> DEFINE row == [steps[n] EXCEPT !.status = s, !.evidence = ev]
<1>1. steps[n] \in StepRows
  BY ElementOfSeq DEF Types
<1>2. row \in StepRows /\ row.tool = steps[n].tool /\ row.status = s /\ row.evidence = ev
  BY <1>1 DEF StepRows
<1>3. steps' = [steps EXCEPT ![n] = row]
  BY <1>1 DEF FinishStep, StepRows
<1> HIDE DEF row
<1> QED BY <1>2, <1>3, ExceptSeq DEF Types

(* What a new step does to the ledger.                                     *)
LEMMA AppendedStep ==
  ASSUME Types, NEW t \in ProposalTools, steps' = Append(steps, NewStep(t))
  PROVE  /\ steps' \in Seq(StepRows) /\ Len(steps') = Len(steps) + 1
         /\ \A i \in 1..Len(steps) : steps'[i] = steps[i]
         /\ steps'[Len(steps) + 1] = [tool |-> t, status |-> "running", evidence |-> 0]
<1>1. NewStep(t) \in StepRows
  BY DEF NewStep, StepRows
<1> QED BY <1>1, AppendProperties DEF Types, NewStep

(* What new evidence does to the evidence there is.                        *)
LEMMA AppendedEvidence ==
  ASSUME Types, NEW t \in ProposalTools, NEW l \in BOOLEAN, AppendEvidence(t, l)
  PROVE  /\ evidence' \in Seq(EvidenceRows) /\ Len(evidence') = Len(evidence) + 1
         /\ \A i \in 1..Len(evidence) : evidence'[i] = evidence[i]
         /\ evidence'[Len(evidence) + 1] = [tool |-> t, located |-> l, promoted |-> FALSE]
<1> DEFINE row == [tool |-> t, located |-> l, promoted |-> FALSE]
<1>1. row \in EvidenceRows
  BY DEF EvidenceRows
<1>2. evidence' = Append(evidence, row)
  BY DEF AppendEvidence
<1> HIDE DEF row
<1>3. /\ evidence' \in Seq(EvidenceRows) /\ Len(evidence') = Len(evidence) + 1
      /\ \A i \in 1..Len(evidence) : evidence'[i] = evidence[i]
      /\ evidence'[Len(evidence) + 1] = row
  BY <1>1, <1>2, AppendProperties DEF Types
<1> QED BY <1>3 DEF row

(* What BeginStep does: it takes the next number, or finds it taken.       *)
LEMMA BegunStep ==
  ASSUME Types, NEW e \in Executors, NEW t \in ProposalTools, NEW next \in ExecPlaces,
         BeginStep(e, t, next)
  PROVE  /\ steps' \in Seq(StepRows)
         /\ \A i \in 1..Len(steps) : steps'[i] = steps[i]
         /\ \/ /\ exec[e].n = Len(steps) + 1 /\ Len(steps') = Len(steps) + 1
               /\ exec'[e].proposal = exec[e].proposal /\ exec'[e].n = exec[e].n
               /\ steps'[Len(steps) + 1] = [tool |-> t, status |-> "running", evidence |-> 0]
               /\ At(e, next) /\ exec'[e].step = Len(steps) + 1 /\ exec'[e].lost = LostAfterReport(e)
            \/ /\ exec[e].n # Len(steps) + 1 /\ steps' = steps
               /\ At(e, "raise") /\ exec'[e].step = 0 /\ exec'[e].lost = exec[e].lost
<1>1. CASE NumberIsFree(exec[e].n)
  <2>1. steps' = Append(steps, NewStep(t))
    BY <1>1 DEF BeginStep
  <2>2. PICK lost \in BOOLEAN : lost = LostAfterReport(e)
    BY LostIsBoolean
  <2> DEFINE row == [exec[e] EXCEPT !.pc = next, !.step = exec[e].n, !.lost = lost]
  <2>3. exec \in [Executors -> ExecRows] /\ exec[e] \in ExecRows
    BY DEF Types
  <2>4. row \in ExecRows
    BY <2>3 DEF ExecRows
  <2>5. row.pc = next /\ row.key = exec[e].key /\ row.n = exec[e].n /\ row.step = exec[e].n
        /\ row.proposal = exec[e].proposal
    BY <2>3 DEF ExecRows
  <2>6. row.lost = lost
    BY <2>3 DEF ExecRows
  <2>7. exec' = [exec EXCEPT ![e].pc = next, ![e].step = exec[e].n, ![e].lost = lost]
    BY <1>1, <2>2 DEF BeginStep
  <2>8. exec' = [exec EXCEPT ![e] = row]
    BY <2>3, <2>7 DEF ExecRows
  <2> HIDE DEF row
  <2>9. At(e, next) /\ exec'[e].step = exec[e].n /\ exec'[e].lost = lost
        /\ exec'[e].proposal = exec[e].proposal /\ exec'[e].n = exec[e].n
    BY <2>3, <2>4, <2>5, <2>6, <2>8 DEF At
  <2> QED BY <2>1, <2>2, <2>9, <1>1, AppendedStep DEF NumberIsFree
<1>2. CASE ~NumberIsFree(exec[e].n)
  <2>1. steps' = steps /\ LeaveHandler(e, "raise")
    BY <1>2 DEF BeginStep
  <2>2. "raise" \in ExecPlaces
    BY DEF ExecPlaces
  <2> QED BY <2>1, <2>2, <1>2, LeaveAt DEF NumberIsFree, Types
<1> QED BY <1>1, <1>2

(* The steps that put another row in the place of an executor's.           *)
LEMMA ReplacedExec ==
  ASSUME Types, NEW e \in Executors, NEW row \in ExecRows, exec' = [exec EXCEPT ![e] = row]
  PROVE  /\ exec' \in [Executors -> ExecRows] /\ exec'[e] = row
         /\ \A f \in Executors : f # e => exec'[f] = exec[f]
BY DEF Types

(* Another row in the place of a request's.                                *)
LEMMA ReplacedControl ==
  ASSUME Types, NEW c \in Controllers, NEW row \in ControlRows, control' = [control EXCEPT ![c] = row]
  PROVE  /\ control' \in [Controllers -> ControlRows] /\ control'[c] = row
         /\ \A d \in Controllers : d # c => control'[d] = control[d]
BY DEF Types

(* Another row in the place of a job's.                                    *)
LEMMA ReplacedJob ==
  ASSUME Types, NEW k \in Keys, NEW row \in JobRows, orchestrator' = [orchestrator EXCEPT ![k] = row]
  PROVE  /\ orchestrator' \in [Keys -> JobRows] /\ orchestrator'[k] = row
         /\ \A l \in Keys : l # k => orchestrator'[l] = orchestrator[l]
BY DEF Types

(* A job nobody holds is a job.                                            *)
LEMMA JobRow ==
  ASSUME NEW s \in {"none", "queued", "claimed", "settled"}
  PROVE  Unclaimed(s) \in JobRows /\ Unclaimed(s).state = s
BY DEF Unclaimed, JobRows

(* An idle request is a request.                                           *)
LEMMA IdleControlIsControl == IdleControl \in ControlRows /\ IdleControl.pc = "idle" /\ IdleControl.op = "none"
<1>1. 0 \in Keys
  BY ResearchAssumption DEF Keys
<1> QED BY <1>1 DEF IdleControl, ControlRows

(* What Decide does: the step of the plan is finished, and the executor    *)
(* goes on by what was proposed.                                           *)
LEMMA DecideEffect ==
  ASSUME Types, NEW e \in Executors, Decide(e), exec[e].step \in 1..Len(steps)
  PROVE  /\ steps' \in Seq(StepRows) /\ Len(steps') = Len(steps)
         /\ \A i \in 1..Len(steps) : i # exec[e].step => steps'[i] = steps[i]
         /\ steps'[exec[e].step].tool = steps[exec[e].step].tool
         /\ steps'[exec[e].step].evidence = 0
         /\ exec'[e].step = exec[e].step /\ exec'[e].proposal = exec[e].proposal
         /\ exec'[e].n = exec[e].n
         /\ \/ \E at \in {"boundary", "fail", "succeed"} : At(e, at) /\ exec'[e].lost = exec[e].lost
            \/ /\ At(e, "number") /\ exec'[e].lost = LostAfterReport(e)
               /\ Denial(run.config, exec[e].proposal.tool) = "none"
               /\ exec[e].proposal.tool \notin {"malformed", "finish"}
               /\ ~ImportBudgetSpent(exec[e].proposal.tool)
<1> DEFINE n == exec[e].step
           tool == exec[e].proposal.tool
           why == Denial(run.config, tool)
<1>0. /\ exec \in [Executors -> ExecRows] /\ exec[e] \in ExecRows
      /\ tool \in ProposalTools /\ why \in Reasons
  BY DEF Types, ExecRows, Denial, Reasons
<1>1. \E s \in {"succeeded", "failed"} : FinishStep(n, s, 0)
  BY DEF Decide
<1>2. /\ steps' \in Seq(StepRows) /\ Len(steps') = Len(steps)
      /\ \A i \in 1..Len(steps) : i # n => steps'[i] = steps[i]
      /\ steps'[n].tool = steps[n].tool /\ steps'[n].evidence = 0
  BY <1>1, FinishedStep
<1> DEFINE Kept == exec'[e].step = n /\ exec'[e].proposal = exec[e].proposal /\ exec'[e].n = exec[e].n
           Stays(at) == At(e, at) /\ exec'[e].lost = exec[e].lost
<1>3. ASSUME NEW d \in ProposalTools \X Reasons,
             exec' = [exec EXCEPT ![e].pc = "boundary", ![e].denied = d]
      PROVE  Kept /\ Stays("boundary")
  BY <1>0, <1>3 DEF At, ExecRows, ExecPlaces
<1>4. ASSUME Goto_(e, "fail") PROVE Kept /\ Stays("fail")
  BY <1>4, GotoAt DEF ExecPlaces
<1>5. ASSUME exec' = [exec EXCEPT ![e].pc = "succeed", ![e].promoted = Promoted]
      PROVE  Kept /\ Stays("succeed")
  <2>1. Promoted \in SUBSET Nat
    BY LenProperties DEF Types, Promoted
  <2> QED BY <1>0, <1>5, <2>1 DEF At, ExecRows, ExecPlaces
<1>6. ASSUME exec' = [exec EXCEPT ![e].pc = "number", ![e].calls = @ + 1,
                                  ![e].denied = <<"none", "none">>, ![e].lost = LostAfterReport(e)]
      PROVE  Kept /\ At(e, "number") /\ exec'[e].lost = LostAfterReport(e)
  <2>1. PICK lost \in BOOLEAN : lost = LostAfterReport(e)
    BY LostIsBoolean
  <2>0. PICK calls \in Nat : calls = exec[e].calls + 1
    BY <1>0 DEF ExecRows
  <2>00. PICK d \in ProposalTools \X Reasons : d = <<"none", "none">>
    BY DEF ProposalTools, Reasons
  <2> DEFINE row == [exec[e] EXCEPT !.pc = "number", !.calls = calls, !.denied = d, !.lost = lost]
  <2>2. exec' = [exec EXCEPT ![e] = row]
    BY <1>0, <1>6, <2>0, <2>00, <2>1 DEF ExecRows
  <2>3. row \in ExecRows
    BY <1>0 DEF ExecRows, ExecPlaces
  <2>4. row.pc = "number" /\ row.key = exec[e].key /\ row.n = exec[e].n /\ row.step = n
        /\ row.proposal = exec[e].proposal
    BY <1>0 DEF ExecRows
  <2>5. row.lost = lost
    BY <1>0 DEF ExecRows
  <2> HIDE DEF row
  <2> QED BY <1>0, <2>1, <2>2, <2>3, <2>4, <2>5 DEF At
<1>7. \/ \E d \in ProposalTools \X Reasons : exec' = [exec EXCEPT ![e].pc = "boundary", ![e].denied = d]
      \/ Goto_(e, "fail")
      \/ exec' = [exec EXCEPT ![e].pc = "succeed", ![e].promoted = Promoted]
      \/ /\ exec' = [exec EXCEPT ![e].pc = "number", ![e].calls = @ + 1,
                                  ![e].denied = <<"none", "none">>, ![e].lost = LostAfterReport(e)]
         /\ why = "none" /\ tool \notin {"malformed", "finish"} /\ ~ImportBudgetSpent(tool)
  <2>1. <<"none", "none">> \in ProposalTools \X Reasons /\ <<tool, why>> \in ProposalTools \X Reasons
    BY <1>0 DEF ProposalTools, Reasons
  <2> QED BY <2>1 DEF Decide, DenyAgain
<1> HIDE DEF n, tool, why
<1> QED BY <1>2, <1>3, <1>4, <1>5, <1>6, <1>7 DEF n, tool, why

-----------------------------------------------------------------------------

(* The two parts of the invariant: the row with its requests and jobs, and *)
(* the ledger with what executors do to it.                                *)
RowInv == Fresh /\ KeysBehind /\ Requests /\ Revisions

LedgerInv == Refs /\ StepsHeld /\ Allowed /\ SideEffectsApproved

(* A step of one executor, and the places where it has no step open and    *)
(* acts on nothing.                                                        *)
OnlyExec(e) == \A f \in Executors : f # e => exec'[f] = exec[f]

Outside == {"idle", "claim", "dispatch", "enter", "boundary", "plan", "succeed", "fail", "publish", "raise"}

(* Steps that leave the row, its requests and jobs alone.                  *)
LEMMA RowFrame ==
  ASSUME Types, RowInv, run.status # "absent", UNCHANGED <<run, orchestrator, control>>,
         researchUsed'.controls = researchUsed.controls
  PROVE  RowInv'
BY DEF RowInv, Fresh, KeysBehind, Requests, Revisions, InFlight, Behind, Open, Waits

(* Steps that leave the ledger and the executors alone.                    *)
LEMMA LedgerFrame ==
  ASSUME Types, LedgerInv, UNCHANGED <<steps, evidence, imported, exec>>, run'.config = run.config
  PROVE  LedgerInv'
BY DEF LedgerInv, Refs, StepsHeld, Holds, Allowed, Acting, SideEffectsApproved

(* An executor that goes where it has no step open.                        *)
LEMMA StepOutside ==
  ASSUME Types, LedgerInv, UNCHANGED <<steps, evidence, imported>>, run'.config = run.config,
         NEW e \in Executors, OnlyExec(e), exec'[e].pc \in Outside, exec'[e].step \in {0, exec[e].step}
  PROVE  LedgerInv'
<1>1. Len(steps) \in Nat
  BY LenProperties DEF Types
<1>2. Refs'
  BY <1>1 DEF LedgerInv, Refs, OnlyExec
<1>3. StepsHeld'
  BY DEF LedgerInv, StepsHeld, Holds, OnlyExec, Outside
<1>4. Allowed'
  BY DEF LedgerInv, Allowed, Acting, OnlyExec, Outside
<1>5. SideEffectsApproved'
  BY DEF LedgerInv, SideEffectsApproved
<1> QED BY <1>2, <1>3, <1>4, <1>5 DEF LedgerInv

(* Who acts acts on a run that was created.                                *)
LEMMA NotAbsent ==
  ASSUME RowInv, NEW e \in Executors, exec[e].pc # "idle"
  PROVE  run.status # "absent"
BY DEF RowInv, Fresh

(* Lengths are numbers, and domains intervals.                             *)
LEMMA LedgerNumbers ==
  ASSUME Types
  PROVE  /\ Len(steps) \in Nat /\ Len(evidence) \in Nat
         /\ DOMAIN steps = 1..Len(steps) /\ DOMAIN evidence = 1..Len(evidence)
         /\ \A i \in 1..Len(steps) : steps[i] \in StepRows /\ steps[i].evidence \in Nat
         /\ \A e \in Executors : exec[e].step \in Nat /\ exec[e].n \in Nat
<1>1. /\ Len(steps) \in Nat /\ Len(evidence) \in Nat
      /\ DOMAIN steps = 1..Len(steps) /\ DOMAIN evidence = 1..Len(evidence)
  BY LenProperties DEF Types
<1>2. \A i \in 1..Len(steps) : steps[i] \in StepRows
  BY ElementOfSeq DEF Types
<1>3. \A e \in Executors : exec[e].step \in Nat /\ exec[e].n \in Nat
  BY DEF Types, ExecRows
<1> QED BY <1>1, <1>2, <1>3 DEF StepRows

(* A step that begins is no step that another executor holds.              *)
LEMMA StepBegins ==
  ASSUME Types, LedgerInv, UNCHANGED <<evidence, imported, run>>,
         NEW e \in Executors, NEW t \in ProposalTools, NEW next \in {"decide", "tool", "import"},
         BeginStep(e, t, next),
         next # "decide" => /\ t = exec[e].proposal.tool /\ Denial(run.config, t) = "none"
                            /\ (next = "import" <=> t = "import")
  PROVE  Types' => LedgerInv'
<1> SUFFICES ASSUME Types' PROVE LedgerInv'
  OBVIOUS
<1>1. Len(steps) \in Nat /\ Len(evidence) \in Nat
  BY LenProperties DEF Types
<1>2. CASE steps' = steps /\ At(e, "raise") /\ exec'[e].step = 0
  BY <1>2, StepOutside DEF At, OnlyExec, Outside
<1>3. CASE /\ Len(steps') = Len(steps) + 1
           /\ steps'[Len(steps) + 1] = [tool |-> t, status |-> "running", evidence |-> 0]
           /\ \A i \in 1..Len(steps) : steps'[i] = steps[i]
           /\ At(e, next) /\ exec'[e].step = Len(steps) + 1 /\ exec'[e].proposal = exec[e].proposal
  <2>1. Refs'
    <3>1. ASSUME NEW i \in 1..Len(steps') PROVE steps'[i].evidence <= Len(evidence')
      <4>1. CASE i = Len(steps) + 1
        BY <1>1, <1>3, <4>1
      <4>2. CASE i \in 1..Len(steps)
        BY <1>3, <4>2 DEF LedgerInv, Refs
      <4> QED BY <1>1, <1>3, <4>1, <4>2
    <3>2. ASSUME NEW f \in Executors PROVE exec'[f].step <= Len(steps')
      BY <1>1, <1>3, LedgerNumbers DEF LedgerInv, Refs, At
    <3> QED BY <3>1, <3>2 DEF Refs
  <2>2. StepsHeld'
    <3>1. ASSUME NEW f \in Executors, f # e, Holds(f)
          PROVE  exec[f].step \in 1..Len(steps) /\ steps[exec[f].step].status = "running"
      BY <3>1 DEF LedgerInv, StepsHeld
    <3>2. \A f \in Executors : f # e => exec'[f] = exec[f]
      BY <1>3 DEF At
    <3>3. Len(steps) + 1 \in 1..Len(steps')
      BY <1>1, <1>3
    <3>4. ASSUME NEW f \in Executors, f # e, Holds(f)
          PROVE  /\ exec'[f].step \in 1..Len(steps') /\ steps'[exec'[f].step].status = "running"
                 /\ exec'[f].step # exec'[e].step
      BY <1>1, <1>3, <3>1, <3>2, <3>4
    <3>5. ASSUME NEW f \in Executors, NEW g \in Executors, f # g, f # e, g # e, Holds(f), Holds(g)
          PROVE  exec'[f].step # exec'[g].step
      BY <3>2, <3>5 DEF LedgerInv, StepsHeld
    <3> QED BY <1>3, <3>2, <3>3, <3>4, <3>5 DEF StepsHeld, Holds
  <2>3. Allowed'
    BY <1>1, <1>3 DEF LedgerInv, Allowed, Acting, At, StepsHeld, Holds
  <2>4. SideEffectsApproved'
    <3>1. DOMAIN steps = 1..Len(steps) /\ DOMAIN steps' = 1..Len(steps')
      BY LenProperties DEF Types
    <3> QED BY <1>1, <1>3, <3>1 DEF LedgerInv, SideEffectsApproved
  <2> QED BY <2>1, <2>2, <2>3, <2>4 DEF LedgerInv
<1>4. next \in ExecPlaces
  BY DEF ExecPlaces
<1> QED BY <1>2, <1>3, <1>4, BegunStep

(* A step that is finished lets its executor go.                           *)
LEMMA StepFinishes ==
  ASSUME Types, Types', LedgerInv, NEW e \in Executors, Holds(e), OnlyExec(e),
         NEW n, n = exec[e].step,
         Len(steps') = Len(steps), steps'[n].tool = steps[n].tool,
         \A i \in 1..Len(steps) : i # n => steps'[i] = steps[i],
         steps'[n].evidence <= Len(evidence'), Len(evidence') >= Len(evidence),
         exec'[e].step = n, exec'[e].proposal = exec[e].proposal, run'.config = run.config,
         \/ exec'[e].pc \in Outside
         \/ exec'[e].pc = "number" /\ Denial(run.config, exec[e].proposal.tool) = "none",
         SideEffectsApproved'
  PROVE  LedgerInv'
<1>1. Len(steps) \in Nat /\ Len(evidence) \in Nat /\ Len(evidence') \in Nat
  BY LenProperties DEF Types
<1>2. Refs'
  <2>1. ASSUME NEW i \in 1..Len(steps') PROVE steps'[i].evidence <= Len(evidence')
    BY <1>1, LedgerNumbers DEF LedgerInv, Refs
  <2>2. ASSUME NEW f \in Executors PROVE exec'[f].step <= Len(steps')
    BY <1>1, LedgerNumbers DEF LedgerInv, Refs, OnlyExec
  <2> QED BY <2>1, <2>2 DEF Refs
<1>3. StepsHeld'
  BY <1>1 DEF LedgerInv, StepsHeld, Holds, OnlyExec, Outside
<1>4. Allowed'
  <2>1. ~(exec'[e].pc \in {"tool", "import", "promote"})
        /\ (Acting(e)' => Denial(run.config, exec[e].proposal.tool) = "none")
    BY DEF Outside, Acting
  <2>2. ASSUME NEW f \in Executors, f # e, exec[f].pc \in {"import", "promote"}
        PROVE  exec[f].proposal.tool = "import" /\ steps'[exec[f].step].tool = "import"
    <3>1. exec[f].step \in 1..Len(steps) /\ steps[exec[f].step].tool = "import"
          /\ exec[f].proposal.tool = "import"
      BY <2>2 DEF LedgerInv, StepsHeld, Holds, Allowed
    <3> QED BY <3>1
  <2>3. ASSUME NEW f \in Executors, f # e, exec[f].pc = "promote"
        PROVE  exec[f].proposal.target \in 1..Len(evidence')
    BY <1>1, <2>3 DEF LedgerInv, Allowed
  <2>4. ASSUME NEW f \in Executors, f # e
        PROVE  /\ exec'[f] = exec[f]
               /\ Acting(f) => Denial(run'.config, exec[f].proposal.tool) = "none"
               /\ exec[f].pc = "tool" => exec[f].proposal.tool # "import"
    BY <2>4 DEF LedgerInv, Allowed, OnlyExec
  <2> QED BY <2>1, <2>2, <2>3, <2>4 DEF Allowed, Acting
<1> QED BY <1>2, <1>3, <1>4 DEF LedgerInv

(* The inductive invariant.                                                *)
RunInv == Types /\ RowInv /\ LedgerInv

-----------------------------------------------------------------------------
(* The requests.                                                           *)

(* The requests in flight can be counted.                                  *)
LEMMA InFlightFinite ==
  ASSUME NEW S \in SUBSET Controllers
  PROVE  IsFiniteSet(S) /\ Cardinality(S) \in Nat
BY ResearchAssumption, FS_Subset, FS_CardinalityType

(* A set with one more element at most.                                    *)
LEMMA OneMore ==
  ASSUME NEW S, NEW T, NEW x, IsFiniteSet(S), T \subseteq S \cup {x}
  PROVE  Cardinality(T) <= Cardinality(S) + 1
<1>1. IsFiniteSet(S \cup {x}) /\ Cardinality(S \cup {x}) <= Cardinality(S) + 1
  <2>1. Cardinality(S) \in Nat
    BY FS_CardinalityType
  <2>2. IsFiniteSet(S \cup {x}) /\ (x \notin S => Cardinality(S \cup {x}) = Cardinality(S) + 1)
    BY FS_AddElement
  <2>3. x \in S => S \cup {x} = S
    OBVIOUS
  <2> QED BY <2>1, <2>2, <2>3
<1>2. Cardinality(T) <= Cardinality(S \cup {x}) /\ Cardinality(T) \in Nat
  BY <1>1, FS_Subset, FS_CardinalityType
<1>3. Cardinality(S) \in Nat /\ Cardinality(S \cup {x}) \in Nat
  BY <1>1, FS_CardinalityType
<1> QED BY <1>1, <1>2, <1>3

(* A set with one element less at least.                                   *)
LEMMA OneLess ==
  ASSUME NEW S, NEW T, NEW x \in S, IsFiniteSet(S), T \subseteq S \ {x}
  PROVE  Cardinality(T) <= Cardinality(S) - 1
<1>1. IsFiniteSet(S \ {x}) /\ Cardinality(S \ {x}) = Cardinality(S) - 1
  BY FS_RemoveElement
<1> QED BY <1>1, FS_Subset, FS_CardinalityType

(* A set with no more elements.                                            *)
LEMMA NoMore ==
  ASSUME NEW S, NEW T, IsFiniteSet(S), T \subseteq S
  PROVE  Cardinality(T) <= Cardinality(S)
BY FS_Subset

(* The run is created where nothing is.                                    *)
LEMMA CreateRunKeepsInv ==
  ASSUME RunInv, CreateRun
  PROVE  RunInv'
<1>1. PICK c \in Configs : run' = [NoRun EXCEPT !.status = "created", !.config = c]
  BY DEF CreateRun
<1>2. run' \in RunRows /\ run'.status = "created" /\ run'.revision = 0 /\ run'.config = c
  BY <1>1, ConfigsChosen DEF NoRun, RunRows, RunStatuses
<1>3. UNCHANGED <<steps, evidence, orchestrator, exec, control, imported, stranded, researchUsed>>
  BY DEF CreateRun
<1>4. Types'
  BY <1>2, <1>3 DEF RunInv, Types
<1>5. /\ \A d \in Controllers : control[d].pc = "idle"
      /\ \A e \in Executors : exec[e].pc = "idle"
      /\ \A k \in Keys : orchestrator[k].state = "none"
      /\ steps = <<>> /\ evidence = <<>> /\ imported = 0
  BY DEF CreateRun, RunInv, RowInv, Fresh
<1>6. InFlight' = {}
  BY <1>3, <1>5 DEF InFlight
<1>7. researchUsed.controls \in Nat /\ researchUsed.controls <= MaxControls
  BY DEF RunInv, RowInv, Revisions, Types, Used
<1>8. RowInv'
  BY <1>2, <1>3, <1>5, <1>6, <1>7, FS_EmptySet
     DEF RowInv, Fresh, KeysBehind, Requests, Revisions
<1>9. LedgerInv'
  <2>1. Len(steps) = 0 /\ Len(evidence) = 0 /\ DOMAIN evidence = {}
    BY <1>5, EmptySeq
  <2> QED BY <1>2, <1>3, <1>5, <2>1
       DEF RunInv, LedgerInv, Refs, StepsHeld, Holds, Allowed, Acting, SideEffectsApproved
<1> QED BY <1>4, <1>8, <1>9 DEF RunInv

(* What the table lets start and resume begin from.                        *)
LEMMA RunningFrom ==
  ASSUME Types
  PROVE  /\ RunTransitionAllowed(run.status, "running") => Waits
         /\ RunTransitionAllowed(run.status, "paused") => run.status = "running"
         /\ RunTransitionAllowed(run.status, "cancelled") => Open
BY DEF Types, RunRows, RunTransitionAllowed, RunTransitions, Waits, Open, EndedRunStates, RunStatuses

(* A request reads a revision the row has.                                 *)
LEMMA ReadRunKeepsInv ==
  ASSUME RunInv, NEW c \in Controllers, ReadRun(c)
  PROVE  RunInv'
<1>1. PICK op \in {"start", "pause", "resume", "cancel"} :
        /\ RunTransitionAllowed(run.status, TargetOf(op))
        /\ control' = [control EXCEPT ![c] =
             [pc |-> IF op \in {"start", "resume"} THEN "enqueue" ELSE "cas",
              op |-> op, status |-> run.status, key |-> run.revision]]
  BY DEF ReadRun
<1> DEFINE row == [pc |-> IF op \in {"start", "resume"} THEN "enqueue" ELSE "cas",
                   op |-> op, status |-> run.status, key |-> run.revision]
<1>2. /\ control[c].pc = "idle" /\ run.status # "absent"
      /\ researchUsed.controls < MaxControls
      /\ researchUsed' = [researchUsed EXCEPT !.controls = @ + 1]
      /\ UNCHANGED <<run, steps, evidence, orchestrator, exec, imported, stranded>>
  BY DEF ReadRun
<1>3. Types /\ RowInv /\ LedgerInv /\ run \in RunRows
  BY DEF RunInv, Types
<1>4. Open /\ (op \in {"start", "resume"} => Waits)
  BY <1>1, <1>3, RunningFrom DEF TargetOf, Open, Waits
<1>5. /\ run.revision \in Nat /\ researchUsed.controls \in Nat
      /\ Cardinality(InFlight) \in Nat /\ IsFiniteSet(InFlight)
  BY <1>3, InFlightFinite DEF Types, RunRows, Used, InFlight
<1>6. run.revision + Cardinality(InFlight) <= researchUsed.controls
  BY <1>3, <1>4 DEF RowInv, Revisions
<1>7. run.revision \in Keys
  BY <1>2, <1>5, <1>6, ResearchAssumption DEF Keys
<1>8. row \in ControlRows
  BY <1>3, <1>7, <1>2 DEF ControlRows, RunRows, RunStatuses
<1>9. /\ control' \in [Controllers -> ControlRows] /\ control'[c] = row
      /\ \A d \in Controllers : d # c => control'[d] = control[d]
  BY <1>1, <1>3, <1>8, ReplacedControl
<1>10. researchUsed' \in Used
       /\ researchUsed'.controls = researchUsed.controls + 1
  BY <1>2, <1>3 DEF Types, Used
<1>11. Types'
  BY <1>2, <1>3, <1>9, <1>10 DEF Types
<1>12. LedgerInv'
  BY <1>2, <1>3, LedgerFrame
<1>13. Cardinality(InFlight') <= Cardinality(InFlight) + 1 /\ Cardinality(InFlight') \in Nat
  <2>1. InFlight' \subseteq InFlight \cup {c}
    BY <1>9 DEF InFlight
  <2>2. InFlight' \subseteq Controllers
    BY DEF InFlight
  <2> QED BY <2>1, <2>2, <1>5, OneMore, InFlightFinite
<1>14. Revisions'
  BY <1>2, <1>5, <1>6, <1>10, <1>13, ResearchAssumption DEF Revisions, Open
<1>15. Requests'
  <2>1. /\ control'[c].pc = (IF op \in {"start", "resume"} THEN "enqueue" ELSE "cas")
        /\ control'[c].op = op /\ control'[c].status = run.status /\ control'[c].key = run.revision
    BY <1>9
  <2>2. Behind(run.revision)' <=> (run.revision < run.revision \/ Waits)
    BY <1>2 DEF Behind, Waits
  <2>3. ASSUME NEW d \in Controllers, d # c
        PROVE  control'[d] = control[d] /\ (Behind(control[d].key) => Behind(control[d].key)')
    BY <1>2, <1>9, <2>3 DEF Behind, Waits
  <2> QED BY <1>2, <1>3, <1>4, <1>9, <2>1, <2>2, <2>3 DEF RowInv, Requests, Behind, Waits, Open
<1>16. RowInv'
  BY <1>2, <1>3, <1>14, <1>15
     DEF RowInv, Fresh, KeysBehind, Behind, Waits
<1> QED BY <1>11, <1>12, <1>16 DEF RunInv

(* The enqueue makes a job for the revision that was read.                 *)
LEMMA EnqueueKeepsInv ==
  ASSUME RunInv, NEW c \in Controllers, EnqueueExecution(c)
  PROVE  RunInv'
<1> DEFINE k == control[c].key
           row == [control[c] EXCEPT !.pc = "cas"]
<1>1. /\ control[c].pc = "enqueue"
      /\ orchestrator' = IF orchestrator[k].state = "none"
                         THEN [orchestrator EXCEPT ![k] = Unclaimed("queued")] ELSE orchestrator
      /\ control' = [control EXCEPT ![c].pc = "cas"]
      /\ UNCHANGED <<run, steps, evidence, exec, imported, stranded, researchUsed>>
  BY DEF EnqueueExecution, KeyOf
<1>2. Types /\ RowInv /\ LedgerInv /\ control[c] \in ControlRows /\ k \in Keys
  BY DEF RunInv, Types, ControlRows
<1>3. row \in ControlRows /\ row.pc = "cas" /\ row.op = control[c].op /\ row.key = k
      /\ row.status = control[c].status
  BY <1>2 DEF ControlRows
<1>4. control' = [control EXCEPT ![c] = row]
  BY <1>1, <1>2 DEF ControlRows
<1> HIDE DEF row
<1>5. /\ control' \in [Controllers -> ControlRows] /\ control'[c] = row
      /\ \A d \in Controllers : d # c => control'[d] = control[d]
  BY <1>2, <1>3, <1>4, ReplacedControl
<1>6. /\ orchestrator' \in [Keys -> JobRows]
      /\ orchestrator'[k].state # "none"
      /\ \A l \in Keys : l # k => orchestrator'[l] = orchestrator[l]
      /\ orchestrator[k].state = "none" => orchestrator'[k].state = "queued"
      /\ orchestrator[k].state # "none" => orchestrator'[k] = orchestrator[k]
  BY <1>1, <1>2, JobRow, ReplacedJob DEF Types
<1>7. Types'
  BY <1>1, <1>2, <1>5, <1>6 DEF Types
<1>8. LedgerInv'
  BY <1>1, <1>2, LedgerFrame
<1>9. control[c].op \in {"start", "resume"} /\ Behind(k)
  BY <1>1, <1>2 DEF RowInv, Requests
<1>10. InFlight' = InFlight
  BY <1>1, <1>3, <1>5 DEF InFlight
<1>11. run.status # "absent"
  BY <1>1, <1>2 DEF RowInv, Fresh
<1>12. Fresh' /\ Revisions'
  BY <1>1, <1>2, <1>10, <1>11 DEF RowInv, Fresh, Revisions, Open
<1>13. KeysBehind'
  BY <1>1, <1>2, <1>6, <1>9 DEF RowInv, KeysBehind, Behind, Waits
<1>14. Requests'
  <2>1. ASSUME NEW d \in Controllers, d # c,
               control[d].pc = "cas", control[d].op \in {"start", "resume"}
        PROVE  orchestrator'[control[d].key].state # "none"
    <3>1. control[d].key \in Keys /\ orchestrator[control[d].key].state # "none"
      BY <1>2, <2>1 DEF RowInv, Requests, Types, ControlRows
    <3> QED BY <1>6, <3>1
  <2> QED BY <1>1, <1>2, <1>3, <1>5, <1>6, <1>9, <2>1 DEF RowInv, Requests, Behind, Waits
<1> QED BY <1>7, <1>8, <1>12, <1>13, <1>14 DEF RunInv, RowInv

(* A request that has made its compare-and-swap is not in flight any more. *)
LEMMA CasKeepsRow ==
  ASSUME RunInv, NEW c \in Controllers, control[c].pc = "cas",
         NEW expected \in {"created", "running", "paused"},
         NEW st \in {"running", "paused", "cancelled"},
         CasStatus(expected, st, run.candidates),
         NEW row \in ControlRows, control' = [control EXCEPT ![c] = row],
         \/ row = IdleControl
         \/ row.pc = "cancel_job" /\ row.op = "cancel" /\ st = "cancelled" /\ run.status = expected,
         UNCHANGED <<steps, evidence, orchestrator, exec, imported, researchUsed>>,
         stranded' \subseteq Strandings
  PROVE  RunInv'
<1>1. Types /\ RowInv /\ LedgerInv /\ st \in RunStatuses /\ run.candidates \in SUBSET Nat
      /\ run.revision \in Nat
  BY DEF RunInv, Types, RunRows, RunStatuses
<1>2. /\ run' \in RunRows /\ run'.config = run.config
      /\ run.status # expected => run' = run
      /\ run.status = expected => run'.status = st /\ run'.revision = run.revision + 1
  BY <1>1, CasEffect
<1>3. /\ control' \in [Controllers -> ControlRows] /\ control'[c] = row
      /\ \A d \in Controllers : d # c => control'[d] = control[d]
  BY <1>1, ReplacedControl
<1>4. Types' /\ LedgerInv'
  <2>1. Types'
    BY <1>1, <1>2, <1>3 DEF Types
  <2> QED BY <1>1, <1>2, <2>1, LedgerFrame
<1>5. run.status # "absent" /\ run'.status # "absent"
  BY <1>1, <1>2 DEF RowInv, Fresh
<1>6. \A k \in Nat : Behind(k) => Behind(k)'
  BY <1>1, <1>2 DEF Behind, Waits
<1>7. KeysBehind'
  BY <1>1, <1>6 DEF RowInv, KeysBehind, Keys
<1>8. Open' => Open
  BY <1>2 DEF Open
<1>9. row.pc \notin {"enqueue", "cas"} /\ (row.pc # "idle" => row.op = "cancel" /\ run'.status = "cancelled")
  BY <1>2, IdleControlIsControl
<1>10. Revisions'
  <2>1. InFlight' \subseteq InFlight \ {c} /\ c \in InFlight
    BY <1>3, <1>9 DEF InFlight
  <2>2. InFlight' \subseteq Controllers /\ InFlight \subseteq Controllers
    BY DEF InFlight
  <2>3. Cardinality(InFlight') <= Cardinality(InFlight) - 1
        /\ Cardinality(InFlight') \in Nat /\ Cardinality(InFlight) \in Nat
    BY <2>1, <2>2, OneLess, InFlightFinite
  <2>4. researchUsed.controls \in Nat
    BY <1>1 DEF Types, Used
  <2> QED BY <1>1, <1>2, <1>8, <2>3, <2>4 DEF RowInv, Revisions
<1>11. Requests'
  <2>1. \A d \in Controllers : control[d].key \in Nat
    BY <1>1 DEF Types, ControlRows, Keys
  <2>2. \A d \in Controllers : control[d].pc = "cancel_job" => run'.status = "cancelled"
    BY <1>1, <1>2 DEF RowInv, Requests
  <2> QED BY <1>1, <1>3, <1>6, <1>9, <2>1, <2>2 DEF RowInv, Requests
<1> QED BY <1>1, <1>4, <1>5, <1>7, <1>10, <1>11 DEF RunInv, RowInv, Fresh

(* A start, a pause, a resumption.                                         *)
LEMMA ChangeStatusKeepsInv ==
  ASSUME RunInv, NEW c \in Controllers, ChangeStatus(c)
  PROVE  RunInv'
<1>1. control[c].op \in {"start", "pause", "resume"}
  BY DEF RunInv, Types, ControlRows, RowInv, Requests, ChangeStatus
<1>2. ExpectedStatus(c) \in {"created", "running", "paused"} /\ TargetOf(control[c].op) \in {"running", "paused"}
  BY <1>1 DEF ExpectedStatus, TargetOf
<1>3. stranded' \subseteq Strandings
  BY DEF ChangeStatus, RunInv, Types, Strandings
<1> QED BY <1>2, <1>3, IdleControlIsControl, CasKeepsRow DEF ChangeStatus

(* The first transaction of a cancellation.                                *)
LEMMA CancelRunKeepsInv ==
  ASSUME RunInv, NEW c \in Controllers, CancelRun(c)
  PROVE  RunInv'
<1> DEFINE next == [control[c] EXCEPT !.pc = "cancel_job"]
<1>1. control[c].status \in {"created", "running", "paused"} /\ control[c] \in ControlRows /\ control[c].op = "cancel"
  BY DEF CancelRun, RunInv, RowInv, Requests, Types
<1>2. next \in ControlRows /\ next.pc = "cancel_job" /\ next.op = "cancel"
  BY <1>1 DEF ControlRows
<1>3. \/ run.status = control[c].status /\ control' = [control EXCEPT ![c] = next]
      \/ control' = [control EXCEPT ![c] = IdleControl]
  BY DEF CancelRun
<1>4. stranded' \subseteq Strandings
  BY DEF CancelRun, RunInv, Types
<1> HIDE DEF next
<1>5. /\ control[c].pc = "cas" /\ CasStatus(control[c].status, "cancelled", run.candidates)
      /\ UNCHANGED <<steps, evidence, orchestrator, exec, imported, researchUsed>>
  BY DEF CancelRun
<1>6. ASSUME run.status = control[c].status, control' = [control EXCEPT ![c] = next]
      PROVE  RunInv'
  BY <1>1, <1>2, <1>4, <1>5, <1>6, CasKeepsRow
<1>7. ASSUME control' = [control EXCEPT ![c] = IdleControl]
      PROVE  RunInv'
  BY <1>1, <1>4, <1>5, <1>7, IdleControlIsControl, CasKeepsRow
<1> QED BY <1>3, <1>6, <1>7

(* A request that is given up, or has no more to do.                       *)
LEMMA RequestEnds ==
  ASSUME RunInv, NEW c \in Controllers, control[c].pc # "idle",
         control' = [control EXCEPT ![c] = IdleControl],
         UNCHANGED <<run, steps, evidence, orchestrator, exec, imported>>,
         researchUsed' \in Used,
         researchUsed'.controls = researchUsed.controls,
         stranded' \subseteq Strandings
  PROVE  RunInv'
<1>1. Types /\ RowInv /\ LedgerInv
  BY DEF RunInv
<1>2. /\ control' \in [Controllers -> ControlRows] /\ control'[c] = IdleControl
      /\ \A d \in Controllers : d # c => control'[d] = control[d]
  BY <1>1, ReplacedControl, IdleControlIsControl
<1>3. Types' /\ LedgerInv'
  <2>1. Types'
    BY <1>1, <1>2 DEF Types
  <2> QED BY <1>1, <2>1, LedgerFrame
<1>4. Revisions'
  <2>1. InFlight' \subseteq InFlight /\ InFlight' \subseteq Controllers /\ InFlight \subseteq Controllers
    BY <1>2, IdleControlIsControl DEF InFlight
  <2>2. Cardinality(InFlight') <= Cardinality(InFlight)
        /\ Cardinality(InFlight') \in Nat /\ Cardinality(InFlight) \in Nat
    BY <2>1, NoMore, InFlightFinite
  <2>3. researchUsed.controls \in Nat /\ run.revision \in Nat
    BY <1>1 DEF Types, RunRows, Used
  <2> QED BY <1>1, <2>2, <2>3 DEF RowInv, Revisions, Open
<1>5. Requests'
  BY <1>1, <1>2, IdleControlIsControl DEF RowInv, Requests, Behind, Waits
<1>6. Fresh' /\ KeysBehind'
  BY <1>1, <1>2 DEF RowInv, Fresh, KeysBehind, Behind, Waits
<1> QED BY <1>3, <1>4, <1>5, <1>6 DEF RunInv, RowInv

(* A request that dies leaves what it did.                                 *)
LEMMA RequestDiesKeepsInv ==
  ASSUME RunInv, NEW c \in Controllers, RequestDies(c)
  PROVE  RunInv'
<1>0. Types
  BY DEF RunInv
<1>1. /\ researchUsed' \in Used
      /\ researchUsed'.controls = researchUsed.controls
  <2>1. researchUsed \in Used
    BY <1>0 DEF Types
  <2>2. researchUsed' = [researchUsed EXCEPT !.failures = @ + 1]
    BY DEF RequestDies
  <2> QED BY <2>1, <2>2 DEF Used
<1>2. stranded' \subseteq Strandings
  BY <1>0 DEF Types, RequestDies, Strandings
<1> QED BY <1>1, <1>2, RequestEnds DEF RequestDies

(* Steps that leave the row and the requests, and no more than put one job *)
(* back, or settle it.                                                     *)
LEMMA JobMoves ==
  ASSUME Types, RowInv, run.status # "absent", UNCHANGED <<run, control>>,
         \/ researchUsed'.controls = researchUsed.controls
         \/ researchUsed'.controls = researchUsed.controls + 1 /\ researchUsed.controls < MaxControls,
         NEW k \in Keys, orchestrator[k].state # "none",
         NEW s \in {"queued", "settled"}, orchestrator' = [orchestrator EXCEPT ![k] = Unclaimed(s)]
  PROVE  RowInv' /\ orchestrator' \in [Keys -> JobRows]
<1>1. /\ orchestrator' \in [Keys -> JobRows] /\ orchestrator'[k].state = s
      /\ \A l \in Keys : l # k => orchestrator'[l] = orchestrator[l]
  BY JobRow, ReplacedJob
<1>2. Requests'
  BY <1>1 DEF RowInv, Requests, Types, ControlRows, Behind, Waits
<1>3. Revisions'
  <2>1. InFlight' = InFlight /\ Cardinality(InFlight) \in Nat
    BY InFlightFinite DEF InFlight
  <2>2. researchUsed.controls \in Nat /\ run.revision \in Nat
    BY DEF Types, RunRows, Used
  <2> QED BY <2>1, <2>2, ResearchAssumption DEF RowInv, Revisions, Open
<1> QED BY <1>1, <1>2, <1>3 DEF RowInv, Fresh, KeysBehind, Behind, Waits

(* The second transaction of a cancellation.                               *)
LEMMA CancelExecutionKeepsInv ==
  ASSUME RunInv, NEW c \in Controllers, CancelExecution(c)
  PROVE  RunInv'
<1>1. Types /\ RowInv /\ LedgerInv
  BY DEF RunInv
<1>2. /\ control[c].pc = "cancel_job"
      /\ control' = [control EXCEPT ![c] = IdleControl]
      /\ UNCHANGED <<run, steps, evidence, exec, imported, stranded, researchUsed>>
  BY DEF CancelExecution
<1>3. \/ orchestrator' = orchestrator
      \/ \E k \in Keys : /\ orchestrator[k].state = "claimed"
                         /\ orchestrator' = [orchestrator EXCEPT ![k] = Unclaimed("settled")]
  BY DEF CancelExecution, SettledJob
<1>4. /\ orchestrator' \in [Keys -> JobRows]
      /\ \A k \in Keys : orchestrator[k].state # "none" => orchestrator'[k].state # "none"
      /\ \A k \in Keys : orchestrator'[k].state # "none" => orchestrator[k].state # "none"
  <2>1. CASE orchestrator' = orchestrator
    BY <1>1, <2>1 DEF Types
  <2>2. ASSUME NEW k \in Keys, orchestrator[k].state = "claimed",
               orchestrator' = [orchestrator EXCEPT ![k] = Unclaimed("settled")]
        PROVE  /\ orchestrator' \in [Keys -> JobRows] /\ orchestrator'[k].state = "settled"
               /\ \A l \in Keys : l # k => orchestrator'[l] = orchestrator[l]
    BY <1>1, <2>2, JobRow, ReplacedJob
  <2>3. CASE orchestrator' # orchestrator
    <3>1. PICK k \in Keys : /\ orchestrator[k].state = "claimed"
                          /\ orchestrator' = [orchestrator EXCEPT ![k] = Unclaimed("settled")]
      BY <1>3, <2>3
    <3>2. /\ orchestrator' \in [Keys -> JobRows] /\ orchestrator'[k].state = "settled"
          /\ \A l \in Keys : l # k => orchestrator'[l] = orchestrator[l]
      BY <2>2, <3>1
    <3> QED BY <3>1, <3>2
  <2> QED BY <2>1, <2>3
<1>5. /\ control' \in [Controllers -> ControlRows] /\ control'[c] = IdleControl
      /\ \A d \in Controllers : d # c => control'[d] = control[d]
  BY <1>1, <1>2, ReplacedControl, IdleControlIsControl
<1>6. Types' /\ LedgerInv'
  <2>1. Types'
    BY <1>1, <1>2, <1>4, <1>5 DEF Types
  <2> QED BY <1>1, <1>2, <2>1, LedgerFrame
<1>7. Revisions'
  <2>1. InFlight' = InFlight
    BY <1>2, <1>5, IdleControlIsControl DEF InFlight
  <2> QED BY <1>1, <1>2, <2>1 DEF RowInv, Revisions, Open
<1>8. Requests'
  <2>1. \A d \in Controllers : control[d].key \in Keys
    BY <1>1 DEF Types, ControlRows
  <2> QED BY <1>1, <1>2, <1>4, <1>5, <2>1, IdleControlIsControl DEF RowInv, Requests, Behind, Waits
<1>9. Fresh' /\ KeysBehind'
  <2>1. run.status # "absent"
    BY <1>1, <1>2 DEF RowInv, Fresh
  <2>2. Fresh'
    BY <1>2, <2>1 DEF Fresh
  <2>3. KeysBehind'
    BY <1>1, <1>2, <1>4 DEF RowInv, KeysBehind, Behind, Waits
  <2> QED BY <2>2, <2>3
<1> QED BY <1>6, <1>7, <1>8, <1>9 DEF RunInv, RowInv

(* What the reaper makes of a job.                                         *)
LEMMA Reaped ==
  ASSUME NEW k \in Keys, orchestrator' \in ReapedJob(k)
  PROVE  \E s \in {"queued", "settled"} : orchestrator' = [orchestrator EXCEPT ![k] = Unclaimed(s)]
BY DEF ReapedJob, SettledJob

(* A job that is put back, or settled, beside the executors.               *)
LEMMA JobMoveKeepsInv ==
  ASSUME RunInv, NEW k \in Keys, orchestrator[k].state # "none",
         NEW s \in {"queued", "settled"}, orchestrator' = [orchestrator EXCEPT ![k] = Unclaimed(s)],
         UNCHANGED <<run, steps, evidence, exec, control, imported>>,
         stranded' \subseteq Strandings, researchUsed' \in Used,
         \/ researchUsed'.controls = researchUsed.controls
         \/ researchUsed'.controls = researchUsed.controls + 1 /\ researchUsed.controls < MaxControls
  PROVE  RunInv'
<1>1. Types /\ RowInv /\ LedgerInv
  BY DEF RunInv
<1>2. run.status # "absent"
  BY <1>1 DEF RowInv, Fresh
<1>3. RowInv' /\ orchestrator' \in [Keys -> JobRows]
  BY <1>1, <1>2, JobMoves
<1>4. Types'
  BY <1>1, <1>3 DEF Types
<1> QED BY <1>1, <1>3, <1>4, LedgerFrame DEF RunInv

(* A lease that runs out frees the job, or fails it.                       *)
LEMMA LeaseKeepsInv ==
  ASSUME RunInv, NEW k \in Keys, LeaseRunsOut(k)
  PROVE  RunInv'
<1>1. Types
  BY DEF RunInv
<1>2. PICK s \in {"queued", "settled"} : orchestrator' = [orchestrator EXCEPT ![k] = Unclaimed(s)]
  BY Reaped DEF LeaseRunsOut
<1>3. researchUsed' \in Used /\ researchUsed'.controls = researchUsed.controls
  <2>1. researchUsed \in Used
    BY <1>1 DEF Types
  <2>2. researchUsed' = [researchUsed EXCEPT !.expiries = @ + 1]
    BY DEF LeaseRunsOut
  <2> QED BY <2>1, <2>2 DEF Used
<1>4. stranded' \subseteq Strandings
  BY <1>1 DEF Types, Strandings, LeaseRunsOut
<1> QED BY <1>2, <1>3, <1>4, JobMoveKeepsInv DEF LeaseRunsOut

(* The owner's cancellation of a job settles it, for one more request.     *)
LEMMA CancelJobKeepsInv ==
  ASSUME RunInv, NEW k \in Keys, CancelJob(k)
  PROVE  RunInv'
<1>1. Types
  BY DEF RunInv
<1>2. orchestrator[k].state # "none" /\ orchestrator' = [orchestrator EXCEPT ![k] = Unclaimed("settled")]
  BY DEF CancelJob, OpenJob, SettledJob
<1>3. /\ researchUsed' \in Used /\ researchUsed'.controls = researchUsed.controls + 1
      /\ researchUsed.controls < MaxControls
  <2>1. researchUsed \in Used
    BY <1>1 DEF Types
  <2>2. PICK n \in {researchUsed.cancels, researchUsed.cancels + 1} :
          researchUsed' = [researchUsed EXCEPT !.controls = @ + 1, !.cancels = n]
    BY DEF CancelJob
  <2>3. researchUsed.controls < MaxControls
    BY DEF CancelJob
  <2>4. n \in Nat /\ researchUsed.controls + 1 \in Nat
    BY <2>1 DEF Used
  <2> DEFINE more == researchUsed.controls + 1
  <2> HIDE DEF more
  <2>5. researchUsed' = [researchUsed EXCEPT !.controls = more, !.cancels = n]
    BY <2>1, <2>2 DEF more
  <2>6. researchUsed' \in Used /\ researchUsed'.controls = more
    BY <2>1, <2>4, <2>5 DEF Used, more
  <2> QED BY <2>3, <2>6 DEF more
<1>4. stranded' \subseteq Strandings
  BY <1>1 DEF Types, Strandings, CancelJob
<1> QED BY <1>2, <1>3, <1>4, JobMoveKeepsInv DEF CancelJob

-----------------------------------------------------------------------------
(* The executors.                                                          *)

(* An executor that goes where it has no step open, and what it may do to  *)
(* the job it has.                                                         *)
LEMMA MoveKeepsInv ==
  ASSUME RunInv, NEW e \in Executors, exec[e].pc # "idle",
         exec' \in [Executors -> ExecRows], OnlyExec(e),
         exec'[e].pc \in Outside, exec'[e].step \in {0, exec[e].step},
         NEW s \in {"queued", "settled"},
         \/ orchestrator' = orchestrator
         \/ /\ orchestrator[exec[e].key].state # "none"
            /\ orchestrator' = [orchestrator EXCEPT ![exec[e].key] = Unclaimed(s)],
         UNCHANGED <<run, steps, evidence, control, imported>>,
         stranded' \subseteq Strandings, researchUsed' \in Used,
         researchUsed'.controls = researchUsed.controls
  PROVE  RunInv'
<1>1. Types /\ RowInv /\ LedgerInv /\ run.status # "absent" /\ exec[e].key \in Keys
  BY NotAbsent DEF RunInv, Types, ExecRows
<1>2. RowInv' /\ orchestrator' \in [Keys -> JobRows]
  <2>1. CASE orchestrator' = orchestrator
    BY <1>1, <2>1, RowFrame DEF Types
  <2>2. CASE /\ orchestrator[exec[e].key].state # "none"
             /\ orchestrator' = [orchestrator EXCEPT ![exec[e].key] = Unclaimed(s)]
    BY <1>1, <2>2, JobMoves
  <2> QED BY <2>1, <2>2
<1>3. Types'
  BY <1>1, <1>2 DEF Types
<1>4. LedgerInv'
  BY <1>1, StepOutside
<1> QED BY <1>2, <1>3, <1>4 DEF RunInv

(* An executor that becomes idle.                                          *)
LEMMA IdleAgain ==
  ASSUME Types, NEW e \in Executors, exec' = [exec EXCEPT ![e] = IdleExec]
  PROVE  /\ exec' \in [Executors -> ExecRows] /\ OnlyExec(e)
         /\ exec'[e].pc = "idle" /\ exec'[e].key = 0 /\ exec'[e].step = 0 /\ exec'[e].pc \in Outside
<1>1. IdleExec.step = 0
  BY DEF IdleExec
<1> QED BY <1>1, IdleIsExec, ReplacedExec DEF OnlyExec, Outside

(* An executor that looks for a job finds one that is queued.              *)
LEMMA BeginClaimEffect ==
  ASSUME Types, NEW e \in Executors, BeginClaim(e)
  PROVE  /\ exec' \in [Executors -> ExecRows] /\ OnlyExec(e)
         /\ exec[e].pc = "idle" /\ exec'[e].pc = "claim" /\ exec'[e].step = 0 /\ exec'[e].lost = FALSE
         /\ \E k \in Keys : orchestrator[k].state = "queued"
<1>1. PICK k \in Keys : /\ orchestrator[k].state = "queued"
                       /\ exec' = [exec EXCEPT ![e] = [IdleExec EXCEPT !.pc = "claim", !.key = k]]
  BY DEF BeginClaim
<1> DEFINE row == [IdleExec EXCEPT !.pc = "claim", !.key = k]
<1>2. row \in ExecRows /\ row.pc = "claim" /\ row.step = 0 /\ row.lost = FALSE
  <2>1. IdleExec.step = 0 /\ IdleExec.lost = FALSE
    BY DEF IdleExec
  <2> QED BY <2>1, IdleIsExec DEF ExecRows, ExecPlaces
<1> HIDE DEF row
<1>3. exec' \in [Executors -> ExecRows] /\ exec'[e] = row /\ OnlyExec(e)
  BY <1>1, <1>2, ReplacedExec DEF row, OnlyExec
<1> QED BY <1>1, <1>2, <1>3 DEF BeginClaim

LEMMA BeginClaimKeepsInv ==
  ASSUME RunInv, NEW e \in Executors, BeginClaim(e)
  PROVE  RunInv'
<1>1. Types /\ RowInv /\ LedgerInv
  BY DEF RunInv
<1>2. UNCHANGED <<run, steps, evidence, orchestrator, control, imported, stranded, researchUsed>>
  BY DEF BeginClaim
<1>3. Types'
  BY <1>1, <1>2, BeginClaimEffect DEF Types
<1>4. run.status # "absent"
  BY <1>1, BeginClaimEffect DEF RowInv, Fresh
<1>5. RowInv' /\ LedgerInv'
  BY <1>1, <1>2, <1>4, BeginClaimEffect, RowFrame, StepOutside DEF Outside
<1> QED BY <1>3, <1>5 DEF RunInv

(* The job is claimed, or the executor finds that another has it.          *)
LEMMA ClaimEffect ==
  ASSUME Types, NEW e \in Executors, ClaimExecution(e), exec[e].key \in Keys
  PROVE  \/ /\ orchestrator[exec[e].key].state = "queued"
            /\ orchestrator' \in [Keys -> JobRows]
            /\ orchestrator'[exec[e].key] = [state |-> "claimed", owner |-> e]
            /\ \A l \in Keys : l # exec[e].key => orchestrator'[l] = orchestrator[l]
            /\ At(e, "dispatch") /\ exec'[e].lost = exec[e].lost /\ exec'[e].step = exec[e].step
            /\ exec'[e].proposal = exec[e].proposal
            /\ researchUsed' \in Used /\ researchUsed'.controls = researchUsed.controls
         \/ /\ exec' = [exec EXCEPT ![e] = IdleExec]
            /\ UNCHANGED <<orchestrator, researchUsed>>
<1>1. CASE orchestrator[exec[e].key].state = "queued"
  <2> DEFINE job == [state |-> "claimed", owner |-> e]
  <2>1. job \in JobRows
    BY DEF JobRows
  <2>2. orchestrator' = [orchestrator EXCEPT ![exec[e].key] = job] /\ Goto_(e, "dispatch")
    BY <1>1 DEF ClaimExecution
  <2> HIDE DEF job
  <2>3. /\ orchestrator' \in [Keys -> JobRows] /\ orchestrator'[exec[e].key] = job
        /\ \A l \in Keys : l # exec[e].key => orchestrator'[l] = orchestrator[l]
    BY <2>1, <2>2, ReplacedJob
  <2>4. At(e, "dispatch") /\ exec'[e].lost = exec[e].lost /\ exec'[e].step = exec[e].step
        /\ exec'[e].proposal = exec[e].proposal
    BY <2>2, GotoAt DEF ExecPlaces
  <2>5. researchUsed' \in Used /\ researchUsed'.controls = researchUsed.controls
    BY <1>1 DEF ClaimExecution, Types, Used
  <2> QED BY <1>1, <2>3, <2>4, <2>5 DEF job
<1> QED BY <1>1 DEF ClaimExecution

LEMMA ClaimKeepsInv ==
  ASSUME RunInv, NEW e \in Executors, ClaimExecution(e)
  PROVE  RunInv'
<1>1. Types /\ RowInv /\ LedgerInv /\ run.status # "absent" /\ exec[e].key \in Keys
  BY NotAbsent DEF RunInv, Types, ExecRows, ClaimExecution
<1>2. exec[e].pc = "claim" /\ UNCHANGED <<run, steps, evidence, control, imported, stranded>>
  BY DEF ClaimExecution
<1>3. ASSUME orchestrator[exec[e].key].state = "queued",
             orchestrator' \in [Keys -> JobRows],
             orchestrator'[exec[e].key] = [state |-> "claimed", owner |-> e],
             \A l \in Keys : l # exec[e].key => orchestrator'[l] = orchestrator[l],
             At(e, "dispatch"), exec'[e].step = exec[e].step,
             researchUsed' \in Used, researchUsed'.controls = researchUsed.controls
      PROVE  RunInv'
  <2>1. Types'
    BY <1>1, <1>2, <1>3 DEF Types, At
  <2>2. LedgerInv'
    BY <1>1, <1>2, <1>3, StepOutside DEF Outside, At, OnlyExec
  <2>3. Requests'
    <3>1. \A d \in Controllers : control[d].key \in Keys
      BY <1>1 DEF Types, ControlRows
    <3>2. \A l \in Keys : orchestrator[l].state # "none" => orchestrator'[l].state # "none"
      BY <1>3
    <3> QED BY <1>1, <1>2, <3>1, <3>2 DEF RowInv, Requests, Behind, Waits
  <2>4. Fresh' /\ KeysBehind' /\ Revisions'
    BY <1>1, <1>2, <1>3 DEF RowInv, Fresh, KeysBehind, Revisions, InFlight, Open, Behind, Waits
  <2> QED BY <2>1, <2>2, <2>3, <2>4 DEF RunInv, RowInv
<1>4. CASE exec' = [exec EXCEPT ![e] = IdleExec] /\ UNCHANGED <<orchestrator, researchUsed>>
  BY <1>1, <1>2, <1>4, IdleAgain, MoveKeepsInv DEF Types
<1> QED BY <1>1, <1>3, <1>4, ClaimEffect

(* An executor that is told to begin, gives the job up or has it taken     *)
(* away, leaves the run alone.                                             *)
LEMMA DispatchKeepsInv ==
  ASSUME RunInv, NEW e \in Executors, DispatchExecution(e)
  PROVE  RunInv'
<1>1. Types /\ exec[e].pc = "dispatch" /\ UNCHANGED <<run, steps, evidence, control, imported>>
  BY DEF RunInv, DispatchExecution
<1>2. /\ exec' \in [Executors -> ExecRows] /\ OnlyExec(e)
      /\ exec'[e].pc \in Outside /\ exec'[e].step \in {0, exec[e].step}
  <2>1. CASE Goto_(e, "enter")
    BY <1>1, <2>1, GotoAt DEF ExecPlaces, At, OnlyExec, Outside
  <2>2. CASE exec' = [exec EXCEPT ![e] = IdleExec]
    BY <1>1, <2>2, IdleAgain
  <2> QED BY <2>1, <2>2 DEF DispatchExecution
<1>3. \/ orchestrator' = orchestrator
      \/ /\ orchestrator[exec[e].key].state # "none"
         /\ orchestrator' = [orchestrator EXCEPT ![exec[e].key] = Unclaimed("settled")]
  BY DEF DispatchExecution, OpenJob, SettledJob
<1>4. researchUsed' \in Used /\ researchUsed'.controls = researchUsed.controls
  <2>1. researchUsed \in Used
    BY <1>1 DEF Types
  <2>2. \/ researchUsed' = researchUsed
        \/ researchUsed' = [researchUsed EXCEPT !.failures = @ + 1]
    BY DEF DispatchExecution
  <2> QED BY <2>1, <2>2 DEF Used
<1>5. stranded' \subseteq Strandings
  BY <1>1 DEF DispatchExecution, Types, Strandings
<1> QED BY <1>1, <1>2, <1>3, <1>4, <1>5, MoveKeepsInv

(* An exception leaves the handler.                                        *)
LEMMA RaiseKeepsInv ==
  ASSUME RunInv, NEW e \in Executors, HandlerRaises(e)
  PROVE  RunInv'
<1>1. Types /\ exec[e].pc # "idle" /\ LeaveHandler(e, "raise")
      /\ UNCHANGED <<run, steps, evidence, orchestrator, control, imported, stranded>>
  BY DEF RunInv, HandlerRaises
<1>2. At(e, "raise") /\ exec'[e].step = 0
  BY <1>1, LeaveAt DEF ExecPlaces
<1>3. researchUsed' \in Used /\ researchUsed'.controls = researchUsed.controls
  <2>1. researchUsed \in Used
    BY <1>1 DEF Types
  <2>2. researchUsed' = [researchUsed EXCEPT !.failures = @ + 1]
    BY DEF HandlerRaises
  <2> QED BY <2>1, <2>2 DEF Used
<1> QED BY <1>1, <1>2, <1>3, MoveKeepsInv DEF At, OnlyExec, Outside, Types

(* An executor that goes where it has no step open, and nothing else.      *)
LEMMA MoveAlone ==
  ASSUME RunInv, NEW e \in Executors, exec[e].pc # "idle",
         exec' \in [Executors -> ExecRows], OnlyExec(e),
         exec'[e].pc \in Outside, exec'[e].step \in {0, exec[e].step},
         UNCHANGED <<run, steps, evidence, orchestrator, control, imported, researchUsed>>,
         stranded' \subseteq Strandings
  PROVE  RunInv'
<1>1. "queued" \in {"queued", "settled"} /\ researchUsed' \in Used
      /\ researchUsed'.controls = researchUsed.controls
  BY DEF RunInv, Types
<1> QED BY <1>1, MoveKeepsInv

(* An executor that leaves its handler.                                    *)
LEMMA LeaveKeepsInv ==
  ASSUME RunInv, NEW e \in Executors, exec[e].pc # "idle", NEW at \in {"publish", "raise"},
         LeaveHandler(e, at),
         UNCHANGED <<run, steps, evidence, orchestrator, control, imported, researchUsed>>,
         stranded' \subseteq Strandings
  PROVE  RunInv'
<1>1. Types /\ at \in ExecPlaces /\ at \in Outside
  BY DEF RunInv, ExecPlaces, Outside
<1>2. At(e, at) /\ exec'[e].step = 0
  BY <1>1, LeaveAt
<1> QED BY <1>1, <1>2, MoveAlone DEF At, OnlyExec

(* An executor enters a running run, or leaves it alone.                   *)
LEMMA EnterKeepsInv ==
  ASSUME RunInv, NEW e \in Executors, EnterRun(e)
  PROVE  /\ RunInv'
         /\ exec'[e].lost = exec[e].lost
         /\ \/ At(e, "publish") /\ run.status # "running"
            \/ At(e, "fail") /\ run.status = "running"
            \/ At(e, "boundary") /\ run.status = "running"
<1>1. Types /\ RowInv /\ LedgerInv
  BY DEF RunInv
<1>2. exec[e].pc = "enter"
      /\ UNCHANGED <<run, steps, evidence, orchestrator, control, imported, researchUsed>>
      /\ stranded' \subseteq Strandings
  BY <1>1 DEF EnterRun, Types, Strandings
<1>3. CASE run.status # "running"
  <2>1. LeaveHandler(e, "publish")
    BY <1>3 DEF EnterRun
  <2> QED BY <1>1, <1>2, <1>3, <2>1, LeaveAt, LeaveKeepsInv DEF ExecPlaces
<1>4. CASE run.status = "running"
  <2> DEFINE at == IF run.config.planner = "none" THEN "fail" ELSE "boundary"
             calls == CountToolSteps
  <2>1. exec' = [exec EXCEPT ![e].calls = calls, ![e].pc = at]
    BY <1>4 DEF EnterRun
  <2>2. calls \in Nat
    <3>1. IsFiniteSet(1..Len(steps)) /\ DOMAIN steps = 1..Len(steps)
      BY <1>1, LedgerNumbers, FS_Interval
    <3> QED BY <3>1, FS_Subset, FS_CardinalityType DEF CountToolSteps
  <2>3. at \in {"fail", "boundary"} /\ at \in ExecPlaces
    BY DEF ExecPlaces
  <2> HIDE DEF at, calls
  <2>4. exec[e] \in ExecRows
    BY <1>1 DEF Types
  <2> DEFINE new == [exec[e] EXCEPT !.calls = calls, !.pc = at]
  <2>5. new \in ExecRows /\ exec' = [exec EXCEPT ![e] = new]
    BY <1>1, <2>1, <2>2, <2>3, <2>4 DEF Types, ExecRows
  <2>6. new.pc = at /\ new.key = exec[e].key /\ new.lost = exec[e].lost /\ new.step = exec[e].step
    BY <2>4 DEF ExecRows
  <2> HIDE DEF new
  <2>7. At(e, at) /\ exec'[e].lost = exec[e].lost /\ exec'[e].step = exec[e].step
    BY <1>1, <2>5, <2>6, ReplacedExec DEF At
  <2>8. exec'[e].pc \in Outside /\ exec'[e].step \in {0, exec[e].step}
    BY <2>3, <2>7 DEF At, Outside
  <2>9. RunInv'
    BY <1>1, <1>2, <2>7, <2>8, MoveAlone DEF At, OnlyExec
  <2> QED BY <1>4, <2>3, <2>7, <2>9
<1> QED BY <1>3, <1>4

(* The steps of the ledger that are imports.                               *)
ImportSteps == {i \in 1..Len(steps) : steps[i].tool = "import"}

(* What a planner proposes, and that the discovery program proposes an     *)
(* import only where none was tried.                                       *)
LEMMA ProposalTypes ==
  ASSUME Types, NEW p \in Proposals(TurnsFrom(Len(steps)))
  PROVE  /\ p \in [tool : ProposalTools, target : Nat]
         /\ run.config.planner = "discovery" /\ p.tool = "import" => ImportSteps = {}
<1> DEFINE turns == TurnsFrom(Len(steps))
<1>1. turns = {i \in 1..Len(steps) : steps[i].tool # "none"}
  BY DEF TurnsFrom
<1>2. CASE run.config.planner = "any"
  <2>1. p \in AnyProposals
    BY <1>2 DEF Proposals
  <2>2. DOMAIN evidence \subseteq Nat
    BY LedgerNumbers
  <2> QED BY <1>2, <2>1, <2>2 DEF AnyProposals, ProposalTools, Tools
<1>3. CASE run.config.planner # "any"
  <2> HIDE DEF turns
  <2>1. p \in DiscoveryProposals(turns)
    BY <1>3 DEF Proposals, turns
  <2>2. LastOf(Fetched(turns)) \subseteq 1..Len(steps)
    BY <1>1 DEF LastOf, Fetched
  <2>3. \/ p \in {[tool |-> t, target |-> 0] : t \in {"search", "fetch", "finish"}}
        \/ /\ ~ImportTried(turns)
           /\ \E i \in 1..Len(steps) : p = [tool |-> "import", target |-> steps[i].evidence]
    <3>1. CASE \A i \in turns : steps[i].tool # "search"
      BY <2>1, <3>1 DEF DiscoveryProposals
    <3>2. CASE ~(\A i \in turns : steps[i].tool # "search") /\ Fetched(turns) = {}
      BY <2>1, <3>2 DEF DiscoveryProposals
    <3>3. CASE /\ ~(\A i \in turns : steps[i].tool # "search") /\ Fetched(turns) # {}
               /\ ("import" \notin run.config.tools \/ ImportTried(turns))
      BY <2>1, <3>3 DEF DiscoveryProposals
    <3>4. CASE /\ ~(\A i \in turns : steps[i].tool # "search") /\ Fetched(turns) # {}
               /\ ~("import" \notin run.config.tools \/ ImportTried(turns))
      <4>1. p \in {[tool |-> "import", target |-> steps[i].evidence] : i \in LastOf(Fetched(turns))}
        BY <2>1, <3>4 DEF DiscoveryProposals
      <4> QED BY <2>2, <3>4, <4>1
    <3> QED BY <3>1, <3>2, <3>3, <3>4
  <2>4. CASE p \in {[tool |-> t, target |-> 0] : t \in {"search", "fetch", "finish"}}
    BY <2>4 DEF ProposalTools, Tools
  <2>5. CASE /\ ~ImportTried(turns)
             /\ \E i \in 1..Len(steps) : p = [tool |-> "import", target |-> steps[i].evidence]
    <3>1. p.tool = "import" /\ p \in [tool : ProposalTools, target : Nat]
      BY <2>5, LedgerNumbers DEF ProposalTools, Tools
    <3>2. ImportSteps = {}
      BY <1>1, <2>5 DEF ImportTried, ImportSteps
    <3> QED BY <3>1, <3>2
  <2> QED BY <2>3, <2>4, <2>5
<1> QED BY <1>2, <1>3

(* The boundary stops, fails or plans.                                     *)
LEMMA BoundaryKeepsInv ==
  ASSUME RunInv, NEW e \in Executors, Boundary(e)
  PROVE  /\ RunInv'
         /\ exec'[e].lost = exec[e].lost
         /\ \/ At(e, "publish") /\ BoundaryStops(e)
            \/ At(e, "fail") /\ ~BoundaryStops(e) /\ exec'[e].proposal = exec[e].proposal
            \/ /\ At(e, "plan") /\ ~BoundaryStops(e)
               /\ exec'[e].n = Len(steps) + 1 /\ ~StepBudgetSpent(Len(steps))
               /\ run.config.planner = "discovery" /\ exec'[e].proposal.tool = "import"
                    => ImportSteps = {}
<1>1. Types /\ RowInv /\ LedgerInv
  BY DEF RunInv
<1>2. exec[e].pc = "boundary"
      /\ UNCHANGED <<run, steps, evidence, orchestrator, control, imported, stranded, researchUsed>>
  BY DEF Boundary
<1>3. \/ BoundaryStops(e) /\ LeaveHandler(e, "publish")
      \/ ~BoundaryStops(e) /\ StepBudgetSpent(Len(steps)) /\ Goto_(e, "fail")
      \/ /\ ~BoundaryStops(e) /\ ~StepBudgetSpent(Len(steps))
         /\ \E p \in Proposals(TurnsFrom(Len(steps))) :
              exec' = [exec EXCEPT ![e].pc = "plan", ![e].n = Len(steps) + 1, ![e].proposal = p]
  BY DEF Boundary
<1>4. ASSUME NEW p \in Proposals(TurnsFrom(Len(steps))),
             exec' = [exec EXCEPT ![e].pc = "plan", ![e].n = Len(steps) + 1, ![e].proposal = p]
      PROVE  /\ At(e, "plan") /\ exec'[e].lost = exec[e].lost /\ exec'[e].step = exec[e].step
             /\ exec'[e].n = Len(steps) + 1
             /\ run.config.planner = "discovery" /\ exec'[e].proposal.tool = "import"
                  => ImportSteps = {}
  <2>1. PICK n \in Nat : n = Len(steps) + 1
    BY <1>1, LedgerNumbers
  <2>2. p \in [tool : ProposalTools, target : Nat]
        /\ (run.config.planner = "discovery" /\ p.tool = "import" => ImportSteps = {})
    BY <1>1, ProposalTypes
  <2> DEFINE row == [exec[e] EXCEPT !.pc = "plan", !.n = n, !.proposal = p]
  <2>3. exec[e] \in ExecRows
    BY <1>1 DEF Types
  <2>4. row \in ExecRows
    BY <2>2, <2>3 DEF ExecRows, ExecPlaces
  <2>5. row.pc = "plan" /\ row.key = exec[e].key /\ row.n = n /\ row.step = exec[e].step
        /\ row.proposal = p
    BY <2>3 DEF ExecRows
  <2>6. row.lost = exec[e].lost
    BY <2>3 DEF ExecRows
  <2>7. exec' = [exec EXCEPT ![e] = row]
    BY <1>1, <1>4, <2>1, <2>3 DEF Types, ExecRows
  <2> HIDE DEF row
  <2>8. exec' \in [Executors -> ExecRows] /\ exec'[e] = row /\ \A f \in Executors : f # e => exec'[f] = exec[f]
    BY <1>1, <2>4, <2>7, ReplacedExec
  <2> QED BY <2>1, <2>2, <2>5, <2>6, <2>8 DEF At
<1>5. /\ exec'[e].lost = exec[e].lost /\ exec'[e].step \in {0, exec[e].step}
      /\ \/ At(e, "publish") /\ BoundaryStops(e)
         \/ At(e, "fail") /\ ~BoundaryStops(e) /\ exec'[e].proposal = exec[e].proposal
         \/ /\ At(e, "plan") /\ ~BoundaryStops(e)
            /\ exec'[e].n = Len(steps) + 1 /\ ~StepBudgetSpent(Len(steps))
            /\ run.config.planner = "discovery" /\ exec'[e].proposal.tool = "import"
                    => ImportSteps = {}
  <2>1. "publish" \in ExecPlaces /\ "fail" \in ExecPlaces
    BY DEF ExecPlaces
  <2> QED BY <1>1, <1>3, <1>4, <2>1, GotoAt, LeaveAt
<1>6. Types'
  BY <1>1, <1>2, <1>5 DEF Types, At
<1>7. LedgerInv'
  BY <1>1, <1>2, <1>5, StepOutside DEF At, OnlyExec, Outside
<1>8. RowInv'
  BY <1>1, <1>2, NotAbsent, RowFrame
<1> QED BY <1>5, <1>6, <1>7, <1>8 DEF RunInv

(* The step of the plan.                                                   *)
LEMMA BeginPlanKeepsInv ==
  ASSUME RunInv, NEW e \in Executors, BeginPlan(e)
  PROVE  RunInv'
<1>1. Types /\ RowInv /\ LedgerInv
  BY DEF RunInv
<1>2. /\ exec[e].pc = "plan" /\ BeginStep(e, "none", "decide")
      /\ UNCHANGED <<run, evidence, orchestrator, control, imported, stranded, researchUsed>>
  BY DEF BeginPlan
<1>3. "none" \in ProposalTools /\ "decide" \in ExecPlaces
  BY DEF ProposalTools, ExecPlaces
<1>4. Types'
  BY <1>1, <1>2, <1>3, BegunStep DEF Types, At
<1>5. LedgerInv'
  BY <1>1, <1>2, <1>3, <1>4, StepBegins
<1>6. RowInv'
  BY <1>1, <1>2, NotAbsent, RowFrame
<1> QED BY <1>4, <1>5, <1>6 DEF RunInv

(* A step that is held is in the ledger, and running.                      *)
LEMMA HeldStep ==
  ASSUME RunInv, NEW e \in Executors, Holds(e)
  PROVE  exec[e].step \in 1..Len(steps) /\ steps[exec[e].step].status = "running"
BY DEF RunInv, LedgerInv, StepsHeld

(* The decision from the frozen configuration.                             *)
LEMMA DecideKeepsInv ==
  ASSUME RunInv, NEW e \in Executors, Decide(e)
  PROVE  RunInv'
<1>1. Types /\ RowInv /\ LedgerInv
  BY DEF RunInv
<1>2. /\ exec[e].pc = "decide"
      /\ UNCHANGED <<run, evidence, orchestrator, control, imported, stranded, researchUsed>>
  BY DEF Decide
<1>3. Holds(e)
  BY <1>2 DEF Holds
<1> DEFINE n == exec[e].step
<1>4. n \in 1..Len(steps) /\ steps[n].status = "running"
  BY <1>3, HeldStep
<1>5. /\ steps' \in Seq(StepRows) /\ Len(steps') = Len(steps)
      /\ \A i \in 1..Len(steps) : i # n => steps'[i] = steps[i]
      /\ steps'[n].tool = steps[n].tool /\ steps'[n].evidence = 0
      /\ exec'[e].step = n /\ exec'[e].proposal = exec[e].proposal
      /\ exec' \in [Executors -> ExecRows] /\ OnlyExec(e)
      /\ \/ exec'[e].pc \in {"boundary", "fail", "succeed"}
         \/ exec'[e].pc = "number" /\ Denial(run.config, exec[e].proposal.tool) = "none"
  BY <1>1, <1>4, DecideEffect DEF At, OnlyExec
<1>6. Types'
  BY <1>1, <1>2, <1>5 DEF Types
<1>7. SideEffectsApproved'
  <2>1. DOMAIN steps = 1..Len(steps) /\ DOMAIN steps' = 1..Len(steps')
    BY <1>1, <1>5, LenProperties DEF Types
  <2> QED BY <1>1, <1>2, <1>4, <1>5, <2>1 DEF LedgerInv, SideEffectsApproved
<1>8. LedgerInv'
  <2>1. Len(evidence) \in Nat
    BY <1>1, LedgerNumbers
  <2> HIDE DEF n
  <2> QED BY <1>1, <1>2, <1>3, <1>5, <1>6, <1>7, <2>1, StepFinishes DEF Outside, n
<1>9. RowInv'
  BY <1>1, <1>2, NotAbsent, RowFrame
<1> QED BY <1>6, <1>8, <1>9 DEF RunInv

(* The number of the tool's step.                                          *)
LEMMA NumberKeepsInv ==
  ASSUME RunInv, NEW e \in Executors, NumberTool(e)
  PROVE  /\ RunInv'
         /\ At(e, "begin_tool") /\ exec'[e].n = Len(steps) + 1
         /\ exec'[e].lost = exec[e].lost /\ exec'[e].proposal = exec[e].proposal
<1>1. Types /\ RowInv /\ LedgerInv
  BY DEF RunInv
<1>2. /\ exec[e].pc = "number"
      /\ exec' = [exec EXCEPT ![e].pc = "begin_tool", ![e].n = Len(steps) + 1]
      /\ UNCHANGED <<run, steps, evidence, orchestrator, control, imported, stranded, researchUsed>>
  BY DEF NumberTool
<1>3. PICK n \in Nat : n = Len(steps) + 1
  BY <1>1, LedgerNumbers
<1>4. /\ At(e, "begin_tool") /\ exec'[e].n = n /\ exec'[e].step = exec[e].step
      /\ exec'[e].lost = exec[e].lost /\ exec'[e].proposal = exec[e].proposal
  <2> DEFINE row == [exec[e] EXCEPT !.pc = "begin_tool", !.n = n]
  <2>1. exec[e] \in ExecRows
    BY <1>1 DEF Types
  <2>2. row \in ExecRows
    BY <2>1 DEF ExecRows, ExecPlaces
  <2>3. row.pc = "begin_tool" /\ row.key = exec[e].key /\ row.n = n /\ row.step = exec[e].step
        /\ row.proposal = exec[e].proposal
    BY <2>1 DEF ExecRows
  <2>4. row.lost = exec[e].lost
    BY <2>1 DEF ExecRows
  <2>5. exec' = [exec EXCEPT ![e] = row]
    BY <1>1, <1>2, <1>3, <2>1 DEF Types, ExecRows
  <2> HIDE DEF row
  <2>6. exec' \in [Executors -> ExecRows] /\ exec'[e] = row /\ \A f \in Executors : f # e => exec'[f] = exec[f]
    BY <1>1, <2>2, <2>5, ReplacedExec
  <2> QED BY <2>3, <2>4, <2>6 DEF At
<1>5. Types'
  BY <1>1, <1>2, <1>4 DEF Types, At
<1>6. LedgerInv'
  <2>1. Refs'
    BY <1>1, <1>2, <1>4 DEF LedgerInv, Refs, At
  <2>2. StepsHeld'
    BY <1>1, <1>2, <1>4 DEF LedgerInv, StepsHeld, Holds, At
  <2>3. Allowed'
    BY <1>1, <1>2, <1>4 DEF LedgerInv, Allowed, Acting, At
  <2> QED BY <1>1, <1>2, <2>1, <2>2, <2>3 DEF LedgerInv, SideEffectsApproved
<1>7. RowInv'
  BY <1>1, <1>2, NotAbsent, RowFrame
<1> QED BY <1>3, <1>4, <1>5, <1>6, <1>7 DEF RunInv

(* The step of the tool.                                                   *)
LEMMA BeginToolKeepsInv ==
  ASSUME RunInv, NEW e \in Executors, BeginTool(e)
  PROVE  RunInv'
<1>1. Types /\ RowInv /\ LedgerInv
  BY DEF RunInv
<1> DEFINE t == exec[e].proposal.tool
           next == IF t = "import" THEN "import" ELSE "tool"
<1>2. /\ exec[e].pc = "begin_tool" /\ BeginStep(e, t, next)
      /\ UNCHANGED <<run, evidence, orchestrator, control, imported, stranded, researchUsed>>
  BY DEF BeginTool
<1>3. t \in ProposalTools /\ next \in ExecPlaces /\ next \in {"tool", "import"}
      /\ (next = "import" <=> t = "import")
  BY <1>1 DEF Types, ExecRows, ExecPlaces
<1>4. Denial(run.config, t) = "none"
  BY <1>1, <1>2 DEF LedgerInv, Allowed, Acting
<1> HIDE DEF next
<1>5. Types'
  BY <1>1, <1>2, <1>3, BegunStep DEF Types, At
<1>6. LedgerInv'
  BY <1>1, <1>2, <1>3, <1>4, <1>5, StepBegins
<1>7. RowInv'
  BY <1>1, <1>2, NotAbsent, RowFrame
<1> QED BY <1>5, <1>6, <1>7 DEF RunInv

(* Every tool but import, and what it leaves of steps and promotions.      *)
LEMMA CallKeepsInv ==
  ASSUME RunInv, NEW e \in Executors, CallTool(e)
  PROVE  /\ RunInv' /\ At(e, "boundary") /\ exec'[e].lost = LostAfterReport(e)
         /\ Len(steps') = Len(steps)
         /\ \A i \in 1..Len(steps) : steps'[i].tool = steps[i].tool
         /\ Promoted' = Promoted
<1>1. Types /\ RowInv /\ LedgerInv
  BY DEF RunInv
<1> DEFINE n == exec[e].step
           t == exec[e].proposal.tool
           next == Len(evidence) + 1
<1>2. /\ exec[e].pc = "tool" /\ BackToBoundary(e)
      /\ UNCHANGED <<run, orchestrator, control, imported, stranded, researchUsed>>
  BY DEF CallTool
<1>3. \/ /\ t = "browser" => ~AutomationDenied
         /\ \E l \in BOOLEAN, s \in {"succeeded", "failed"} : AppendEvidence(t, l) /\ FinishStep(n, s, next)
      \/ FinishStep(n, "failed", 0) /\ UNCHANGED evidence
  BY DEF CallTool
<1>4. Holds(e) /\ t \in ProposalTools
  BY <1>1, <1>2 DEF Holds, Types, ExecRows
<1>5. n \in 1..Len(steps) /\ steps[n].status = "running"
  BY <1>4, HeldStep
<1>6. Len(steps) \in Nat /\ Len(evidence) \in Nat /\ next \in Nat
  BY <1>1, LedgerNumbers
<1> HIDE DEF n, t, next
<1> DEFINE Called(s, ev) ==
             /\ FinishStep(n, s, ev) /\ ev <= Len(evidence')
             /\ evidence' \in Seq(EvidenceRows) /\ Len(evidence') >= Len(evidence)
             /\ \A i \in 1..Len(evidence) : evidence'[i] = evidence[i]
             /\ \A i \in 1..Len(evidence') :
                  \/ i \in 1..Len(evidence)
                  \/ /\ evidence'[i].tool = t /\ ~evidence'[i].promoted
                     /\ t = "browser" => ~AutomationDenied
<1>7. \E s \in {"succeeded", "failed"}, ev \in Nat : Called(s, ev)
  <2>1. ASSUME NEW l \in BOOLEAN, NEW s \in {"succeeded", "failed"}, AppendEvidence(t, l),
               FinishStep(n, s, next), t = "browser" => ~AutomationDenied
        PROVE  Called(s, next)
    <3>1. /\ evidence' \in Seq(EvidenceRows) /\ Len(evidence') = Len(evidence) + 1
          /\ \A i \in 1..Len(evidence) : evidence'[i] = evidence[i]
          /\ evidence'[Len(evidence) + 1] = [tool |-> t, located |-> l, promoted |-> FALSE]
      BY <1>1, <1>4, <2>1, AppendedEvidence
    <3>2. next <= Len(evidence')
      BY <1>6, <3>1 DEF next
    <3>3. ASSUME NEW i \in 1..Len(evidence'), i \notin 1..Len(evidence)
          PROVE  evidence'[i].tool = t /\ ~evidence'[i].promoted
      <4>1. i = Len(evidence) + 1
        BY <1>6, <3>1, <3>3
      <4> QED BY <3>1, <4>1
    <3> QED BY <1>6, <2>1, <3>1, <3>2, <3>3
  <2>2. ASSUME FinishStep(n, "failed", 0), UNCHANGED evidence
        PROVE  Called("failed", 0)
    BY <1>1, <1>6, <2>2 DEF Types
  <2> HIDE DEF Called
  <2> QED BY <1>3, <1>6, <2>1, <2>2
<1>8. PICK s \in {"succeeded", "failed"}, ev \in Nat : Called(s, ev)
  BY <1>7
<1>9. /\ steps' \in Seq(StepRows) /\ Len(steps') = Len(steps)
      /\ \A i \in 1..Len(steps) : i # n => steps'[i] = steps[i]
      /\ steps'[n].tool = steps[n].tool /\ steps'[n].evidence = ev
  BY <1>1, <1>5, <1>8, FinishedStep
<1>10. At(e, "boundary") /\ exec'[e].lost = LostAfterReport(e)
       /\ exec'[e].step = n /\ exec'[e].proposal = exec[e].proposal
  BY <1>1, <1>2, BoundaryAt DEF n
<1>11. Types'
  BY <1>1, <1>2, <1>8, <1>9, <1>10 DEF Types, At
<1>12. DOMAIN evidence = 1..Len(evidence) /\ DOMAIN evidence' = 1..Len(evidence')
       /\ DOMAIN steps = 1..Len(steps) /\ DOMAIN steps' = 1..Len(steps')
  BY <1>1, <1>8, <1>9, LenProperties DEF Types
<1>13. SideEffectsApproved'
  <2>1. ASSUME NEW j \in DOMAIN steps, steps[j].tool = "fetch", steps[j].status = "failed"
        PROVE  j \in DOMAIN steps' /\ steps'[j].tool = "fetch" /\ steps'[j].status = "failed"
    BY <1>5, <1>9, <1>12, <2>1
  <2>2. ASSUME NEW i \in DOMAIN evidence', evidence'[i].tool = "browser"
        PROVE  \/ "browser" \in run.config.approved
               \/ \E j \in DOMAIN steps : steps[j].tool = "fetch" /\ steps[j].status = "failed"
    <3>1. CASE i \in 1..Len(evidence)
      BY <1>1, <1>8, <1>12, <2>2, <3>1 DEF LedgerInv, SideEffectsApproved
    <3>2. CASE i \notin 1..Len(evidence)
      BY <1>8, <1>12, <2>2, <3>2 DEF AutomationDenied
    <3> QED BY <3>1, <3>2
  <2> QED BY <1>1, <1>2, <2>1, <2>2 DEF LedgerInv, SideEffectsApproved
<1>14. LedgerInv'
  BY <1>1, <1>2, <1>4, <1>8, <1>9, <1>10, <1>11, <1>13, StepFinishes DEF At, OnlyExec, Outside, n
<1>15. RowInv'
  BY <1>1, <1>2, NotAbsent, RowFrame
<1>16. Promoted' = Promoted
  BY <1>6, <1>8, <1>12 DEF Promoted
<1>17. \A i \in 1..Len(steps) : steps'[i].tool = steps[i].tool
  BY <1>9
<1> QED BY <1>9, <1>10, <1>11, <1>14, <1>15, <1>16, <1>17 DEF RunInv

(* An import that is refused.                                              *)
LEMMA ImportRefusedKeepsInv ==
  ASSUME RunInv, NEW e \in Executors, exec[e].pc = "import",
         FinishStep(exec[e].step, "failed", 0), BackToBoundary(e),
         UNCHANGED <<run, evidence, orchestrator, control, imported, stranded, researchUsed>>
  PROVE  /\ RunInv' /\ At(e, "boundary") /\ exec'[e].lost = LostAfterReport(e)
         /\ Len(steps') = Len(steps)
         /\ \A i \in 1..Len(steps) : steps'[i].tool = steps[i].tool
<1>1. Types /\ RowInv /\ LedgerInv
  BY DEF RunInv
<1> DEFINE n == exec[e].step
<1>2. Holds(e)
  BY DEF Holds
<1>3. n \in 1..Len(steps) /\ steps[n].status = "running"
  BY <1>2, HeldStep
<1>4. /\ steps' \in Seq(StepRows) /\ Len(steps') = Len(steps)
      /\ \A i \in 1..Len(steps) : i # n => steps'[i] = steps[i]
      /\ steps'[n].tool = steps[n].tool /\ steps'[n].evidence = 0
  BY <1>1, <1>3, FinishedStep
<1>5. At(e, "boundary") /\ exec'[e].lost = LostAfterReport(e)
      /\ exec'[e].step = n /\ exec'[e].proposal = exec[e].proposal
  BY <1>1, BoundaryAt
<1>6. Types'
  BY <1>1, <1>4, <1>5 DEF Types, At
<1>7. SideEffectsApproved'
  <2>1. DOMAIN steps = 1..Len(steps) /\ DOMAIN steps' = 1..Len(steps')
    BY <1>1, <1>4, LenProperties DEF Types
  <2> QED BY <1>1, <1>3, <1>4, <2>1 DEF LedgerInv, SideEffectsApproved
<1>8. Len(evidence) \in Nat
  BY <1>1, LedgerNumbers
<1>9. LedgerInv'
  <2> HIDE DEF n
  <2> QED BY <1>1, <1>2, <1>4, <1>5, <1>6, <1>7, <1>8, StepFinishes DEF At, OnlyExec, Outside, n
<1>10. RowInv'
  BY <1>1, NotAbsent, RowFrame
<1> QED BY <1>4, <1>5, <1>6, <1>9, <1>10 DEF RunInv

(* An import that goes through was approved.                               *)
LEMMA ImportKeepsInv ==
  ASSUME RunInv, NEW e \in Executors, exec[e].pc = "import",
         exec[e].proposal.target \in DOMAIN evidence, imported' = imported + 1, Goto_(e, "promote"),
         UNCHANGED <<run, steps, evidence, orchestrator, control, stranded, researchUsed>>
  PROVE  RunInv'
<1>1. Types /\ RowInv /\ LedgerInv
  BY DEF RunInv
<1>2. At(e, "promote") /\ exec'[e].step = exec[e].step /\ exec'[e].proposal = exec[e].proposal
  BY <1>1, GotoAt DEF ExecPlaces
<1>3. Types'
  BY <1>1, <1>2 DEF Types, At
<1>4. Denial(run.config, exec[e].proposal.tool) = "none" /\ exec[e].proposal.tool = "import"
  BY <1>1 DEF LedgerInv, Allowed, Acting
<1>5. "import" \in run.config.approved
  BY <1>4 DEF Denial, SideEffectTools
<1>6. DOMAIN evidence = 1..Len(evidence)
  BY <1>1, LedgerNumbers
<1>7. LedgerInv'
  <2>1. Refs'
    BY <1>1, <1>2 DEF LedgerInv, Refs, At
  <2>2. StepsHeld'
    BY <1>1, <1>2 DEF LedgerInv, StepsHeld, Holds, At
  <2>3. Allowed'
    BY <1>1, <1>2, <1>4, <1>6 DEF LedgerInv, Allowed, Acting, At
  <2> QED BY <1>1, <1>5, <2>1, <2>2, <2>3 DEF LedgerInv, SideEffectsApproved
<1>8. RowInv'
  BY <1>1, NotAbsent, RowFrame
<1> QED BY <1>3, <1>7, <1>8 DEF RunInv

(* The import is recorded, and its evidence linked.                        *)
LEMMA MarkKeepsInv ==
  ASSUME RunInv, NEW e \in Executors, MarkPromoted(e)
  PROVE  /\ RunInv' /\ At(e, "boundary") /\ exec'[e].lost = LostAfterReport(e)
         /\ Len(steps') = Len(steps)
         /\ \A i \in 1..Len(steps) : steps'[i].tool = steps[i].tool
         /\ Promoted' \subseteq Promoted \cup {exec[e].proposal.target}
<1>1. Types /\ RowInv /\ LedgerInv
  BY DEF RunInv
<1> DEFINE n == exec[e].step
           target == exec[e].proposal.target
<1>2. /\ exec[e].pc = "promote" /\ FinishStep(n, "succeeded", 0) /\ BackToBoundary(e)
      /\ evidence' = [evidence EXCEPT ![target].promoted = TRUE]
      /\ UNCHANGED <<run, orchestrator, control, imported, stranded, researchUsed>>
  BY DEF MarkPromoted
<1>3. Holds(e)
  BY <1>2 DEF Holds
<1>4. n \in 1..Len(steps) /\ steps[n].status = "running"
  BY <1>3, HeldStep
<1>5. /\ steps' \in Seq(StepRows) /\ Len(steps') = Len(steps)
      /\ \A i \in 1..Len(steps) : i # n => steps'[i] = steps[i]
      /\ steps'[n].tool = steps[n].tool /\ steps'[n].evidence = 0
  BY <1>1, <1>2, <1>4, FinishedStep
<1>6. At(e, "boundary") /\ exec'[e].lost = LostAfterReport(e)
      /\ exec'[e].step = n /\ exec'[e].proposal = exec[e].proposal
  BY <1>1, <1>2, BoundaryAt
<1>7. target \in 1..Len(evidence) /\ Len(evidence) \in Nat /\ DOMAIN evidence = 1..Len(evidence)
  BY <1>1, <1>2, LedgerNumbers DEF LedgerInv, Allowed
<1>8. /\ evidence' \in Seq(EvidenceRows) /\ Len(evidence') = Len(evidence)
      /\ \A i \in 1..Len(evidence) : evidence'[i].tool = evidence[i].tool
      /\ \A i \in 1..Len(evidence) : i # target => evidence'[i] = evidence[i]
  <2> DEFINE row == [evidence[target] EXCEPT !.promoted = TRUE]
  <2>1. evidence[target] \in EvidenceRows
    BY <1>1, <1>7, ElementOfSeq DEF Types
  <2>2. row \in EvidenceRows /\ row.tool = evidence[target].tool
    BY <2>1 DEF EvidenceRows
  <2>3. evidence' = [evidence EXCEPT ![target] = row]
    BY <1>2, <2>1 DEF EvidenceRows
  <2> HIDE DEF row, target
  <2> QED BY <1>1, <1>7, <2>2, <2>3, ExceptSeq DEF Types
<1>9. Types'
  BY <1>1, <1>2, <1>5, <1>6, <1>8 DEF Types, At
<1>10. /\ DOMAIN steps = 1..Len(steps) /\ DOMAIN steps' = 1..Len(steps')
       /\ DOMAIN evidence' = 1..Len(evidence')
  BY <1>1, <1>5, <1>8, LenProperties DEF Types
<1>11. SideEffectsApproved'
  <2> HIDE DEF n, target
  <2>1. ASSUME NEW j \in DOMAIN steps, steps[j].tool = "fetch", steps[j].status = "failed"
        PROVE  j \in DOMAIN steps' /\ steps'[j].tool = "fetch" /\ steps'[j].status = "failed"
    BY <1>4, <1>5, <1>10, <2>1
  <2>2. ASSUME NEW i \in DOMAIN evidence', evidence'[i].tool = "browser"
        PROVE  i \in DOMAIN evidence /\ evidence[i].tool = "browser"
    BY <1>7, <1>8, <1>10, <2>2
  <2> QED BY <1>1, <1>2, <2>1, <2>2 DEF LedgerInv, SideEffectsApproved
<1>12. LedgerInv'
  <2> HIDE DEF n, target
  <2> QED BY <1>1, <1>2, <1>3, <1>5, <1>6, <1>7, <1>8, <1>9, <1>11, StepFinishes DEF At, OnlyExec, Outside, n
<1>13. RowInv'
  BY <1>1, <1>2, NotAbsent, RowFrame
<1>14. Promoted' \subseteq Promoted \cup {target}
  BY <1>7, <1>8, <1>10 DEF Promoted
<1> QED BY <1>5, <1>6, <1>9, <1>12, <1>13, <1>14 DEF RunInv

(* SucceedRun and FailRun.                                                 *)
LEMMA EndKeepsInv ==
  ASSUME RunInv, NEW e \in Executors, exec[e].pc # "idle",
         NEW st \in EndedRunStates, NEW found \in SUBSET Nat,
         CasStatus("running", st, found), LeaveHandler(e, "publish"),
         UNCHANGED <<steps, evidence, orchestrator, control, imported, stranded, researchUsed>>
  PROVE  RunInv'
<1>1. Types /\ RowInv /\ LedgerInv /\ st \in RunStatuses /\ run.status # "absent" /\ run.revision \in Nat
  BY NotAbsent DEF RunInv, RunStatuses, EndedRunStates, Types, RunRows
<1>2. At(e, "publish") /\ exec'[e].step = 0
  BY <1>1, LeaveAt DEF ExecPlaces
<1>3. /\ run' \in RunRows /\ run'.config = run.config
      /\ run.status # "running" => run' = run
      /\ run.status = "running" => run'.status = st /\ run'.revision = run.revision + 1
  BY <1>1, CasEffect
<1>4. Types'
  BY <1>1, <1>2, <1>3 DEF Types, At
<1>5. LedgerInv'
  BY <1>1, <1>2, <1>3, StepOutside DEF At, OnlyExec, Outside
<1>6. \A k \in Nat : Behind(k) => Behind(k)'
  BY <1>1, <1>3 DEF Behind, Waits
<1>7. Open' => run' = run
  BY <1>3 DEF Open, EndedRunStates
<1>8. Requests'
  <2>1. \A d \in Controllers : control[d].key \in Nat
    BY <1>1 DEF Types, ControlRows, Keys
  <2>2. \A d \in Controllers : control[d].pc = "cancel_job" => run'.status = "cancelled"
    BY <1>1, <1>3 DEF RowInv, Requests
  <2> QED BY <1>1, <1>6, <2>1, <2>2 DEF RowInv, Requests
<1>9. Revisions'
  BY <1>1, <1>7 DEF RowInv, Revisions, InFlight, Open
<1>10. Fresh' /\ KeysBehind'
  <2>1. run'.status # "absent"
    BY <1>1, <1>3 DEF EndedRunStates
  <2> QED BY <1>1, <1>6, <2>1 DEF RowInv, Fresh, KeysBehind, Keys
<1> QED BY <1>4, <1>5, <1>8, <1>9, <1>10 DEF RunInv, RowInv

(* PublishExecution: the job is settled, or left as another has it.        *)
LEMMA PublishKeepsInv ==
  ASSUME RunInv, NEW e \in Executors, PublishExecution(e)
  PROVE  RunInv'
<1>1. Types /\ exec[e].pc # "idle" /\ exec' = [exec EXCEPT ![e] = IdleExec]
      /\ UNCHANGED <<run, steps, evidence, control, imported, researchUsed>>
  BY DEF RunInv, PublishExecution
<1>2. \/ orchestrator' = orchestrator
      \/ /\ orchestrator[exec[e].key].state # "none"
         /\ orchestrator' = [orchestrator EXCEPT ![exec[e].key] = Unclaimed("settled")]
  BY DEF PublishExecution, SettledJob
<1>3. researchUsed' \in Used /\ stranded' \subseteq Strandings
  BY <1>1 DEF PublishExecution, Types, Strandings
<1> QED BY <1>1, <1>2, <1>3, IdleAgain, MoveKeepsInv

(* An executor that dies leaves the job it had to the reaper.              *)
LEMMA DeathKeepsInv ==
  ASSUME RunInv, NEW e \in Executors, ExecutorDies(e)
  PROVE  RunInv'
<1>1. Types /\ exec[e].pc # "idle" /\ exec[e].key \in Keys /\ exec' = [exec EXCEPT ![e] = IdleExec]
      /\ UNCHANGED <<run, steps, evidence, control, imported>>
  BY DEF RunInv, ExecutorDies, Types, ExecRows
<1>2. PICK s \in {"queued", "settled"} :
        \/ orchestrator' = orchestrator
        \/ /\ orchestrator[exec[e].key].state # "none"
           /\ orchestrator' = [orchestrator EXCEPT ![exec[e].key] = Unclaimed(s)]
  BY <1>1, Reaped DEF ExecutorDies
<1>3. researchUsed' \in Used /\ researchUsed'.controls = researchUsed.controls
  <2>1. researchUsed \in Used
    BY <1>1 DEF Types
  <2>2. \/ researchUsed' = researchUsed
        \/ researchUsed' = [researchUsed EXCEPT !.failures = @ + 1]
    BY DEF ExecutorDies
  <2> QED BY <2>1, <2>2 DEF Used
<1>4. stranded' \subseteq Strandings
  BY <1>1 DEF ExecutorDies, Types, Strandings
<1> QED BY <1>1, <1>2, <1>3, <1>4, IdleAgain, MoveKeepsInv

(* Every step of an executor, what it raises, and its death.               *)
LEMMA ExecutorKeepsInv ==
  ASSUME RunInv, NEW e \in Executors, ExecutorStep(e) \/ HandlerRaises(e) \/ ExecutorDies(e)
  PROVE  RunInv'
<1>1. Types
  BY DEF RunInv
<1>2. CASE ImportFetched(e) \/ ImportRefused(e)
  BY <1>2, ImportKeepsInv, ImportRefusedKeepsInv DEF ImportFetched, ImportRefused
<1>3. CASE SucceedRun(e) \/ FailRun(e)
  <2>1. exec[e].promoted \in SUBSET Nat /\ run.candidates \in SUBSET Nat
    BY <1>1 DEF Types, ExecRows, RunRows
  <2> QED BY <1>3, <2>1, EndKeepsInv DEF SucceedRun, FailRun, EndedRunStates
<1> QED BY <1>2, <1>3, BeginClaimKeepsInv, ClaimKeepsInv, DispatchKeepsInv, EnterKeepsInv, BoundaryKeepsInv,
           BeginPlanKeepsInv, DecideKeepsInv, NumberKeepsInv, BeginToolKeepsInv, CallKeepsInv, MarkKeepsInv,
           PublishKeepsInv, RaiseKeepsInv, DeathKeepsInv DEF ExecutorStep

(* The invariant holds at first,                                           *)
LEMMA ResearchInitInv == ResearchInit => RunInv
<1> SUFFICES ASSUME ResearchInit PROVE RunInv
  OBVIOUS
<1>1. Types
  BY InitTypes
<1>2. Len(steps) = 0 /\ Len(evidence) = 0 /\ DOMAIN evidence = {}
  BY EmptySeq DEF ResearchInit
<1>3. run.status = "absent" /\ run.revision = 0
  BY DEF ResearchInit, NoRun
<1>4. \A k \in Keys : orchestrator[k].state = "none"
  BY DEF ResearchInit, Unclaimed
<1>5. \A e \in Executors : exec[e].pc = "idle" /\ exec[e].step = 0
  BY DEF ResearchInit, IdleExec
<1>6. \A c \in Controllers : control[c].pc = "idle"
  BY DEF ResearchInit, IdleControl
<1>7. RowInv
  BY <1>3, <1>4, <1>5, <1>6, ResearchAssumption
     DEF ResearchInit, RowInv, Fresh, KeysBehind, Requests, Revisions, Open
<1>8. LedgerInv
  BY <1>2, <1>5 DEF ResearchInit, LedgerInv, Refs, StepsHeld, Holds, Allowed, Acting, SideEffectsApproved
<1> QED BY <1>1, <1>7, <1>8 DEF RunInv

(* and every step keeps it.                                                *)
LEMMA ResearchStepInv == RunInv /\ [ResearchNext]_researchVars => RunInv'
<1> SUFFICES ASSUME RunInv, [ResearchNext]_researchVars PROVE RunInv'
  OBVIOUS
<1>1. CASE UNCHANGED researchVars
  <2>1. Types /\ RowInv /\ LedgerInv
    BY DEF RunInv
  <2>2. Types'
    BY <1>1, <2>1 DEF researchVars, Types
  <2>3. LedgerInv'
    BY <1>1, <2>1, LedgerFrame DEF researchVars
  <2>4. RowInv'
    BY <1>1, <2>1 DEF researchVars, RowInv, Fresh, KeysBehind, Requests, Revisions, InFlight, Behind, Open, Waits
  <2> QED BY <2>2, <2>3, <2>4 DEF RunInv
<1>2. CASE CreateRun
  BY <1>2, CreateRunKeepsInv
<1>3. ASSUME NEW c \in Controllers, ReadRun(c) \/ ControlStep(c) \/ RequestDies(c)
      PROVE  RunInv'
  BY <1>3, ReadRunKeepsInv, EnqueueKeepsInv, ChangeStatusKeepsInv, CancelRunKeepsInv,
     CancelExecutionKeepsInv, RequestDiesKeepsInv DEF ControlStep
<1>4. ASSUME NEW e \in Executors, ExecutorStep(e) \/ HandlerRaises(e) \/ ExecutorDies(e)
      PROVE  RunInv'
  BY <1>4, ExecutorKeepsInv
<1>5. ASSUME NEW k \in Keys, LeaseRunsOut(k) \/ CancelJob(k)
      PROVE  RunInv'
  BY <1>5, LeaseKeepsInv, CancelJobKeepsInv
<1> QED BY <1>1, <1>2, <1>3, <1>4, <1>5 DEF ResearchNext

(* The rows, requests, jobs and executors of a run fit together, whatever  *)
(* is lost or dies between two transactions.                               *)
THEOREM RunInvAlways == ResearchSpec => []RunInv
BY ResearchInitInv, ResearchStepInv, PTL DEF ResearchSpec

-----------------------------------------------------------------------------
(* What a run may do.                                                      *)

(* A run that ended is changed by nobody: every change is a compare-and-   *)
(* swap that expects an open run.                                          *)
LEMMA EndedStays ==
  ASSUME RunInv, [ResearchNext]_researchVars, run.status \in EndedRunStates
  PROVE  run' = run
<1>1. ASSUME NEW expected \in {"created", "running", "paused"}, NEW st, NEW found,
             CasStatus(expected, st, found)
      PROVE  run' = run
  BY <1>1 DEF CasStatus, EndedRunStates
<1>2. CASE UNCHANGED researchVars
  BY <1>2 DEF researchVars
<1>3. CASE CreateRun
  BY <1>3 DEF CreateRun, EndedRunStates
<1>4. ASSUME NEW c \in Controllers, ReadRun(c) \/ ControlStep(c) \/ RequestDies(c)
      PROVE  run' = run
  <2>1. CASE ChangeStatus(c)
    <3>1. control[c].op \in {"start", "pause", "resume"}
      BY <2>1 DEF RunInv, Types, ControlRows, RowInv, Requests, ChangeStatus
    <3>2. ExpectedStatus(c) \in {"created", "running", "paused"}
      BY <3>1 DEF ExpectedStatus
    <3> QED BY <1>1, <2>1, <3>2 DEF ChangeStatus
  <2>2. CASE CancelRun(c)
    <3>1. control[c].status \in {"created", "running", "paused"}
      BY <2>2 DEF CancelRun, RunInv, RowInv, Requests
    <3> QED BY <1>1, <2>2, <3>1 DEF CancelRun
  <2> QED BY <1>4, <2>1, <2>2 DEF ControlStep, ReadRun, EnqueueExecution, CancelExecution, RequestDies
<1>5. ASSUME NEW e \in Executors, ExecutorStep(e) \/ HandlerRaises(e) \/ ExecutorDies(e)
      PROVE  run' = run
  <2>1. CASE SucceedRun(e) \/ FailRun(e)
    BY <1>1, <2>1 DEF SucceedRun, FailRun
  <2>2. CASE UNCHANGED run
    BY <2>2
  <2> QED BY <1>5, <2>1, <2>2
       DEF ExecutorStep, ExecutorDies, ClaimExecution, EnterRun, Boundary, BeginPlan, Decide, NumberTool,
           BeginTool, CallTool, ImportFetched, ImportRefused, MarkPromoted, PublishExecution,
           BeginClaim, DispatchExecution, HandlerRaises
<1>6. ASSUME NEW k \in Keys, LeaseRunsOut(k) \/ CancelJob(k)
      PROVE  run' = run
  BY <1>6 DEF LeaseRunsOut, CancelJob
<1> QED BY <1>2, <1>3, <1>4, <1>5, <1>6 DEF ResearchNext

(* research.py: every later transition is a compare-and-swap, so a run     *)
(* that ended stays as it ended; and its side effects were approved.       *)
THEOREM RunRights == ResearchSpec => ResearchRights
<1>1. RunInv => SideEffectsApproved
  BY DEF RunInv, LedgerInv
<1>2. RunInv /\ [ResearchNext]_researchVars
        => [run.status \in EndedRunStates => run' = run]_run
  BY EndedStays
<1> QED BY <1>1, <1>2, RunInvAlways, PTL DEF ResearchSpec, ResearchRights, EndedRunIsFinal

(* The types of the invariant are the types the runs check.                *)
LEMMA TypesGive == RunInv => ResearchTypeOK
<1> SUFFICES ASSUME RunInv PROVE ResearchTypeOK
  OBVIOUS
<1>1. Types /\ Refs
  BY DEF RunInv, LedgerInv
<1>2. run.status \in RunStatuses \cup {"absent"} /\ run.revision \in Nat /\ imported \in Nat
      /\ \A k \in Keys : orchestrator[k].state \in {"none", "queued", "claimed", "settled"}
  BY <1>1 DEF Types, RunRows, JobRows
<1>3. ASSUME NEW i \in DOMAIN steps
      PROVE  /\ steps[i].status \in {"running", "succeeded", "failed"}
             /\ steps[i].evidence \in {0} \cup DOMAIN evidence
  <2>1. i \in 1..Len(steps) /\ DOMAIN evidence = 1..Len(evidence) /\ Len(evidence) \in Nat
    BY <1>1, LedgerNumbers
  <2>2. steps[i] \in StepRows /\ steps[i].evidence \in Nat /\ steps[i].evidence <= Len(evidence)
    BY <1>1, <2>1, LedgerNumbers DEF Refs
  <2> QED BY <2>1, <2>2 DEF StepRows
<1>4. ASSUME NEW e \in Executors PROVE exec[e].step \in 0..Len(steps)
  BY <1>1, LedgerNumbers DEF Refs
<1> QED BY <1>2, <1>3, <1>4 DEF ResearchTypeOK

-----------------------------------------------------------------------------
(* Who drives a running run.                                               *)

(* Who was handed a job finds that it still has it.                        *)
LEMMA NotLost ==
  ASSUME Types, JobsHeld, NEW e \in Executors, Handed(e)
  PROVE  LostAfterReport(e) = FALSE /\ exec[e].lost = FALSE
BY DEF JobsHeld, Handed, LostAfterReport, Types, ExecRows

(* Who was handed a job has a claimed one.                                 *)
LEMMA HeldJob ==
  ASSUME Types, JobsHeld, NEW e \in Executors, Handed(e)
  PROVE  exec[e].key \in Keys /\ orchestrator[exec[e].key].state = "claimed"
<1>1. orchestrator[exec[e].key] = [state |-> "claimed", owner |-> e]
  BY DEF JobsHeld
<1>2. exec[e].key \in Keys
  BY DEF Types, ExecRows
<1> QED BY <1>1, <1>2

(* Steps that leave the run, its jobs and executors alone.                 *)
LEMMA DriveFrame ==
  ASSUME RunInv, Drive, UNCHANGED <<run, orchestrator, exec>>
  PROVE  Drive'
BY DEF Drive, JobsHeld, JobsBehind, Handed, Entered, LastJobOpen

(* A step of an executor that keeps its job.                               *)
LEMMA DriveStep ==
  ASSUME RunInv, Drive, UNCHANGED <<run, orchestrator>>,
         NEW e \in Executors, Handed(e), NEW at \in ExecPlaces \ {"idle", "claim"}, At(e, at),
         exec'[e].lost = FALSE,
         at \in {"dispatch", "enter", "raise"} \/ exec[e].key < run.revision,
         at = "publish" => run.status # "running"
  PROVE  Drive'
<1>1. \A f \in Executors : f # e => exec'[f] = exec[f]
  BY DEF At
<1>2. exec'[e].pc = at /\ exec'[e].key = exec[e].key
  BY DEF At
<1>3. JobsHeld'
  <2>1. ASSUME NEW f \in Executors, f # e
        PROVE  /\ exec'[f].pc # "idle" => exec'[f].lost = FALSE
               /\ Handed(f)' => orchestrator[exec'[f].key] = [state |-> "claimed", owner |-> f]
    BY <1>1, <2>1 DEF Drive, JobsHeld, Handed
  <2>2. orchestrator[exec'[e].key] = [state |-> "claimed", owner |-> e]
    BY <1>2 DEF Drive, JobsHeld
  <2> QED BY <2>1, <2>2 DEF JobsHeld
<1>4. JobsBehind'
  BY <1>1, <1>2 DEF Drive, JobsBehind, Entered
<1>5. LastJobOpen'
  BY <1>1, <1>2 DEF Drive, LastJobOpen
<1> QED BY <1>3, <1>4, <1>5 DEF Drive

(* An executor that becomes idle, or begins to look for a job, while no    *)
(* job changes.                                                            *)
LEMMA DriveAside ==
  ASSUME RunInv, Drive, UNCHANGED <<run, orchestrator>>,
         NEW e \in Executors, OnlyExec(e), exec'[e].pc \in {"idle", "claim"},
         exec'[e].pc = "claim" => exec'[e].lost = FALSE
  PROVE  Drive'
<1>1. \A f \in Executors : f # e => exec'[f] = exec[f]
  BY DEF OnlyExec
<1>2. JobsHeld'
  BY <1>1 DEF Drive, JobsHeld, Handed
<1>3. JobsBehind'
  BY <1>1 DEF Drive, JobsBehind, Entered
<1>4. LastJobOpen'
  BY <1>1 DEF Drive, LastJobOpen
<1> QED BY <1>2, <1>3, <1>4 DEF Drive

(* An executor leaves, and its job is settled or queued again.             *)
LEMMA DriveLeave ==
  ASSUME RunInv, Drive, UNCHANGED run,
         NEW e \in Executors, Handed(e), exec' = [exec EXCEPT ![e] = IdleExec],
         NEW s \in {"queued", "settled"},
         orchestrator' = [orchestrator EXCEPT ![exec[e].key] = Unclaimed(s)],
         s = "settled" => exec[e].pc = "publish"
  PROVE  Drive'
<1> DEFINE k == exec[e].key
<1>1. Types /\ k \in Keys /\ orchestrator[k] = [state |-> "claimed", owner |-> e]
  BY DEF RunInv, Types, ExecRows, Drive, JobsHeld
<1>2. /\ orchestrator'[k].state = s
      /\ \A l \in Keys : l # k => orchestrator'[l] = orchestrator[l]
  BY <1>1, JobRow, ReplacedJob
<1>3. exec'[e].pc = "idle" /\ \A f \in Executors : f # e => exec'[f] = exec[f]
  BY <1>1, IdleIsExec, ReplacedExec
<1>4. s = "settled" => k < run.revision /\ (run.status = "running" => k # run.revision - 1)
  BY DEF Drive, JobsBehind, Entered, LastJobOpen
<1>5. ASSUME NEW f \in Executors, f # e, Handed(f)
      PROVE  exec[f].key \in Keys /\ exec[f].key # k
  <2>1. orchestrator[exec[f].key] = [state |-> "claimed", owner |-> f] /\ exec[f].key \in Keys
    BY <1>1, <1>5 DEF Drive, JobsHeld, Types, ExecRows
  <2>2. [state |-> "claimed", owner |-> f] # [state |-> "claimed", owner |-> e]
    BY <1>5
  <2> QED BY <1>1, <2>1, <2>2
<1> HIDE DEF k
<1>6. JobsHeld'
  <2>1. ASSUME NEW f \in Executors, f # e, Handed(f)
        PROVE  orchestrator'[exec[f].key] = [state |-> "claimed", owner |-> f]
    BY <1>2, <1>5, <2>1 DEF Drive, JobsHeld
  <2>2. ASSUME NEW f \in Executors, f # e, exec[f].pc # "idle"
        PROVE  exec[f].lost = FALSE
    BY <2>2 DEF Drive, JobsHeld
  <2> QED BY <1>3, <2>1, <2>2 DEF JobsHeld, Handed
<1>7. JobsBehind'
  BY <1>2, <1>3, <1>4 DEF Drive, JobsBehind, Entered
<1>8. LastJobOpen'
  BY <1>2, <1>3, <1>4 DEF Drive, LastJobOpen
<1> QED BY <1>6, <1>7, <1>8 DEF Drive

(* A job that is claimed is held by who claims it.                         *)
LEMMA ClaimDrives ==
  ASSUME RunInv, Drive, NEW e \in Executors, ClaimExecution(e)
  PROVE  Drive'
<1>1. Types /\ exec[e].key \in Keys /\ exec[e].pc = "claim" /\ UNCHANGED run
  BY DEF RunInv, Types, ExecRows, ClaimExecution
<1>2. ASSUME orchestrator[exec[e].key].state = "queued",
             orchestrator'[exec[e].key] = [state |-> "claimed", owner |-> e],
             \A l \in Keys : l # exec[e].key => orchestrator'[l] = orchestrator[l],
             At(e, "dispatch"), exec'[e].lost = exec[e].lost
      PROVE  Drive'
  <2>1. exec'[e].pc = "dispatch" /\ exec'[e].key = exec[e].key
        /\ \A f \in Executors : f # e => exec'[f] = exec[f]
    BY <1>2 DEF At
  <2>2. ASSUME NEW f \in Executors, f # e, Handed(f)
        PROVE  exec[f].key # exec[e].key /\ exec[f].key \in Keys
    BY <1>1, <1>2, <2>2, HeldJob DEF Drive
  <2>3. JobsHeld'
    <3>1. ASSUME NEW f \in Executors, f # e, Handed(f)
          PROVE  orchestrator'[exec[f].key] = [state |-> "claimed", owner |-> f]
      BY <1>2, <2>2, <3>1 DEF Drive, JobsHeld
    <3>2. exec'[e].lost = FALSE
      BY <1>1, <1>2 DEF Drive, JobsHeld
    <3>3. ASSUME NEW f \in Executors, f # e, exec[f].pc # "idle"
          PROVE  exec[f].lost = FALSE
      BY <3>3 DEF Drive, JobsHeld
    <3> QED BY <1>2, <2>1, <3>1, <3>2, <3>3 DEF JobsHeld, Handed
  <2>4. JobsBehind'
    BY <1>1, <1>2, <2>1 DEF Drive, JobsBehind, Entered
  <2>5. LastJobOpen'
    BY <1>1, <1>2, <2>1 DEF Drive, LastJobOpen
  <2> QED BY <2>3, <2>4, <2>5 DEF Drive
<1>3. CASE exec' = [exec EXCEPT ![e] = IdleExec] /\ UNCHANGED orchestrator
  BY <1>1, <1>3, IdleAgain, DriveAside
<1> QED BY <1>1, <1>2, <1>3, ClaimEffect

(* A start whose revision did not move finds its job unentered.            *)
LEMMA ChangeDrives ==
  ASSUME RunInv, Drive, NEW c \in Controllers, ChangeStatus(c), stranded' = {}, Open'
  PROVE  Drive'
<1> DEFINE k == control[c].key
<1>1. Types /\ RowInv /\ run.candidates \in SUBSET Nat /\ run.revision \in Nat
  BY DEF RunInv, Types, RunRows
<1>2. /\ control[c].pc = "cas" /\ control[c].op \in {"start", "pause", "resume"} /\ k \in Keys
      /\ CasStatus(ExpectedStatus(c), TargetOf(control[c].op), run.candidates)
      /\ UNCHANGED <<steps, evidence, orchestrator, exec, imported, researchUsed>>
  BY <1>1 DEF Types, ControlRows, RowInv, Requests, ChangeStatus
<1>3. control[c].op # "pause" => run.revision = k
  BY DEF ChangeStatus
<1>4. CASE run' = run
  BY <1>2, <1>4, DriveFrame
<1>5. CASE run' # run
  <2>1. TargetOf(control[c].op) \in RunStatuses
        /\ (TargetOf(control[c].op) = "running" => control[c].op # "pause")
    BY <1>2 DEF TargetOf, RunStatuses
  <2>2. run.status = ExpectedStatus(c) /\ run'.status = TargetOf(control[c].op)
        /\ run'.revision = run.revision + 1
    BY <1>1, <1>2, <1>5, <2>1, CasEffect
  <2>3. JobsHeld'
    BY <1>2 DEF Drive, JobsHeld, Handed
  <2>4. JobsBehind'
    BY <1>1, <1>2, <2>2 DEF Drive, JobsBehind, Entered, Types, ExecRows, Keys
  <2>5. LastJobOpen'
    <3> SUFFICES ASSUME run'.status = "running" PROVE LastJobOpen'
      BY DEF LastJobOpen
    <3>1. run'.revision - 1 = k /\ control[c].op \in {"start", "resume"} /\ run.revision = k
      BY <1>1, <1>2, <1>3, <2>1, <2>2
    <3>2. orchestrator[k].state # "none" /\ orchestrator[k] \in JobRows
      BY <1>1, <1>2, <3>1 DEF RowInv, Requests, Types
    <3>3. orchestrator[k].state # "settled"
      BY <1>1, <1>2, <3>1 DEF Drive, JobsBehind
    <3>4. orchestrator[k].state \in {"queued", "claimed"}
      BY <3>2, <3>3 DEF JobRows
    <3>5. \A e \in Executors : exec[e].key = k => exec[e].pc # "publish"
      BY <1>1, <3>1 DEF Drive, JobsBehind, Entered
    <3> HIDE DEF k
    <3> QED BY <1>2, <3>1, <3>4, <3>5 DEF LastJobOpen
  <2> QED BY <2>3, <2>4, <2>5 DEF Drive
<1> QED BY <1>4, <1>5

(* Every step of a request, while the run stays open.                      *)
LEMMA RequestDrives ==
  ASSUME RunInv, Drive, Open, NEW c \in Controllers, ReadRun(c) \/ ControlStep(c) \/ RequestDies(c),
         stranded' = {}, Open'
  PROVE  Drive'
<1>1. CASE ReadRun(c) \/ RequestDies(c)
  BY <1>1, DriveFrame DEF ReadRun, RequestDies
<1>2. CASE EnqueueExecution(c)
  <2> DEFINE k == control[c].key
  <2>1. Types /\ k \in Keys /\ UNCHANGED <<run, exec>>
    BY <1>2 DEF RunInv, Types, ControlRows, EnqueueExecution
  <2>2. CASE orchestrator' = orchestrator
    BY <2>1, <2>2, DriveFrame
  <2>3. CASE orchestrator' # orchestrator
    <3>1. orchestrator[k].state = "none" /\ orchestrator' = [orchestrator EXCEPT ![k] = Unclaimed("queued")]
      BY <1>2, <2>3 DEF EnqueueExecution, KeyOf
    <3>2. /\ orchestrator'[k].state = "queued"
          /\ \A l \in Keys : l # k => orchestrator'[l] = orchestrator[l]
      BY <2>1, <3>1, JobRow, ReplacedJob
    <3> HIDE DEF k
    <3>3. JobsHeld'
      <4>1. ASSUME NEW e \in Executors, Handed(e)
            PROVE  orchestrator'[exec[e].key] = [state |-> "claimed", owner |-> e]
        <5>1. exec[e].key \in Keys /\ orchestrator[exec[e].key].state = "claimed"
          BY <2>1, <4>1, HeldJob DEF Drive
        <5> QED BY <3>1, <3>2, <4>1, <5>1 DEF Drive, JobsHeld
      <4> QED BY <2>1, <4>1 DEF Drive, JobsHeld, Handed
    <3>4. JobsBehind' /\ LastJobOpen'
      BY <2>1, <3>1, <3>2 DEF Drive, JobsBehind, Entered, LastJobOpen
    <3> QED BY <3>3, <3>4 DEF Drive
  <2> QED BY <2>2, <2>3
<1>3. CASE ChangeStatus(c)
  BY <1>3, ChangeDrives
<1>4. CASE CancelRun(c)
  <2>1. run.candidates \in SUBSET Nat /\ "cancelled" \in RunStatuses /\ Types
    BY DEF RunInv, Types, RunRows, RunStatuses
  <2>2. run' = run
    BY <1>4, <2>1, CasEffect DEF CancelRun, Open
  <2> QED BY <1>4, <2>2, DriveFrame DEF CancelRun
<1>5. CASE CancelExecution(c)
  BY <1>5 DEF CancelExecution, RunInv, RowInv, Requests, Open
<1> QED BY <1>1, <1>2, <1>3, <1>4, <1>5 DEF ControlStep

(* A job is entered behind its revision, or else the run is stranded.      *)
LEMMA EnterDrives ==
  ASSUME RunInv, Drive, Open, NEW e \in Executors, EnterRun(e), stranded' = {}
  PROVE  Drive'
<1>1. exec[e].pc = "enter" /\ Handed(e) /\ UNCHANGED <<run, orchestrator>>
  BY DEF EnterRun, Handed
<1>2. run.status = "running"
  BY DEF EnterRun, Open
<1>3. exec[e].key < run.revision
  <2>1. exec[e].key \in Keys /\ orchestrator[exec[e].key].state = "claimed"
    BY <1>1, HeldJob DEF RunInv, Drive
  <2> QED BY <1>2, <2>1 DEF RunInv, RowInv, KeysBehind, Behind, Waits
<1>4. exec[e].lost = FALSE
  BY <1>1, NotLost DEF RunInv, Drive
<1>5. PICK at \in {"fail", "boundary"} : At(e, at) /\ exec'[e].lost = exec[e].lost
  BY <1>2, EnterKeepsInv
<1> QED BY <1>1, <1>3, <1>4, <1>5, DriveStep DEF ExecPlaces

(* A step that begins takes its number, or finds it taken.                 *)
LEMMA BeginDrives ==
  ASSUME RunInv, Drive, NEW e \in Executors, exec[e].pc \in {"plan", "begin_tool"},
         NEW t \in ProposalTools, NEW next \in {"decide", "tool", "import"}, BeginStep(e, t, next),
         UNCHANGED <<run, orchestrator>>
  PROVE  Drive'
<1>1. Handed(e) /\ exec[e].key < run.revision
  BY DEF Drive, JobsBehind, Handed, Entered
<1>2. next \in ExecPlaces /\ next # "idle" /\ next # "claim" /\ Types
  BY DEF ExecPlaces, RunInv
<1>3. LostAfterReport(e) = FALSE /\ exec[e].lost = FALSE
  BY <1>1, <1>2, NotLost DEF Drive
<1>4. CASE At(e, next) /\ exec'[e].lost = LostAfterReport(e)
  BY <1>1, <1>2, <1>3, <1>4, DriveStep
<1>5. CASE At(e, "raise") /\ exec'[e].lost = exec[e].lost
  BY <1>1, <1>3, <1>5, DriveStep DEF ExecPlaces
<1> QED BY <1>2, <1>4, <1>5, BegunStep

(* Every step of an executor: a job is settled only by the end of the run  *)
(* or after a pause.                                                       *)
LEMMA ExecutorDrives ==
  ASSUME RunInv, Drive, Open, NEW e \in Executors, ExecutorStep(e) \/ HandlerRaises(e) \/ ExecutorDies(e),
         stranded' = {}, Open'
  PROVE  Drive'
<1>1. Types /\ JobsHeld
  BY DEF RunInv, Drive
<1>2. Handed(e) => LostAfterReport(e) = FALSE /\ exec[e].lost = FALSE
  BY <1>1, NotLost
<1>3. Entered(e) => Handed(e) /\ exec[e].key < run.revision
  BY DEF Drive, JobsBehind, Handed, Entered
<1>4. ASSUME NEW at \in {"boundary", "fail", "succeed", "number"}, At(e, at), exec'[e].lost = FALSE,
             Entered(e), UNCHANGED <<run, orchestrator>>
      PROVE  Drive'
  BY <1>3, <1>4, DriveStep DEF ExecPlaces
<1>5. CASE Boundary(e)
  <2>1. Entered(e) /\ UNCHANGED <<run, orchestrator>>
    BY <1>5 DEF Boundary, Entered
  <2>2. \E at \in {"publish", "fail", "plan"} :
          /\ At(e, at) /\ exec'[e].lost = exec[e].lost
          /\ at = "publish" => BoundaryStops(e)
          /\ at = "plan" => exec'[e].n = Len(steps) + 1
    BY <1>5, BoundaryKeepsInv
  <2> QED BY <1>2, <1>3, <2>1, <2>2, DriveStep DEF BoundaryStops, ExecPlaces
<1>6. CASE BeginPlan(e)
  BY <1>6, BeginDrives DEF BeginPlan, ProposalTools
<1>7. CASE BeginTool(e)
  <2>1. exec[e].proposal.tool \in ProposalTools
    BY <1>1 DEF Types, ExecRows
  <2> QED BY <1>7, <2>1, BeginDrives DEF BeginTool
<1>8. CASE Decide(e)
  <2>1. exec[e].pc = "decide" /\ Entered(e) /\ UNCHANGED <<run, orchestrator>>
    BY <1>8 DEF Decide, Entered
  <2>2. exec[e].step \in 1..Len(steps)
    BY <2>1, HeldStep DEF Holds
  <2>3. PICK at \in {"boundary", "fail", "succeed", "number"} :
          At(e, at) /\ (exec'[e].lost = exec[e].lost \/ exec'[e].lost = LostAfterReport(e))
    BY <1>1, <1>8, <2>2, DecideEffect
  <2> QED BY <1>2, <1>3, <1>4, <2>1, <2>3
<1>9. CASE NumberTool(e)
  <2>1. Entered(e) /\ UNCHANGED <<run, orchestrator>>
    BY <1>9 DEF NumberTool, Entered
  <2>2. At(e, "begin_tool") /\ exec'[e].lost = exec[e].lost
    BY <1>9, NumberKeepsInv
  <2> QED BY <1>2, <1>3, <2>1, <2>2, DriveStep DEF ExecPlaces
<1>10. CASE CallTool(e)
  BY <1>2, <1>3, <1>4, <1>10, CallKeepsInv DEF CallTool, Entered
<1>11. CASE ImportFetched(e) \/ ImportRefused(e)
  <2>1. Entered(e) /\ UNCHANGED <<run, orchestrator>>
    BY <1>11 DEF ImportFetched, ImportRefused, Entered
  <2>2. CASE Goto_(e, "promote")
    <3>1. At(e, "promote") /\ exec'[e].lost = exec[e].lost
      BY <1>1, <2>2, GotoAt DEF ExecPlaces
    <3> QED BY <1>2, <1>3, <2>1, <3>1, DriveStep DEF ExecPlaces
  <2>3. CASE BackToBoundary(e)
    BY <1>1, <1>2, <1>3, <1>4, <2>1, <2>3, BoundaryAt
  <2> QED BY <1>11, <2>2, <2>3 DEF ImportFetched, ImportRefused
<1>12. CASE MarkPromoted(e)
  BY <1>2, <1>3, <1>4, <1>12, MarkKeepsInv DEF MarkPromoted, Entered
<1>13. CASE SucceedRun(e) \/ FailRun(e)
  <2>1. PICK st \in EndedRunStates, found \in SUBSET Nat : CasStatus("running", st, found)
    BY <1>1, <1>13 DEF SucceedRun, FailRun, EndedRunStates, Types, ExecRows, RunRows
  <2>2. run' = run /\ run.status # "running"
    <3>1. st \in RunStatuses
      BY DEF EndedRunStates, RunStatuses
    <3>2. run.status # "running"
      BY <1>1, <2>1, <3>1, CasEffect DEF Open, EndedRunStates
    <3> QED BY <1>1, <2>1, <3>1, <3>2, CasEffect
  <2>3. Entered(e) /\ LeaveHandler(e, "publish") /\ UNCHANGED orchestrator
    BY <1>13 DEF SucceedRun, FailRun, Entered
  <2>4. At(e, "publish") /\ exec'[e].lost = exec[e].lost
    BY <1>1, <2>3, LeaveAt DEF ExecPlaces
  <2> QED BY <1>2, <1>3, <2>2, <2>3, <2>4, DriveStep DEF ExecPlaces
<1>14. CASE PublishExecution(e)
  <2>1. exec[e].pc = "publish" /\ Handed(e)
    BY <1>14 DEF PublishExecution, Handed
  <2>2. orchestrator[exec[e].key] = [state |-> "claimed", owner |-> e]
    BY <1>1, <2>1 DEF JobsHeld
  <2>3. orchestrator' = [orchestrator EXCEPT ![exec[e].key] = Unclaimed("settled")]
    BY <1>14, <2>2 DEF PublishExecution, SettledJob
  <2> QED BY <1>14, <2>1, <2>3, DriveLeave DEF PublishExecution
<1>15. CASE ExecutorDies(e)
  <2>1. exec' = [exec EXCEPT ![e] = IdleExec] /\ UNCHANGED run /\ exec[e].key \in Keys /\ exec[e].pc # "idle"
    BY <1>1, <1>15 DEF ExecutorDies, Types, ExecRows
  <2>2. CASE exec[e].pc = "claim"
    <3>1. UNCHANGED orchestrator
      BY <1>15, <2>2 DEF ExecutorDies
    <3> QED BY <1>1, <2>1, <3>1, IdleAgain, DriveAside
  <2>3. CASE exec[e].pc # "claim"
    <3>1. Handed(e) /\ orchestrator[exec[e].key] = [state |-> "claimed", owner |-> e]
      BY <1>1, <2>1, <2>3 DEF JobsHeld, Handed
    <3>2. orchestrator' \in ReapedJob(exec[e].key) /\ orchestrator' # SettledJob(exec[e].key)
      BY <1>15, <2>3, <3>1 DEF ExecutorDies
    <3>3. orchestrator' = [orchestrator EXCEPT ![exec[e].key] = Unclaimed("queued")]
      BY <3>2 DEF ReapedJob
    <3> QED BY <2>1, <3>1, <3>3, DriveLeave
  <2> QED BY <2>2, <2>3
<1>16. CASE BeginClaim(e)
  BY <1>1, <1>16, BeginClaimEffect, DriveAside DEF BeginClaim
<1>17. CASE DispatchExecution(e)
  <2>1. exec[e].pc = "dispatch" /\ Handed(e) /\ UNCHANGED <<run, orchestrator>>
    BY <1>17 DEF DispatchExecution, Handed
  <2>2. orchestrator[exec[e].key] = [state |-> "claimed", owner |-> e]
    BY <1>1, <2>1 DEF JobsHeld
  <2>3. Goto_(e, "enter")
    BY <1>17, <2>2 DEF DispatchExecution
  <2>4. At(e, "enter") /\ exec'[e].lost = exec[e].lost
    BY <1>1, <2>3, GotoAt DEF ExecPlaces
  <2> QED BY <1>2, <2>1, <2>4, DriveStep DEF ExecPlaces
<1>18. CASE HandlerRaises(e)
  <2>1. Handed(e) /\ LeaveHandler(e, "raise") /\ UNCHANGED <<run, orchestrator>>
    BY <1>18 DEF HandlerRaises, Handed
  <2>2. At(e, "raise") /\ exec'[e].lost = exec[e].lost
    BY <1>1, <2>1, LeaveAt DEF ExecPlaces
  <2> QED BY <1>2, <2>1, <2>2, DriveStep DEF ExecPlaces
<1> QED BY <1>5, <1>6, <1>7, <1>8, <1>9, <1>10, <1>11, <1>12, <1>13, <1>14, <1>15, <1>16, <1>17, <1>18,
           ClaimDrives, EnterDrives DEF ExecutorStep

(* Nothing drives at first, for nothing is open,                           *)
LEMMA DrivingInit == ResearchInit => Driving
BY DEF ResearchInit, NoRun, Driving, Open

(* and every step that strands nobody keeps it.                            *)
LEMMA DrivingStep == RunInv /\ Driving /\ [ResearchNext]_researchVars => Driving'
<1> SUFFICES ASSUME RunInv, Driving, [ResearchNext]_researchVars, stranded' = {}, Open'
             PROVE  Drive'
  BY DEF Driving
<1>1. CASE CreateRun
  <2>1. /\ \A e \in Executors : exec'[e].pc = "idle"
        /\ \A k \in Keys : orchestrator'[k].state = "none"
    BY <1>1 DEF CreateRun, RunInv, RowInv, Fresh
  <2>2. run'.status = "created"
    BY <1>1, ConfigsChosen DEF CreateRun, NoRun
  <2>3. JobsHeld'
    BY <2>1 DEF JobsHeld, Handed
  <2>4. JobsBehind'
    BY <2>1 DEF JobsBehind, Entered
  <2> QED BY <2>2, <2>3, <2>4 DEF Drive, LastJobOpen
<1>2. CASE ~CreateRun
  <2>1. stranded = {}
    BY <1>2, ZenonT(30) DEF ResearchNext, researchVars, ControlStep, ExecutorStep, ReadRun, EnqueueExecution,
       ChangeStatus, CancelRun, CancelExecution, RequestDies, ExecutorDies, LeaseRunsOut, CancelJob, BeginClaim,
       ClaimExecution, DispatchExecution, HandlerRaises,
       EnterRun, Boundary, BeginPlan, Decide, NumberTool, BeginTool, CallTool, ImportFetched, ImportRefused,
       MarkPromoted, SucceedRun, FailRun, PublishExecution
  <2>2. run.status \notin EndedRunStates
    BY EndedStays DEF Open, EndedRunStates
  <2>3. run.status # "absent"
    <3> SUFFICES ASSUME run.status = "absent" PROVE FALSE
      OBVIOUS
    <3>1. /\ \A c \in Controllers : control[c].pc = "idle"
          /\ \A e \in Executors : exec[e].pc = "idle"
          /\ \A k \in Keys : orchestrator[k].state = "none"
      BY DEF RunInv, RowInv, Fresh
    <3>2. run' = run
      BY <1>2, <3>1, ZenonT(30) DEF ResearchNext, researchVars, ControlStep, ExecutorStep, ReadRun, EnqueueExecution,
       ChangeStatus, CancelRun, CancelExecution, RequestDies, ExecutorDies, LeaseRunsOut, CancelJob, BeginClaim,
       ClaimExecution, DispatchExecution, HandlerRaises,
       EnterRun, Boundary, BeginPlan, Decide, NumberTool, BeginTool, CallTool, ImportFetched, ImportRefused,
       MarkPromoted, SucceedRun, FailRun, PublishExecution
    <3> QED BY <3>2 DEF Open
  <2>4. Open /\ Drive
    <3>1. run.status \in RunStatuses \cup {"absent"}
      BY DEF RunInv, Types, RunRows
    <3> QED BY <2>1, <2>2, <2>3, <3>1 DEF Open, RunStatuses, EndedRunStates, Driving
  <2>5. CASE UNCHANGED researchVars
    BY <2>4, <2>5, DriveFrame DEF researchVars
  <2>6. ASSUME NEW k \in Keys, LeaseRunsOut(k) \/ CancelJob(k) PROVE FALSE
    BY <2>6 DEF LeaseRunsOut, CancelJob
  <2> QED BY <1>2, <2>4, <2>5, <2>6, RequestDrives, ExecutorDrives DEF ResearchNext
<1> QED BY <1>1, <1>2

(* While an open run is not stranded, whoever works on it holds the job it *)
(* works under, and the job of its last start is open.                     *)
THEOREM DrivingAlways == ResearchSpec => []Driving
BY DrivingInit, DrivingStep, RunInvAlways, PTL DEF ResearchSpec, ResearchInit

(* Whoever controls a run and whoever executes it, a running run that none *)
(* of the eight cases has stranded has a job that is queued or held.       *)
THEOREM RunIsDriven == ResearchSpec => []RunningIsDriven
<1>1. RunInv /\ Driving => RunningIsDriven
  BY DEF Driving, Open, Drive, LastJobOpen, RunningIsDriven, HasOpenJob, OpenJob
<1> QED BY <1>1, RunInvAlways, DrivingAlways, PTL

-----------------------------------------------------------------------------
(* What a run may use.                                                     *)

(* Sets of executors can be counted.                                       *)
LEMMA ExecutorSets ==
  ASSUME NEW S \in SUBSET Executors
  PROVE  IsFiniteSet(S) /\ Cardinality(S) \in Nat
BY ResearchAssumption, FS_Subset, FS_CardinalityType

(* What the counting below needs to know of the sets and numbers it counts *)
(* with.                                                                   *)
CountTyping ==
  /\ Active \subseteq Executors /\ Working \subseteq Executors /\ Planned \subseteq Working
  /\ Importing \subseteq Working /\ ToImport \subseteq Working /\ Working \subseteq Active
  /\ IsFiniteSet(Promoted) /\ Cardinality(Promoted) \in Nat
  /\ IsFiniteSet(Claimed) /\ Cardinality(Claimed) \in Nat
  /\ Lost \in Nat /\ Beside \in Nat /\ imported \in Nat /\ Len(steps) \in Nat
  /\ run.config.steps \in Nat /\ run.config.imports \in Nat

(* The counts are numbers,                                                 *)
LEMMA CountTypes == Types => CountTyping
<1> SUFFICES ASSUME Types PROVE CountTyping
  OBVIOUS
<1>1. /\ Active \subseteq Executors /\ Working \subseteq Executors /\ Planned \subseteq Working
      /\ Importing \subseteq Working /\ ToImport \subseteq Working /\ Working \subseteq Active
  BY DEF Active, Working, Planned, Importing, ToImport
<1>2. IsFiniteSet(Promoted) /\ Cardinality(Promoted) \in Nat
  <2>1. Promoted \subseteq 1..Len(evidence) /\ IsFiniteSet(1..Len(evidence))
    BY LedgerNumbers, FS_Interval DEF Promoted
  <2> QED BY <2>1, FS_Subset, FS_CardinalityType
<1>3. IsFiniteSet(Claimed) /\ Cardinality(Claimed) \in Nat
  <2>1. Claimed \subseteq 0..MaxControls /\ IsFiniteSet(0..MaxControls)
    BY ResearchAssumption, FS_Interval DEF Claimed, Keys
  <2> QED BY <2>1, FS_Subset, FS_CardinalityType
<1>4. run.config \in Configs /\ Lost \in Nat /\ Beside \in Nat /\ imported \in Nat
  BY DEF Types, RunRows, Used, Lost, Beside
<1> QED BY <1>1, <1>2, <1>3, <1>4, LedgerNumbers, ResearchAssumption DEF CountTyping

(* after the step as well.                                                 *)
LEMMA CountTypesNext == Types' => CountTyping'
BY CountTypes, PTL

(* No claim is none.                                                       *)
LEMMA NoneClaimed ==
  ASSUME Claimed = {}
  PROVE  Cardinality(Claimed) = 0
BY FS_EmptySet

(* One executor's step: what it has to show of itself for the bounds.      *)
LEMMA CountsStep ==
  ASSUME RunInv, RunInv', Counts, NEW e \in Executors, OnlyExec(e), ActiveBound',
         run'.config = run.config, researchUsed'.expiries = researchUsed.expiries, researchUsed'.cancels = researchUsed.cancels,
         researchUsed'.overlaps = researchUsed.overlaps,
         e \in Working' => e \in Working \/ Open',
         exec'[e].pc = "plan" => exec'[e].n <= run.config.steps,
         \/ Len(steps') = Len(steps) /\ (e \in Planned' => e \in Planned)
         \/ Len(steps') = Len(steps) + 1 /\ e \in Planned /\ e \notin Planned'
         \/ Len(steps') <= run.config.steps,
         \/ Promoted' \subseteq Promoted /\ (e \in Importing' => e \in Importing)
         \/ Promoted' \subseteq Promoted /\ Cardinality(Promoted) < run.config.imports
         \/ /\ \E x : Promoted' \subseteq Promoted \cup {x}
            /\ e \in Importing /\ e \notin Importing',
         run.config.planner = "discovery" =>
           \/ imported' = imported /\ (e \in ToImport' => e \in ToImport)
           \/ imported' = imported + 1 /\ e \in ToImport /\ e \notin ToImport'
           \/ imported' = 0,
         ImportLeavesStep'
  PROVE  Counts'
<1>1. Types /\ Types' /\ Beside' = Beside
  BY DEF RunInv, Beside
<1>2. /\ Working' \subseteq Working \cup {e} /\ Planned' \subseteq Planned \cup {e}
      /\ Importing' \subseteq Importing \cup {e} /\ ToImport' \subseteq ToImport \cup {e}
  BY DEF OnlyExec, Working, Planned, Importing, ToImport
<1>3. /\ Working \subseteq Executors /\ Planned \subseteq Working /\ Importing \subseteq Working
      /\ ToImport \subseteq Working
      /\ Working' \subseteq Executors /\ Planned' \subseteq Working' /\ Importing' \subseteq Working'
      /\ ToImport' \subseteq Working' /\ Working' \subseteq Active' /\ Active' \subseteq Executors
  BY <1>1, CountTypes, CountTypesNext DEF CountTyping
<1>4. /\ IsFiniteSet(Working) /\ Cardinality(Working) \in Nat
      /\ IsFiniteSet(Planned) /\ Cardinality(Planned) \in Nat
      /\ IsFiniteSet(Importing) /\ Cardinality(Importing) \in Nat
      /\ IsFiniteSet(ToImport) /\ Cardinality(ToImport) \in Nat
      /\ IsFiniteSet(Working') /\ Cardinality(Working') \in Nat
      /\ IsFiniteSet(Planned') /\ Cardinality(Planned') \in Nat
      /\ IsFiniteSet(Importing') /\ Cardinality(Importing') \in Nat
      /\ IsFiniteSet(ToImport') /\ Cardinality(ToImport') \in Nat
      /\ IsFiniteSet(Active') /\ Cardinality(Active') \in Nat
  BY <1>3, ExecutorSets
<1>5. /\ IsFiniteSet(Promoted) /\ Cardinality(Promoted) \in Nat
      /\ IsFiniteSet(Promoted') /\ Cardinality(Promoted') \in Nat
      /\ Beside \in Nat /\ imported \in Nat /\ imported' \in Nat
      /\ run.config.steps \in Nat /\ run.config.imports \in Nat
      /\ Len(steps) \in Nat /\ Len(steps') \in Nat
  BY <1>1, CountTypes, CountTypesNext DEF CountTyping
<1> DEFINE w == Cardinality(Working')  pl == Cardinality(Planned)  plN == Cardinality(Planned')
           im == Cardinality(Importing)  imN == Cardinality(Importing')
           pr == Cardinality(Promoted)  prN == Cardinality(Promoted')
           to == Cardinality(ToImport)  toN == Cardinality(ToImport')
           x == Beside  len == Len(steps)  lenN == Len(steps')
           maxSteps == run.config.steps  maxImports == run.config.imports
           i == imported  iN == imported'
<1>0. /\ w \in Nat /\ pl \in Nat /\ plN \in Nat /\ im \in Nat /\ imN \in Nat /\ pr \in Nat /\ prN \in Nat
      /\ to \in Nat /\ toN \in Nat /\ x \in Nat /\ len \in Nat /\ lenN \in Nat
      /\ maxSteps \in Nat /\ maxImports \in Nat /\ i \in Nat /\ iN \in Nat
  BY <1>4, <1>5
<1>6. Cardinality(Working') <= 1 + Beside
  <2>1. CASE e \in Working' => e \in Working
    <3>1. Working' \subseteq Working
      BY <1>2, <2>1
    <3>2. Cardinality(Working') <= Cardinality(Working)
      BY <1>4, <3>1, NoMore
    <3>3. Cardinality(Working) <= 1 + Beside
      BY DEF Counts, WorkingBound
    <3> HIDE DEF Working
    <3> QED BY <1>4, <1>5, <3>2, <3>3
  <2>2. CASE Open'
    <3>1. Cardinality(Working') <= Cardinality(Active')
      BY <1>3, <1>4, NoMore
    <3>2. Cardinality(Active') <= 1 + Beside
      BY <1>1, <2>2 DEF ActiveBound
    <3> DEFINE cw == Cardinality(Working')  ca == Cardinality(Active')  b == Beside
    <3>3. cw \in Nat /\ ca \in Nat /\ b \in Nat /\ cw <= ca /\ ca <= 1 + b
      BY <1>4, <1>5, <3>1, <3>2
    <3>4. cw <= 1 + b
      <4> HIDE DEF cw, ca, b
      <4> QED BY <3>3
    <3> QED BY <3>4
  <2> QED BY <2>1, <2>2
<1>7. PlansInBudget'
  BY DEF Counts, PlansInBudget, OnlyExec
<1>8. StepsBound'
  <2> SUFFICES Len(steps') + Cardinality(Planned') <= run.config.steps + 1 + Beside
    BY <1>1 DEF StepsBound
  <2>0. Len(steps) + Cardinality(Planned) <= run.config.steps + 1 + Beside
    BY DEF Counts, StepsBound
  <2>1. CASE Len(steps') = Len(steps) /\ (e \in Planned' => e \in Planned)
    <3>1. Cardinality(Planned') <= Cardinality(Planned)
      BY <1>2, <1>4, <2>1, NoMore
    <3>2. len + pl <= maxSteps + 1 + x /\ lenN = len /\ plN <= pl
      BY <2>0, <2>1, <3>1
    <3>3. lenN + plN <= maxSteps + 1 + x
      <4> HIDE DEF w, pl, plN, im, imN, pr, prN, to, toN, x, len, lenN, maxSteps, maxImports
      <4> QED BY <1>0, <3>2
    <3> QED BY <3>3
  <2>2. CASE Len(steps') = Len(steps) + 1 /\ e \in Planned /\ e \notin Planned'
    <3>1. Cardinality(Planned') <= Cardinality(Planned) - 1
      BY <1>2, <1>4, <2>2, OneLess
    <3>2. len + pl <= maxSteps + 1 + x /\ lenN = len + 1 /\ plN <= pl - 1
      BY <2>0, <2>2, <3>1
    <3>3. lenN + plN <= maxSteps + 1 + x
      <4> HIDE DEF w, pl, plN, im, imN, pr, prN, to, toN, x, len, lenN, maxSteps, maxImports
      <4> QED BY <1>0, <3>2
    <3> QED BY <3>3
  <2>3. CASE Len(steps') <= run.config.steps
    <3>1. Cardinality(Planned') <= Cardinality(Working')
      BY <1>3, <1>4, NoMore
    <3>2. w <= 1 + x /\ lenN <= maxSteps /\ plN <= w
      BY <1>6, <2>3, <3>1
    <3>3. lenN + plN <= maxSteps + 1 + x
      <4> HIDE DEF w, pl, plN, im, imN, pr, prN, to, toN, x, len, lenN, maxSteps, maxImports
      <4> QED BY <1>0, <3>2
    <3> QED BY <3>3
  <2> QED BY <2>1, <2>2, <2>3
<1>9. ImportingBound'
  <2> SUFFICES Cardinality(Promoted') + Cardinality(Importing') <= run.config.imports + Beside
    BY <1>1 DEF ImportingBound
  <2>0. Cardinality(Promoted) + Cardinality(Importing) <= run.config.imports + Beside
    BY DEF Counts, ImportingBound
  <2>1. CASE Promoted' \subseteq Promoted /\ (e \in Importing' => e \in Importing)
    <3>1. Cardinality(Importing') <= Cardinality(Importing) /\ Cardinality(Promoted') <= Cardinality(Promoted)
      BY <1>2, <1>4, <1>5, <2>1, NoMore
    <3>2. pr + im <= maxImports + x /\ imN <= im /\ prN <= pr
      BY <2>0, <3>1
    <3>3. prN + imN <= maxImports + x
      <4> HIDE DEF w, pl, plN, im, imN, pr, prN, to, toN, x, len, lenN, maxSteps, maxImports
      <4> QED BY <1>0, <3>2
    <3> QED BY <3>3
  <2>2. CASE Promoted' \subseteq Promoted /\ Cardinality(Promoted) < run.config.imports
    <3>1. Cardinality(Importing') <= Cardinality(Working') /\ Cardinality(Promoted') <= Cardinality(Promoted)
      BY <1>3, <1>4, <1>5, <2>2, NoMore
    <3>2. w <= 1 + x /\ imN <= w /\ prN <= pr /\ pr < maxImports
      BY <1>6, <2>2, <3>1
    <3>3. prN + imN <= maxImports + x
      <4> HIDE DEF w, pl, plN, im, imN, pr, prN, to, toN, x, len, lenN, maxSteps, maxImports
      <4> QED BY <1>0, <3>2
    <3> QED BY <3>3
  <2>3. ASSUME NEW target, Promoted' \subseteq Promoted \cup {target}, e \in Importing, e \notin Importing'
        PROVE  Cardinality(Promoted') + Cardinality(Importing') <= run.config.imports + Beside
    <3>1. Cardinality(Importing') <= Cardinality(Importing) - 1
      BY <1>2, <1>4, <2>3, OneLess
    <3>2. Cardinality(Promoted') <= Cardinality(Promoted) + 1
      BY <1>5, <2>3, OneMore
    <3>3. pr + im <= maxImports + x /\ imN <= im - 1 /\ prN <= pr + 1
      BY <2>0, <3>1, <3>2
    <3>4. prN + imN <= maxImports + x
      <4> HIDE DEF w, pl, plN, im, imN, pr, prN, to, toN, x, len, lenN, maxSteps, maxImports
      <4> QED BY <1>0, <3>3
    <3> QED BY <3>4
  <2> QED BY <2>1, <2>2, <2>3
<1>10. ToImportBound'
  <2> SUFFICES ASSUME run.config.planner = "discovery"
               PROVE  iN + toN <= 1 + x
    BY <1>1 DEF ToImportBound
  <2>0. i + to <= 1 + x
    BY DEF Counts, ToImportBound
  <2>1. CASE imported' = imported /\ (e \in ToImport' => e \in ToImport)
    <3>1. toN <= to
      BY <1>2, <1>4, <2>1, NoMore
    <3>2. iN = i
      BY <2>1
    <3> HIDE DEF i, iN, w, pl, plN, im, imN, pr, prN, to, toN, x, len, lenN, maxSteps, maxImports
    <3> QED BY <1>0, <2>0, <3>1, <3>2
  <2>2. CASE imported' = imported + 1 /\ e \in ToImport /\ e \notin ToImport'
    <3>1. toN <= to - 1
      BY <1>2, <1>4, <2>2, OneLess
    <3>2. iN = i + 1
      BY <2>2
    <3> HIDE DEF i, iN, w, pl, plN, im, imN, pr, prN, to, toN, x, len, lenN, maxSteps, maxImports
    <3> QED BY <1>0, <2>0, <3>1, <3>2
  <2>3. CASE imported' = 0
    <3>1. toN <= w
      BY <1>3, <1>4, NoMore
    <3>2. iN = 0
      BY <2>3
    <3>3. w <= 1 + x
      BY <1>6
    <3> HIDE DEF i, iN, w, pl, plN, im, imN, pr, prN, to, toN, x, len, lenN, maxSteps, maxImports
    <3> QED BY <1>0, <3>1, <3>2, <3>3
  <2> QED BY <2>1, <2>2, <2>3
<1> QED BY <1>1, <1>6, <1>7, <1>8, <1>9, <1>10 DEF Counts, WorkingBound

(* Steps that leave what every executor can still use up.                  *)
LEMMA CountsKept ==
  ASSUME RunInv, RunInv', Counts, UNCHANGED <<steps, evidence, imported>>,
         UNCHANGED <<Working, Planned, Importing, ToImport>>, PlansInBudget',
         run'.config = run.config, Beside' >= Beside, ActiveBound'
  PROVE  Counts'
<1>1. Types /\ Types'
  BY DEF RunInv
<1>2. /\ Working' = Working /\ Planned' = Planned /\ Importing' = Importing /\ ToImport' = ToImport
      /\ Promoted' = Promoted
  BY DEF Promoted
<1>3. Cardinality(Working) \in Nat /\ Cardinality(Planned) \in Nat /\ Cardinality(Importing) \in Nat
      /\ Cardinality(ToImport) \in Nat
  <2>1. Working \subseteq Executors /\ Planned \subseteq Executors /\ Importing \subseteq Executors
        /\ ToImport \subseteq Executors
    BY DEF Working, Planned, Importing, ToImport
  <2> QED BY <2>1, ExecutorSets
<1>4. /\ Cardinality(Promoted) \in Nat /\ Beside \in Nat /\ Beside' \in Nat /\ imported \in Nat
      /\ run.config.steps \in Nat /\ run.config.imports \in Nat /\ Len(steps) \in Nat
  BY <1>1, CountTypes, CountTypesNext DEF CountTyping
<1>5. WorkingBound' /\ StepsBound'
  <2>1. /\ Cardinality(Working) <= 1 + Beside
        /\ Len(steps) + Cardinality(Planned) <= run.config.steps + 1 + Beside
    BY DEF Counts, WorkingBound, StepsBound
  <2> DEFINE w == Cardinality(Working)  pl == Cardinality(Planned)  len == Len(steps)  max == run.config.steps
             x == Beside  xN == Beside'
  <2>2. w \in Nat /\ pl \in Nat /\ len \in Nat /\ max \in Nat /\ x \in Nat /\ xN \in Nat /\ x <= xN
        /\ w <= 1 + x /\ len + pl <= max + 1 + x
    BY <1>3, <1>4, <2>1
  <2>3. w <= 1 + xN /\ len + pl <= max + 1 + xN
    <3> HIDE DEF w, pl, len, max, x, xN
    <3> QED BY <2>2
  <2> QED BY <1>2, <2>3 DEF WorkingBound, StepsBound
<1>6. ImportingBound' /\ ToImportBound'
  <2> DEFINE pr == Cardinality(Promoted)  im == Cardinality(Importing)  to == Cardinality(ToImport)
             max == run.config.imports  i == imported
             x == Beside  xN == Beside'
  <2>1. /\ pr \in Nat /\ im \in Nat /\ to \in Nat /\ max \in Nat /\ i \in Nat
        /\ x \in Nat /\ xN \in Nat /\ x <= xN
    BY <1>3, <1>4
  <2>2. pr + im <= max + x /\ (run.config.planner = "discovery" => i + to <= 1 + x)
    BY DEF Counts, ImportingBound, ToImportBound
  <2>3. pr + im <= max + xN /\ (run.config.planner = "discovery" => i + to <= 1 + xN)
    <3> HIDE DEF pr, im, to, max, i, x, xN
    <3> QED BY <2>1, <2>2
  <2> QED BY <1>2, <2>3 DEF ImportingBound, ToImportBound
<1>7. ImportLeavesStep'
  BY DEF Counts, ImportLeavesStep
<1> QED BY <1>5, <1>6, <1>7 DEF Counts

(* Steps that leave every executor where it is.                            *)
LEMMA CountsFrame ==
  ASSUME RunInv, RunInv', Counts, UNCHANGED <<steps, evidence, exec, imported>>,
         run'.config = run.config, Beside' >= Beside, ActiveBound'
  PROVE  Counts'
<1>1. /\ Working' = Working /\ Planned' = Planned /\ Importing' = Importing /\ ToImport' = ToImport
      /\ PlansInBudget'
  BY DEF Working, Planned, Importing, ToImport, Counts, PlansInBudget
<1> QED BY <1>1, CountsKept

(* An executor that goes on, or is not at work yet, keeps the count of     *)
(* those at work.                                                          *)
LEMMA ActiveSame ==
  ASSUME RunInv, Counts, NEW e \in Executors, OnlyExec(e),
         exec[e].pc \notin {"idle", "claim"} \/ exec'[e].pc \in {"idle", "claim"},
         UNCHANGED orchestrator, Open' => Open,
         researchUsed'.expiries = researchUsed.expiries, researchUsed'.cancels = researchUsed.cancels,
         researchUsed'.overlaps = researchUsed.overlaps
  PROVE  ActiveBound'
<1> SUFFICES ASSUME Open
             PROVE  /\ Cardinality(Active') <= Cardinality(Claimed') + Lost'
                    /\ Cardinality(Active') <= 1 + Beside'
  BY DEF ActiveBound
<1>1. Active' \subseteq Active /\ Claimed' = Claimed /\ Lost' = Lost /\ Beside' = Beside
  BY DEF Active, OnlyExec, Claimed, Lost, Beside
<1>2. Active \subseteq Executors /\ Active' \subseteq Executors
  BY DEF Active
<1>3. Cardinality(Active') <= Cardinality(Active) /\ Cardinality(Active) \in Nat /\ Cardinality(Active') \in Nat
  BY <1>1, <1>2, ExecutorSets, NoMore
<1>4. Cardinality(Active) <= Cardinality(Claimed) + Lost /\ Cardinality(Active) <= 1 + Beside
  BY DEF Counts, ActiveBound
<1>5. Cardinality(Claimed) \in Nat /\ Lost \in Nat /\ Beside \in Nat
  BY CountTypes DEF CountTyping, RunInv
<1> DEFINE a == Cardinality(Active)  aN == Cardinality(Active')
           bound == Cardinality(Claimed) + Lost  most == 1 + Beside
<1>6. a \in Nat /\ aN \in Nat /\ bound \in Nat /\ most \in Nat /\ aN <= a /\ a <= bound /\ a <= most
  BY <1>3, <1>4, <1>5
<1>7. aN <= bound /\ aN <= most
  <2> HIDE DEF a, aN, bound, most
  <2> QED BY <1>6
<1> QED BY <1>1, <1>7

(* The steps that use nothing up.                                          *)
LEMMA QuietCounts ==
  ASSUME RunInv, RunInv', Counts, NEW e \in Executors, OnlyExec(e),
         exec[e].pc \notin {"idle", "claim"} \/ exec'[e].pc \in {"idle", "claim"},
         UNCHANGED <<orchestrator, imported>>, researchUsed'.expiries = researchUsed.expiries,
         researchUsed'.cancels = researchUsed.cancels, researchUsed'.overlaps = researchUsed.overlaps, Open' => Open, run'.config = run.config,
         Len(steps') = Len(steps), \A i \in 1..Len(steps) : steps'[i].tool = steps[i].tool,
         Promoted' \subseteq Promoted,
         e \in Working' => e \in Working \/ Open', e \in Planned' => e \in Planned,
         e \in Importing' => e \in Importing, e \in ToImport' => e \in ToImport,
         exec'[e].pc # "plan"
  PROVE  Counts'
<1>1. ActiveBound'
  BY ActiveSame
<1>2. ImportLeavesStep'
  BY DEF Counts, ImportLeavesStep
<1> QED BY <1>1, <1>2, CountsStep

(* Who begins to work works on a running run.                              *)
LEMMA EnterCounts ==
  ASSUME RunInv, RunInv', Counts, NEW e \in Executors, EnterRun(e)
  PROVE  Counts'
<1>1. exec[e].pc = "enter" /\ UNCHANGED <<run, steps, evidence, orchestrator, imported, researchUsed>>
  BY DEF EnterRun
<1>2. PICK at \in {"publish", "fail", "boundary"} :
        At(e, at) /\ (at = "boundary" => run.status = "running")
  BY EnterKeepsInv
<1>3. OnlyExec(e) /\ exec'[e].pc = at
  BY <1>2 DEF At, OnlyExec
<1>4. /\ e \notin Planned' /\ e \notin Importing' /\ e \notin ToImport'
      /\ e \in Working' => Open'
  BY <1>1, <1>2, <1>3 DEF Working, Planned, Importing, ToImport, Open
<1>5. Promoted' = Promoted /\ (Open' <=> Open)
  BY <1>1 DEF Promoted, Open
<1> QED BY <1>1, <1>2, <1>3, <1>4, <1>5, QuietCounts

(* A plan is made within the budget, and an import planned only before the *)
(* first.                                                                  *)
LEMMA BoundaryCounts ==
  ASSUME RunInv, RunInv', Counts, NEW e \in Executors, Boundary(e)
  PROVE  Counts'
<1>1. /\ exec[e].pc = "boundary"
      /\ UNCHANGED <<run, steps, evidence, orchestrator, imported, researchUsed>>
  BY DEF Boundary
<1>2. Promoted' = Promoted /\ (Open' <=> Open) /\ e \in Working
  BY <1>1 DEF Promoted, Open, Working
<1>3. CASE At(e, "publish") \/ At(e, "fail")
  <2>1. OnlyExec(e) /\ exec'[e].pc \in {"publish", "fail"}
    BY <1>3 DEF At, OnlyExec
  <2>2. e \notin Working' /\ e \notin Planned' /\ e \notin Importing' /\ e \notin ToImport'
    BY <2>1 DEF Working, Planned, Importing, ToImport
  <2> QED BY <1>1, <1>2, <2>1, <2>2, QuietCounts
<1>4. CASE /\ At(e, "plan") /\ exec'[e].n = Len(steps) + 1 /\ ~StepBudgetSpent(Len(steps))
           /\ run.config.planner = "discovery" /\ exec'[e].proposal.tool = "import" => ImportSteps = {}
  <2>1. OnlyExec(e) /\ exec'[e].pc = "plan"
    BY <1>4 DEF At, OnlyExec
  <2>2. e \notin Planned' /\ e \notin Importing'
    BY <2>1 DEF Planned, Importing
  <2>3. exec'[e].n <= run.config.steps
    <3>1. Len(steps) \in Nat /\ run.config.steps \in Nat
      BY CountTypes DEF CountTyping, RunInv
    <3> QED BY <1>4, <3>1 DEF StepBudgetSpent
  <2>4. run.config.planner = "discovery" => (e \in ToImport' => imported' = 0)
    <3>1. imported \in Nat
      BY CountTypes DEF CountTyping, RunInv
    <3>2. ImportSteps = {} => imported = 0
      BY <3>1 DEF Counts, ImportLeavesStep, ImportSteps
    <3> QED BY <1>1, <1>4, <3>2 DEF ToImport
  <2>5. ActiveBound'
    BY <1>1, <1>2, <2>1, ActiveSame
  <2>6. ImportLeavesStep'
    BY <1>1 DEF Counts, ImportLeavesStep
  <2> QED BY <1>1, <1>2, <2>1, <2>2, <2>3, <2>4, <2>5, <2>6, CountsStep
<1> QED BY <1>3, <1>4, BoundaryKeepsInv

(* Both begins of a step: the plan's, within the budget, and the tool's.   *)
LEMMA BeginCounts ==
  ASSUME RunInv, RunInv', Counts, NEW e \in Executors, exec[e].pc \in {"plan", "begin_tool"},
         NEW t \in ProposalTools, NEW next \in {"decide", "tool", "import"}, BeginStep(e, t, next),
         exec[e].pc = "plan" <=> next = "decide", next = "import" => exec[e].proposal.tool = "import",
         UNCHANGED <<run, evidence, orchestrator, control, imported, stranded, researchUsed>>
  PROVE  Counts'
<1>1. Types /\ next \in ExecPlaces
  BY DEF RunInv, ExecPlaces
<1>2. Promoted' = Promoted /\ (Open' <=> Open) /\ e \in Working /\ exec[e].pc # "idle"
  BY DEF Promoted, Open, Working
<1>3. CASE steps' = steps /\ At(e, "raise")
  <2>1. OnlyExec(e) /\ exec'[e].pc = "raise"
    BY <1>3 DEF At, OnlyExec
  <2>2. e \notin Working' /\ e \notin Planned' /\ e \notin Importing' /\ e \notin ToImport'
    BY <2>1 DEF Working, Planned, Importing, ToImport
  <2> QED BY <1>2, <1>3, <2>1, <2>2, QuietCounts
<1>4. CASE /\ exec[e].n = Len(steps) + 1 /\ Len(steps') = Len(steps) + 1 /\ At(e, next)
           /\ exec'[e].proposal = exec[e].proposal
           /\ \A i \in 1..Len(steps) : steps'[i] = steps[i]
  <2>1. OnlyExec(e) /\ exec'[e].pc = next
    BY <1>4 DEF At, OnlyExec
  <2>2. \/ Len(steps') = Len(steps) + 1 /\ e \in Planned /\ e \notin Planned'
        \/ Len(steps') <= run.config.steps
    <3>1. CASE exec[e].pc = "plan"
      BY <1>4, <3>1 DEF Counts, PlansInBudget
    <3>2. CASE exec[e].pc = "begin_tool"
      BY <1>4, <2>1, <3>2 DEF Planned
    <3> QED BY <3>1, <3>2
  <2>3. e \in Importing' => e \in Importing
    BY <1>4, <2>1 DEF Importing
  <2>4. e \in ToImport' => e \in ToImport
    BY <1>4, <2>1 DEF ToImport
  <2>5. ActiveBound'
    BY <1>2, <2>1, ActiveSame
  <2>6. ImportLeavesStep'
    <3>1. Len(steps) \in Nat
      BY <1>1, LedgerNumbers
    <3>2. 1..Len(steps) \subseteq 1..Len(steps')
      BY <1>4, <3>1
    <3> QED BY <1>4, <3>2 DEF Counts, ImportLeavesStep
  <2>7. exec'[e].pc # "plan"
    BY <2>1
  <2> QED BY <1>2, <2>1, <2>2, <2>3, <2>4, <2>5, <2>6, <2>7, CountsStep
<1> QED BY <1>1, <1>3, <1>4, BegunStep

(* An import is let through within its budget.                             *)
LEMMA DecideCounts ==
  ASSUME RunInv, RunInv', Counts, NEW e \in Executors, Decide(e)
  PROVE  Counts'
<1>1. /\ exec[e].pc = "decide"
      /\ UNCHANGED <<run, evidence, orchestrator, imported, researchUsed>>
  BY DEF Decide
<1>2. Types /\ exec[e].step \in 1..Len(steps)
  BY <1>1, HeldStep DEF RunInv, Holds
<1>3. Promoted' = Promoted /\ (Open' <=> Open) /\ e \in Working /\ e \in Planned
  BY <1>1 DEF Promoted, Open, Working, Planned
<1>4. /\ Len(steps') = Len(steps) /\ exec'[e].proposal = exec[e].proposal
      /\ \A i \in 1..Len(steps) : steps'[i].tool = steps[i].tool
  BY <1>2, DecideEffect
<1>5. CASE \E at \in {"boundary", "fail", "succeed"} : At(e, at)
  <2>1. OnlyExec(e) /\ exec'[e].pc \in {"boundary", "fail", "succeed"}
    BY <1>5 DEF At, OnlyExec
  <2>2. e \notin Planned' /\ e \notin Importing' /\ e \notin ToImport'
    BY <2>1 DEF Planned, Importing, ToImport
  <2> QED BY <1>1, <1>3, <1>4, <2>1, <2>2, QuietCounts
<1>6. CASE At(e, "number") /\ ~ImportBudgetSpent(exec[e].proposal.tool)
  <2>1. OnlyExec(e) /\ exec'[e].pc = "number"
    BY <1>6 DEF At, OnlyExec
  <2>2. \/ Promoted' \subseteq Promoted /\ (e \in Importing' => e \in Importing)
        \/ Promoted' \subseteq Promoted /\ Cardinality(Promoted) < run.config.imports
    <3>1. CASE exec[e].proposal.tool = "import"
      <4>1. Cardinality(Promoted) \in Nat /\ run.config.imports \in Nat
        BY <1>2, CountTypes DEF CountTyping
      <4> QED BY <1>3, <1>6, <3>1, <4>1 DEF ImportBudgetSpent
    <3>2. CASE exec[e].proposal.tool # "import"
      BY <1>3, <1>4, <3>2 DEF Importing
    <3> QED BY <3>1, <3>2
  <2>3. e \in ToImport' => e \in ToImport
    BY <1>1, <1>4 DEF ToImport
  <2>4. ActiveBound'
    BY <1>1, <1>3, <2>1, ActiveSame
  <2>5. ImportLeavesStep'
    BY <1>1, <1>4 DEF Counts, ImportLeavesStep
  <2>6. exec'[e].pc # "plan"
    BY <2>1
  <2> QED BY <1>1, <1>3, <1>4, <2>1, <2>2, <2>3, <2>4, <2>5, <2>6, CountsStep
<1> QED BY <1>2, <1>5, <1>6, DecideEffect

(* The number uses nothing up.                                             *)
LEMMA NumberCounts ==
  ASSUME RunInv, RunInv', Counts, NEW e \in Executors, NumberTool(e)
  PROVE  Counts'
<1>1. /\ exec[e].pc = "number"
      /\ UNCHANGED <<run, steps, evidence, orchestrator, imported, researchUsed>>
  BY DEF NumberTool
<1>2. OnlyExec(e) /\ exec'[e].pc = "begin_tool" /\ exec'[e].proposal = exec[e].proposal
  BY NumberKeepsInv DEF At, OnlyExec
<1>3. Promoted' = Promoted /\ (Open' <=> Open) /\ e \in Working /\ e \in Planned
  BY <1>1 DEF Promoted, Open, Working, Planned
<1>4. (e \in Importing' => e \in Importing) /\ (e \in ToImport' => e \in ToImport)
  BY <1>1, <1>2 DEF Importing, ToImport
<1> QED BY <1>1, <1>2, <1>3, <1>4, QuietCounts

(* A tool, an import that is refused: back to the boundary.                *)
LEMMA BackCounts ==
  ASSUME RunInv, RunInv', Counts, NEW e \in Executors, At(e, "boundary"), exec[e].pc \in {"tool", "import"},
         UNCHANGED <<run, orchestrator, imported, researchUsed>>,
         Len(steps') = Len(steps), \A i \in 1..Len(steps) : steps'[i].tool = steps[i].tool,
         Promoted' = Promoted
  PROVE  Counts'
<1>1. OnlyExec(e) /\ exec'[e].pc = "boundary" /\ exec[e].pc # "idle"
  BY DEF At, OnlyExec
<1>2. /\ e \notin Planned' /\ e \notin Importing' /\ e \notin ToImport' /\ e \in Working
      /\ (Open' <=> Open)
  BY <1>1 DEF Planned, Importing, ToImport, Working, Open
<1> QED BY <1>1, <1>2, QuietCounts

(* An import that was planned is made.                                     *)
LEMMA ImportCounts ==
  ASSUME RunInv, RunInv', Counts, NEW e \in Executors, exec[e].pc = "import",
         imported' = imported + 1, Goto_(e, "promote"),
         UNCHANGED <<run, steps, evidence, orchestrator, control, stranded, researchUsed>>
  PROVE  Counts'
<1>1. Types /\ Promoted' = Promoted /\ (Open' <=> Open) /\ e \in Working
  BY DEF RunInv, Promoted, Open, Working
<1>2. OnlyExec(e) /\ exec'[e].pc = "promote" /\ exec'[e].proposal = exec[e].proposal
  BY <1>1, GotoAt DEF At, OnlyExec, ExecPlaces
<1>3. exec[e].proposal.tool = "import" /\ steps[exec[e].step].tool = "import"
  BY DEF RunInv, LedgerInv, Allowed
<1>4. exec[e].step \in 1..Len(steps)
  BY HeldStep DEF Holds
<1>5. /\ e \notin Planned' /\ e \in ToImport /\ e \notin ToImport'
      /\ (e \in Importing' => e \in Importing)
  BY <1>2, <1>3 DEF Planned, ToImport, Importing
<1>6. ImportLeavesStep'
  BY <1>3, <1>4 DEF ImportLeavesStep
<1>7. ActiveBound'
  BY <1>1, <1>2, ActiveSame
<1> QED BY <1>1, <1>2, <1>5, <1>6, <1>7, CountsStep

(* Evidence that was counted is promoted.                                  *)
LEMMA MarkCounts ==
  ASSUME RunInv, RunInv', Counts, NEW e \in Executors, MarkPromoted(e)
  PROVE  Counts'
<1>1. exec[e].pc = "promote" /\ UNCHANGED <<run, orchestrator, imported, researchUsed>>
  BY DEF MarkPromoted
<1>2. /\ OnlyExec(e) /\ exec'[e].pc = "boundary" /\ Len(steps') = Len(steps)
      /\ \A i \in 1..Len(steps) : steps'[i].tool = steps[i].tool
      /\ Promoted' \subseteq Promoted \cup {exec[e].proposal.target}
  BY MarkKeepsInv DEF At, OnlyExec
<1>3. (Open' <=> Open) /\ e \in Working
  BY <1>1 DEF Open, Working
<1>4. e \notin Planned' /\ e \notin ToImport' /\ e \notin Importing'
  BY <1>2 DEF Planned, ToImport, Importing
<1>5. e \in Importing
  BY <1>1 DEF RunInv, LedgerInv, Allowed, Importing
<1>6. ActiveBound'
  BY <1>1, <1>2, <1>3, ActiveSame
<1>7. ImportLeavesStep'
  BY <1>1, <1>2 DEF Counts, ImportLeavesStep
<1> QED BY <1>1, <1>2, <1>3, <1>4, <1>5, <1>6, <1>7, CountsStep

(* The end of a run ends the work of who ended it.                         *)
LEMMA EndCounts ==
  ASSUME RunInv, RunInv', Counts, NEW e \in Executors, SucceedRun(e) \/ FailRun(e)
  PROVE  Counts'
<1>1. Types
  BY DEF RunInv
<1>2. PICK st \in EndedRunStates, found \in SUBSET Nat : CasStatus("running", st, found)
  BY <1>1 DEF SucceedRun, FailRun, EndedRunStates, Types, ExecRows, RunRows
<1>3. /\ exec[e].pc \in {"succeed", "fail"} /\ LeaveHandler(e, "publish")
      /\ UNCHANGED <<steps, evidence, orchestrator, imported, researchUsed>>
  BY DEF SucceedRun, FailRun
<1>4. run'.config = run.config /\ (Open' => Open)
  <2>1. st \in RunStatuses
    BY DEF EndedRunStates, RunStatuses
  <2> QED BY <1>1, <1>2, <2>1, CasEffect DEF Open
<1>5. OnlyExec(e) /\ exec'[e].pc = "publish"
  BY <1>1, <1>3, LeaveAt DEF At, OnlyExec, ExecPlaces
<1>6. e \notin Working' /\ e \notin Planned' /\ e \notin Importing' /\ e \notin ToImport' /\ Promoted' = Promoted
  BY <1>3, <1>5 DEF Working, Planned, Importing, ToImport, Promoted
<1> QED BY <1>3, <1>4, <1>5, <1>6, QuietCounts

(* An executor that was handed a job leaves, and with it goes a claim at   *)
(* most.                                                                   *)
LEMMA LeaveCounts ==
  ASSUME RunInv, RunInv', Counts, NEW e \in Executors, Handed(e),
         exec' = [exec EXCEPT ![e] = IdleExec],
         \/ orchestrator' = orchestrator
         \/ \E row \in JobRows : orchestrator' = [orchestrator EXCEPT ![exec[e].key] = row],
         researchUsed'.expiries = researchUsed.expiries, researchUsed'.cancels = researchUsed.cancels,
         researchUsed'.overlaps = researchUsed.overlaps,
         UNCHANGED <<run, steps, evidence, imported>>
  PROVE  Counts'
<1>1. Types /\ exec[e].key \in Keys
  BY DEF RunInv, Types, ExecRows
<1>2. OnlyExec(e) /\ exec'[e].pc = "idle"
  BY <1>1, IdleAgain
<1>3. /\ e \notin Active' /\ e \notin Working' /\ e \notin Planned' /\ e \notin Importing' /\ e \notin ToImport'
      /\ Promoted' = Promoted
  BY <1>2 DEF Active, Working, Planned, Importing, ToImport, Promoted
<1>4. ActiveBound'
  <2> SUFFICES ASSUME Open
               PROVE  /\ Cardinality(Active') <= Cardinality(Claimed') + Lost'
                      /\ Cardinality(Active') <= 1 + Beside'
    BY DEF ActiveBound, Open
  <2>1. e \in Active /\ Active' \subseteq Active \ {e} /\ Active \subseteq Executors /\ Active' \subseteq Executors
    BY <1>2, <1>3 DEF Active, Handed, OnlyExec
  <2>2. Cardinality(Active') <= Cardinality(Active) - 1 /\ Cardinality(Active) \in Nat /\ Cardinality(Active') \in Nat
    BY <2>1, ExecutorSets, OneLess
  <2>3. Claimed \subseteq Claimed' \cup {exec[e].key}
    BY <1>1, ReplacedJob DEF Claimed
  <2>4. IsFiniteSet(Claimed') /\ Cardinality(Claimed') \in Nat /\ Cardinality(Claimed) \in Nat
        /\ Lost \in Nat /\ Beside \in Nat
    BY CountTypes, CountTypesNext DEF RunInv, CountTyping
  <2>5. Cardinality(Claimed) <= Cardinality(Claimed') + 1
    BY <2>3, <2>4, OneMore
  <2>6. Cardinality(Active) <= Cardinality(Claimed) + Lost /\ Cardinality(Active) <= 1 + Beside
    BY DEF Counts, ActiveBound
  <2> DEFINE a == Cardinality(Active)  aN == Cardinality(Active')  c == Cardinality(Claimed)
             cN == Cardinality(Claimed')  l == Lost  b == Beside
  <2>7. /\ a \in Nat /\ aN \in Nat /\ c \in Nat /\ cN \in Nat /\ l \in Nat /\ b \in Nat
        /\ aN <= a - 1 /\ c <= cN + 1 /\ a <= c + l /\ a <= 1 + b
    BY <2>2, <2>4, <2>5, <2>6
  <2>8. aN <= cN + l /\ aN <= 1 + b
    <3> HIDE DEF a, aN, c, cN, l, b
    <3> QED BY <2>7
  <2>9. Lost' = Lost /\ Beside' = Beside
    BY DEF Lost, Beside
  <2> QED BY <2>8, <2>9
<1>5. ImportLeavesStep' /\ exec'[e].pc # "plan"
  BY <1>2 DEF Counts, ImportLeavesStep
<1> QED BY <1>2, <1>3, <1>4, <1>5, CountsStep

(* A claim adds an executor and a claim, and is counted when it is beside  *)
(* another.                                                                *)
LEMMA ClaimCounts ==
  ASSUME RunInv, RunInv', Counts, NEW e \in Executors, ClaimExecution(e)
  PROVE  Counts'
<1>1. Types /\ exec[e].pc = "claim" /\ exec[e].key \in Keys /\ UNCHANGED <<run, steps, evidence, imported>>
  BY DEF RunInv, Types, ExecRows, ClaimExecution
<1>2. Promoted' = Promoted /\ (Open' <=> Open)
  BY <1>1 DEF Promoted, Open
<1>3. CASE exec' = [exec EXCEPT ![e] = IdleExec] /\ UNCHANGED <<orchestrator, researchUsed>>
  <2>1. OnlyExec(e) /\ exec'[e].pc = "idle"
    BY <1>1, <1>3, IdleAgain
  <2>2. e \notin Working' /\ e \notin Planned' /\ e \notin Importing' /\ e \notin ToImport'
    BY <2>1 DEF Working, Planned, Importing, ToImport
  <2> QED BY <1>1, <1>2, <1>3, <2>1, <2>2, QuietCounts
<1>4. ASSUME orchestrator[exec[e].key].state = "queued",
             orchestrator'[exec[e].key] = [state |-> "claimed", owner |-> e],
             \A l \in Keys : l # exec[e].key => orchestrator'[l] = orchestrator[l],
             At(e, "dispatch")
      PROVE  Counts'
  <2>1. OnlyExec(e) /\ exec'[e].pc = "dispatch"
    BY <1>4 DEF At, OnlyExec
  <2>2. UNCHANGED <<Working, Planned, Importing, ToImport>>
    BY <1>1, <2>1 DEF OnlyExec, Working, Planned, Importing, ToImport
  <2>3. PlansInBudget'
    BY <1>1, <2>1 DEF OnlyExec, Counts, PlansInBudget
  <2>4. /\ Lost' = Lost /\ Lost \in Nat /\ Beside \in Nat /\ Beside >= Lost
        /\ Beside' = IF Claimed = {} THEN Beside ELSE Beside + 1
    <3>1. researchUsed \in Used
      BY <1>1 DEF Types
    <3>2. /\ Claimed = {} => researchUsed' = researchUsed
          /\ Claimed # {} => researchUsed' = [researchUsed EXCEPT !.overlaps = @ + 1]
      BY <1>4 DEF ClaimExecution, Claimed
    <3> QED BY <3>1, <3>2 DEF Used, Lost, Beside
  <2>5. ActiveBound'
    <3> SUFFICES ASSUME Open
                 PROVE  /\ Cardinality(Active') <= Cardinality(Claimed') + Lost
                        /\ Cardinality(Active') <= 1 + Beside'
      BY <1>2, <2>4 DEF ActiveBound
    <3>1. Active' \subseteq Active \cup {e} /\ Active \subseteq Executors /\ Active' \subseteq Executors
      BY <2>1 DEF Active, OnlyExec
    <3>2. Cardinality(Active') <= Cardinality(Active) + 1 /\ Cardinality(Active) \in Nat /\ Cardinality(Active') \in Nat
      BY <3>1, ExecutorSets, OneMore
    <3>3. exec[e].key \in Claimed' /\ Claimed \subseteq Claimed' \ {exec[e].key}
      BY <1>1, <1>4 DEF Claimed
    <3>4. /\ IsFiniteSet(Claimed') /\ Cardinality(Claimed') \in Nat /\ Cardinality(Claimed) \in Nat
          /\ Cardinality(Claimed) <= Cardinality(Claimed') - 1
      BY <3>3, OneLess, CountTypes, CountTypesNext DEF RunInv, CountTyping
    <3>5. Claimed = {} => Cardinality(Claimed) = 0
      BY NoneClaimed
    <3>6. Cardinality(Active) <= Cardinality(Claimed) + Lost /\ Cardinality(Active) <= 1 + Beside
      BY DEF Counts, ActiveBound
    <3> DEFINE a == Cardinality(Active)  aN == Cardinality(Active')  c == Cardinality(Claimed)
               cN == Cardinality(Claimed')  l == Lost  b == Beside  bN == Beside'
    <3>7. /\ a \in Nat /\ aN \in Nat /\ c \in Nat /\ cN \in Nat /\ l \in Nat /\ b \in Nat /\ l <= b
          /\ aN <= a + 1 /\ c <= cN - 1 /\ a <= c + l /\ a <= 1 + b
          /\ (c = 0 /\ bN = b) \/ bN = b + 1
      BY <2>4, <3>2, <3>4, <3>5, <3>6
    <3>8. aN <= cN + l /\ aN <= 1 + bN
      <4> HIDE DEF a, aN, c, cN, l, b, bN
      <4> QED BY <3>7
    <3> QED BY <3>8
  <2> QED BY <1>1, <2>2, <2>3, <2>4, <2>5, CountsKept
<1> QED BY <1>1, <1>3, <1>4, ClaimEffect

(* Steps that leave the executors where they are, and what they mean for   *)
(* the count of those at work.                                             *)
LEMMA ActiveFrame ==
  ASSUME RunInv, RunInv', Counts, UNCHANGED exec, Open' => Open,
         \/ Claimed' = Claimed /\ Lost' = Lost /\ Beside' = Beside
         \/ /\ \E k : Claimed \subseteq Claimed' \cup {k}
            /\ Lost' = Lost + 1 /\ Beside' = Beside + 1
  PROVE  ActiveBound'
<1> SUFFICES ASSUME Open
             PROVE  /\ Cardinality(Active') <= Cardinality(Claimed') + Lost'
                    /\ Cardinality(Active') <= 1 + Beside'
  BY DEF ActiveBound
<1>1. Active' = Active /\ Active \subseteq Executors
  BY DEF Active
<1>2. Cardinality(Active) \in Nat
  BY <1>1, ExecutorSets
<1>3. IsFiniteSet(Claimed') /\ Cardinality(Claimed') \in Nat /\ Cardinality(Claimed) \in Nat
      /\ Lost \in Nat /\ Beside \in Nat
  BY CountTypes, CountTypesNext DEF RunInv, CountTyping
<1>4. Cardinality(Active) <= Cardinality(Claimed) + Lost /\ Cardinality(Active) <= 1 + Beside
  BY DEF Counts, ActiveBound
<1>5. CASE Claimed' = Claimed /\ Lost' = Lost /\ Beside' = Beside
  BY <1>1, <1>4, <1>5
<1>6. ASSUME NEW k, Claimed \subseteq Claimed' \cup {k}, Lost' = Lost + 1, Beside' = Beside + 1
      PROVE  /\ Cardinality(Active') <= Cardinality(Claimed') + Lost'
             /\ Cardinality(Active') <= 1 + Beside'
  <2>1. Cardinality(Claimed) <= Cardinality(Claimed') + 1
    BY <1>3, <1>6, OneMore
  <2> DEFINE a == Cardinality(Active)  c == Cardinality(Claimed)  cN == Cardinality(Claimed')
             l == Lost  b == Beside
  <2>2. /\ a \in Nat /\ c \in Nat /\ cN \in Nat /\ l \in Nat /\ b \in Nat
        /\ c <= cN + 1 /\ a <= c + l /\ a <= 1 + b
    BY <1>2, <1>3, <1>4, <2>1
  <2>3. a <= cN + (l + 1) /\ a <= 1 + (b + 1)
    <3> HIDE DEF a, c, cN, l, b
    <3> QED BY <2>2
  <2> QED BY <1>1, <1>6, <2>3
<1> QED BY <1>5, <1>6

(* Nothing is used up of a run that is created.                            *)
LEMMA CreateCounts ==
  ASSUME RunInv, RunInv', CreateRun
  PROVE  Counts'
<1>1. UNCHANGED <<steps, evidence, orchestrator, exec, imported, researchUsed>>
  BY DEF CreateRun
<1>2. /\ \A e \in Executors : exec[e].pc = "idle"
      /\ steps = <<>> /\ evidence = <<>> /\ imported = 0
  BY DEF CreateRun, RunInv, RowInv, Fresh
<1>3. Active' = {} /\ Working' = {} /\ Planned' = {} /\ Importing' = {} /\ ToImport' = {}
  BY <1>1, <1>2 DEF Active, Working, Planned, Importing, ToImport
<1>4. Len(steps') = 0 /\ Promoted' = {} /\ imported' = 0
  <2>1. Len(<<>>) = 0 /\ DOMAIN <<>> = {}
    OBVIOUS
  <2> QED BY <1>1, <1>2, <2>1 DEF Promoted
<1>5. Cardinality({}) = 0
  BY FS_EmptySet
<1>6. CountTyping'
  BY CountTypesNext DEF RunInv
<1>7. ActiveBound' /\ WorkingBound' /\ PlansInBudget'
  BY <1>1, <1>2, <1>3, <1>5, <1>6 DEF ActiveBound, WorkingBound, PlansInBudget, CountTyping
<1>8. /\ Beside' \in Nat /\ run'.config.steps \in Nat /\ run'.config.imports \in Nat
  BY <1>6 DEF CountTyping
<1>9. StepsBound'
  BY <1>3, <1>4, <1>5, <1>8 DEF StepsBound
<1>10. ImportingBound'
  BY <1>3, <1>4, <1>5, <1>8 DEF ImportingBound
<1>11. ImportLeavesStep' /\ ToImportBound'
  BY <1>3, <1>4, <1>5, <1>8 DEF ImportLeavesStep, ToImportBound
<1> QED BY <1>7, <1>9, <1>10, <1>11 DEF Counts

(* Requests let nobody work.                                               *)
LEMMA RequestCounts ==
  ASSUME RunInv, RunInv', Counts, NEW c \in Controllers, ReadRun(c) \/ ControlStep(c) \/ RequestDies(c)
  PROVE  Counts'
<1>1. Types /\ RowInv /\ run.candidates \in SUBSET Nat
  BY DEF RunInv, Types, RunRows
<1>2. UNCHANGED <<steps, evidence, exec, imported>>
  BY DEF ReadRun, ControlStep, RequestDies, EnqueueExecution, ChangeStatus, CancelRun, CancelExecution
<1>3. Lost' = Lost /\ Beside' = Beside /\ Beside' >= Beside
  <2>1. researchUsed \in Used
    BY <1>1 DEF Types
  <2>2. \/ researchUsed' = researchUsed
        \/ researchUsed' = [researchUsed EXCEPT !.controls = @ + 1]
        \/ researchUsed' = [researchUsed EXCEPT !.failures = @ + 1]
    BY DEF ReadRun, ControlStep, RequestDies, EnqueueExecution, ChangeStatus, CancelRun, CancelExecution
  <2> QED BY <2>1, <2>2 DEF Used, Lost, Beside
<1>4. CASE ReadRun(c) \/ RequestDies(c) \/ EnqueueExecution(c)
  <2>1. run' = run /\ (Open' <=> Open)
    BY <1>4 DEF ReadRun, RequestDies, EnqueueExecution, Open
  <2>2. Claimed' = Claimed
    <3>1. CASE orchestrator' = orchestrator
      BY <3>1 DEF Claimed
    <3>2. CASE orchestrator' # orchestrator
      <4> DEFINE k == control[c].key
      <4>1. /\ k \in Keys /\ orchestrator[k].state = "none"
            /\ orchestrator' = [orchestrator EXCEPT ![k] = Unclaimed("queued")]
        BY <1>1, <1>4, <3>2 DEF ReadRun, RequestDies, EnqueueExecution, KeyOf, Types, ControlRows
      <4>2. orchestrator'[k].state = "queued" /\ \A l \in Keys : l # k => orchestrator'[l] = orchestrator[l]
        BY <1>1, <4>1, JobRow, ReplacedJob
      <4> HIDE DEF k
      <4> QED BY <4>1, <4>2 DEF Claimed
    <3> QED BY <3>1, <3>2
  <2> QED BY <1>2, <1>3, <2>1, <2>2, ActiveFrame, CountsFrame
<1>5. CASE ChangeStatus(c) \/ CancelRun(c)
  <2>1. orchestrator' = orchestrator
    BY <1>5 DEF ChangeStatus, CancelRun
  <2>2. run'.config = run.config /\ (Open' => Open)
    <3>1. PICK expected \in {"created", "running", "paused"}, st \in RunStatuses : CasStatus(expected, st, run.candidates)
      <4>1. CASE ChangeStatus(c)
        BY <1>1, <4>1 DEF ChangeStatus, ExpectedStatus, TargetOf, Types, ControlRows, RowInv, Requests, RunStatuses
      <4>2. CASE CancelRun(c)
        BY <1>1, <4>2 DEF CancelRun, RowInv, Requests, RunStatuses
      <4> QED BY <1>5, <4>1, <4>2
    <3> QED BY <1>1, <3>1, CasEffect DEF Open
  <2>3. Claimed' = Claimed
    BY <2>1 DEF Claimed
  <2> QED BY <1>2, <1>3, <2>2, <2>3, ActiveFrame, CountsFrame
<1>6. CASE CancelExecution(c)
  <2>1. run' = run /\ ~Open'
    BY <1>1, <1>6 DEF CancelExecution, RowInv, Requests, Open
  <2>2. ActiveBound'
    BY <2>1 DEF ActiveBound
  <2> QED BY <1>2, <1>3, <2>1, <2>2, CountsFrame
<1> QED BY <1>4, <1>5, <1>6 DEF ControlStep

(* A lost lease takes a claim and leaves its executor,                     *)
LEMMA LeaseCounts ==
  ASSUME RunInv, RunInv', Counts, NEW k \in Keys, LeaseRunsOut(k)
  PROVE  Counts'
<1>1. Types /\ UNCHANGED <<run, steps, evidence, exec, imported>>
  BY DEF RunInv, LeaseRunsOut
<1>2. PICK s \in {"queued", "settled"} : orchestrator' = [orchestrator EXCEPT ![k] = Unclaimed(s)]
  BY Reaped DEF LeaseRunsOut
<1>3. Lost' = Lost + 1 /\ Beside' = Beside + 1 /\ Beside' >= Beside
  <2>1. researchUsed \in Used /\ researchUsed' = [researchUsed EXCEPT !.expiries = @ + 1]
    BY <1>1 DEF Types, LeaseRunsOut
  <2> QED BY <2>1 DEF Used, Lost, Beside
<1>4. Claimed \subseteq Claimed' \cup {k}
  BY <1>1, <1>2, JobRow, ReplacedJob DEF Claimed
<1>5. ActiveBound'
  BY <1>1, <1>3, <1>4, ActiveFrame DEF Open
<1> QED BY <1>1, <1>3, <1>5, CountsFrame

(* as does the cancellation of a claimed job.                              *)
LEMMA CancelJobCounts ==
  ASSUME RunInv, RunInv', Counts, NEW k \in Keys, CancelJob(k)
  PROVE  Counts'
<1>1. Types /\ UNCHANGED <<run, steps, evidence, exec, imported>>
      /\ orchestrator' = [orchestrator EXCEPT ![k] = Unclaimed("settled")]
  BY DEF RunInv, CancelJob, SettledJob
<1>2. /\ orchestrator'[k].state = "settled"
      /\ \A l \in Keys : l # k => orchestrator'[l] = orchestrator[l]
  BY <1>1, JobRow, ReplacedJob
<1>3. /\ orchestrator[k].state = "claimed" => Lost' = Lost + 1 /\ Beside' = Beside + 1
      /\ orchestrator[k].state # "claimed" => Lost' = Lost /\ Beside' = Beside
      /\ Beside' >= Beside
  <2>1. researchUsed \in Used
    BY <1>1 DEF Types
  <2>2. CASE orchestrator[k].state = "claimed"
    <3>1. researchUsed' = [researchUsed EXCEPT !.controls = @ + 1, !.cancels = @ + 1]
      BY <2>2 DEF CancelJob
    <3> QED BY <2>1, <2>2, <3>1 DEF Used, Lost, Beside
  <2>3. CASE orchestrator[k].state # "claimed"
    <3>1. researchUsed' = [researchUsed EXCEPT !.controls = @ + 1, !.cancels = @]
      BY <2>3 DEF CancelJob
    <3> QED BY <2>1, <2>3, <3>1 DEF Used, Lost, Beside
  <2> QED BY <2>2, <2>3
<1>4. Claimed \subseteq Claimed' \cup {k} /\ (orchestrator[k].state # "claimed" => Claimed' = Claimed)
  BY <1>2 DEF Claimed
<1>5. ActiveBound'
  BY <1>1, <1>3, <1>4, ActiveFrame DEF Open
<1> QED BY <1>1, <1>3, <1>5, CountsFrame

(* The executor that looks for a job, is told to begin, raises or leaves.  *)
LEMMA MoveCounts ==
  ASSUME RunInv, RunInv', Counts, NEW e \in Executors,
         BeginClaim(e) \/ DispatchExecution(e) \/ HandlerRaises(e) \/ PublishExecution(e) \/ ExecutorDies(e)
  PROVE  Counts'
<1>1. Types /\ UNCHANGED <<run, steps, evidence, imported>>
  BY DEF RunInv, BeginClaim, DispatchExecution, HandlerRaises, PublishExecution, ExecutorDies
<1>2. /\ researchUsed'.expiries = researchUsed.expiries /\ researchUsed'.cancels = researchUsed.cancels
      /\ researchUsed'.overlaps = researchUsed.overlaps
  <2>1. researchUsed \in Used
    BY <1>1 DEF Types
  <2>2. \/ researchUsed' = researchUsed
        \/ researchUsed' = [researchUsed EXCEPT !.failures = @ + 1]
    BY DEF BeginClaim, DispatchExecution, HandlerRaises, PublishExecution, ExecutorDies
  <2> QED BY <2>1, <2>2 DEF Used
<1>3. Promoted' = Promoted /\ (Open' <=> Open)
  BY <1>1 DEF Promoted, Open
<1>4. ASSUME OnlyExec(e), exec'[e].pc \in {"idle", "claim", "enter", "raise"}, UNCHANGED orchestrator,
             exec[e].pc \notin {"idle", "claim"} \/ exec'[e].pc \in {"idle", "claim"}
      PROVE  Counts'
  <2>1. /\ e \notin Working' /\ e \notin Planned' /\ e \notin Importing' /\ e \notin ToImport'
        /\ exec'[e].pc # "plan"
    BY <1>4 DEF Working, Planned, Importing, ToImport
  <2> QED BY <1>1, <1>2, <1>3, <1>4, <2>1, QuietCounts
<1>5. ASSUME Handed(e), exec' = [exec EXCEPT ![e] = IdleExec], NEW s \in {"queued", "settled"},
             \/ orchestrator' = orchestrator
             \/ orchestrator' = [orchestrator EXCEPT ![exec[e].key] = Unclaimed(s)]
      PROVE  Counts'
  <2>1. Unclaimed(s) \in JobRows
    BY JobRow
  <2> QED BY <1>1, <1>2, <1>5, <2>1, LeaveCounts
<1>6. CASE BeginClaim(e)
  BY <1>1, <1>4, <1>6, BeginClaimEffect DEF BeginClaim
<1>7. CASE DispatchExecution(e)
  <2>1. exec[e].pc = "dispatch" /\ Handed(e)
    BY <1>7 DEF DispatchExecution, Handed
  <2>2. \/ Goto_(e, "enter") /\ UNCHANGED orchestrator
        \/ /\ exec' = [exec EXCEPT ![e] = IdleExec]
           /\ \/ orchestrator' = orchestrator
              \/ orchestrator' = [orchestrator EXCEPT ![exec[e].key] = Unclaimed("settled")]
    BY <1>7 DEF DispatchExecution, SettledJob
  <2>3. CASE Goto_(e, "enter") /\ UNCHANGED orchestrator
    <3>1. OnlyExec(e) /\ exec'[e].pc = "enter"
      BY <1>1, <2>3, GotoAt DEF At, OnlyExec, ExecPlaces
    <3> QED BY <1>4, <2>1, <2>3, <3>1
  <2> QED BY <1>5, <2>1, <2>2, <2>3
<1>8. CASE HandlerRaises(e)
  <2>1. exec[e].pc \notin {"idle", "claim"} /\ LeaveHandler(e, "raise") /\ UNCHANGED orchestrator
    BY <1>8 DEF HandlerRaises
  <2>2. OnlyExec(e) /\ exec'[e].pc = "raise"
    BY <1>1, <2>1, LeaveAt DEF At, OnlyExec, ExecPlaces
  <2> QED BY <1>4, <2>1, <2>2
<1>9. CASE PublishExecution(e)
  BY <1>5, <1>9 DEF PublishExecution, SettledJob, Handed
<1>10. CASE ExecutorDies(e)
  <2>1. exec' = [exec EXCEPT ![e] = IdleExec] /\ exec[e].pc # "idle" /\ exec[e].key \in Keys
    BY <1>1, <1>10 DEF ExecutorDies, Types, ExecRows
  <2>2. CASE exec[e].pc = "claim"
    <3>1. UNCHANGED orchestrator
      BY <1>10, <2>2 DEF ExecutorDies
    <3> QED BY <1>1, <1>4, <2>1, <3>1, IdleAgain
  <2>3. CASE exec[e].pc # "claim"
    <3>1. orchestrator' = orchestrator \/ orchestrator' \in ReapedJob(exec[e].key)
      BY <1>10 DEF ExecutorDies
    <3> QED BY <1>5, <2>1, <2>3, <3>1, Reaped DEF Handed
  <2> QED BY <2>2, <2>3
<1> QED BY <1>6, <1>7, <1>8, <1>9, <1>10

(* Every step of an executor, what it raises, and its death.               *)
LEMMA ExecutorCounts ==
  ASSUME RunInv, RunInv', Counts, NEW e \in Executors, ExecutorStep(e) \/ HandlerRaises(e) \/ ExecutorDies(e)
  PROVE  Counts'
<1>1. Types
  BY DEF RunInv
<1>2. CASE BeginPlan(e)
  BY <1>2, BeginCounts DEF BeginPlan, ProposalTools
<1>3. CASE BeginTool(e)
  <2>1. exec[e].proposal.tool \in ProposalTools
    BY <1>1 DEF Types, ExecRows
  <2> QED BY <1>3, <2>1, BeginCounts DEF BeginTool
<1>4. CASE CallTool(e)
  <2>1. /\ exec[e].pc = "tool" /\ UNCHANGED <<run, orchestrator, imported, researchUsed>>
    BY <1>4 DEF CallTool
  <2> QED BY <1>4, <2>1, CallKeepsInv, BackCounts
<1>5. ASSUME exec[e].pc = "import", FinishStep(exec[e].step, "failed", 0), BackToBoundary(e),
             UNCHANGED <<run, evidence, orchestrator, control, imported, stranded, researchUsed>>
      PROVE  Counts'
  <2>1. Promoted' = Promoted
    BY <1>5 DEF Promoted
  <2> QED BY <1>5, <2>1, ImportRefusedKeepsInv, BackCounts
<1>6. CASE ImportFetched(e) \/ ImportRefused(e)
  BY <1>5, <1>6, ImportCounts DEF ImportFetched, ImportRefused
<1> QED BY <1>2, <1>3, <1>4, <1>6, MoveCounts, ClaimCounts, EnterCounts, BoundaryCounts, DecideCounts,
           NumberCounts, MarkCounts, EndCounts DEF ExecutorStep

(* Nothing is used up at first,                                            *)
LEMMA CountsInit == ResearchInit => Counts
<1> SUFFICES ASSUME ResearchInit PROVE Counts
  OBVIOUS
<1>1. /\ \A e \in Executors : exec[e].pc = "idle"
      /\ steps = <<>> /\ evidence = <<>> /\ imported = 0 /\ run.status = "absent"
  BY DEF ResearchInit, IdleExec, NoRun
<1>2. Active = {} /\ Working = {} /\ Planned = {} /\ Importing = {} /\ ToImport = {}
  BY <1>1 DEF Active, Working, Planned, Importing, ToImport
<1>3. Len(steps) = 0 /\ Promoted = {}
  <2>1. Len(<<>>) = 0 /\ DOMAIN <<>> = {}
    OBVIOUS
  <2> QED BY <1>1, <2>1 DEF Promoted
<1>4. Cardinality({}) = 0
  BY FS_EmptySet
<1>5. CountTyping
  BY InitTypes, CountTypes
<1>6. ActiveBound /\ WorkingBound /\ PlansInBudget
  BY <1>1, <1>2, <1>4, <1>5 DEF ActiveBound, Open, WorkingBound, PlansInBudget, CountTyping
<1>7. /\ Beside \in Nat /\ run.config.steps \in Nat /\ run.config.imports \in Nat
  BY <1>5 DEF CountTyping
<1>8. StepsBound
  BY <1>2, <1>3, <1>4, <1>7 DEF StepsBound
<1>9. ImportingBound
  BY <1>2, <1>3, <1>4, <1>7 DEF ImportingBound
<1>10. ImportLeavesStep /\ ToImportBound
  BY <1>1, <1>2, <1>4, <1>7 DEF ImportLeavesStep, ToImportBound
<1> QED BY <1>6, <1>8, <1>9, <1>10 DEF Counts

(* and every step keeps the bounds.                                        *)
LEMMA CountsNext == RunInv /\ RunInv' /\ Counts /\ [ResearchNext]_researchVars => Counts'
<1> SUFFICES ASSUME RunInv, RunInv', Counts, [ResearchNext]_researchVars PROVE Counts'
  OBVIOUS
<1>1. CASE UNCHANGED researchVars
  <2>1. Lost' = Lost /\ Beside' = Beside /\ Beside \in Nat
    BY <1>1, CountTypes DEF RunInv, CountTyping, researchVars, Lost, Beside
  <2>2. Claimed' = Claimed /\ (Open' => Open)
    BY <1>1 DEF researchVars, Claimed, Open
  <2> QED BY <1>1, <2>1, <2>2, ActiveFrame, CountsFrame DEF researchVars
<1> QED BY <1>1, CreateCounts, RequestCounts, ExecutorCounts, LeaseCounts, CancelJobCounts DEF ResearchNext

(* The bounds on what is used up, counted with what the executors at work  *)
(* can still use.                                                          *)
THEOREM CountsAlways == ResearchSpec => []Counts
BY CountsInit, CountsNext, RunInvAlways, PTL DEF ResearchSpec

(* No run takes more than its owner allowed it, but for what executors do  *)
(* beside another, after their job was lost or since their claims          *)
(* overlapped: steps, promoted evidence, and, by the discovery program,    *)
(* one import.  The types of the run come with it.                         *)
THEOREM BudgetsAreKept == ResearchSpec => []BudgetsKept
<1>1. RunInv /\ Counts => BudgetsKept
  <2> SUFFICES ASSUME RunInv, Counts PROVE BudgetsKept
    OBVIOUS
  <2>1. ResearchTypeOK
    BY TypesGive
  <2>2. CountTyping
    BY CountTypes DEF RunInv
  <2>3. Cardinality(Planned) \in Nat /\ Cardinality(Importing) \in Nat /\ Cardinality(ToImport) \in Nat
    <3>1. Planned \subseteq Executors /\ Importing \subseteq Executors /\ ToImport \subseteq Executors
      BY DEF Planned, Importing, ToImport
    <3> QED BY <3>1, ExecutorSets
  <2> DEFINE pl == Cardinality(Planned)  im == Cardinality(Importing)  to == Cardinality(ToImport)
             len == Len(steps)  pr == Cardinality(Promoted)
             maxSteps == run.config.steps + 1 + Beside
             maxImports == run.config.imports + Beside
             maxOnce == 1 + Beside
  <2>4. /\ pl \in Nat /\ im \in Nat /\ to \in Nat /\ len \in Nat /\ pr \in Nat /\ imported \in Nat
        /\ maxSteps \in Nat /\ maxImports \in Nat /\ maxOnce \in Nat
    <3>1. /\ Len(steps) \in Nat /\ Cardinality(Promoted) \in Nat /\ imported \in Nat
          /\ Beside \in Nat /\ run.config.steps \in Nat /\ run.config.imports \in Nat
      BY <2>2 DEF CountTyping
    <3>a. \A m, n \in Nat : m + 1 + n \in Nat /\ m + n \in Nat /\ 1 + n \in Nat
      OBVIOUS
    <3>2. maxSteps \in Nat /\ maxImports \in Nat /\ maxOnce \in Nat
      BY <3>1, <3>a, Zenon
    <3>3. pl \in Nat /\ im \in Nat /\ to \in Nat /\ len \in Nat /\ pr \in Nat
      BY <2>3, <3>1
    <3> HIDE DEF pl, im, to, len, pr, maxSteps, maxImports, maxOnce
    <3> QED BY <3>1, <3>2, <3>3
  <2>5. /\ len + pl <= maxSteps /\ pr + im <= maxImports
        /\ run.config.planner = "discovery" => imported + to <= maxOnce
    BY DEF Counts, StepsBound, ImportingBound, ToImportBound
  <2>6. /\ len <= maxSteps /\ pr <= maxImports
        /\ run.config.planner = "discovery" => imported <= maxOnce
    <3> HIDE DEF pl, im, to, len, pr, maxSteps, maxImports, maxOnce
    <3> QED BY <2>4, <2>5
  <2> QED BY <2>1, <2>6 DEF BudgetsKept, StepOvershootBounded, PromotionsBounded, ImportedOnce
<1> QED BY <1>1, RunInvAlways, CountsAlways, PTL
=============================================================================
