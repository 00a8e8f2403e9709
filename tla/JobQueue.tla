------------------------------ MODULE JobQueue ------------------------------
(***************************************************************************)
(* The durable job queue of one capacity class: the jobs, job_attempts,    *)
(* idempotency_keys and outbox_events tables, the worker processes that    *)
(* poll them and the API requests that enqueue and cancel.                 *)
(*                                                                         *)
(* Every action is one database transaction, or one read, of               *)
(* adapters/jobs/pg_jobs.py together with the control flow of              *)
(* workers/loop.py, application/job_usecases.py or api/job_routes.py that  *)
(* leads to the next one.  What a process remembers between two            *)
(* transactions (the JobRecord it read) is state, because that record is   *)
(* stale by the time it is used.  The claim statement is three steps: it   *)
(* takes its snapshot, locks its batch, and then writes.                   *)
(*                                                                         *)
(* Job identities 1..MaxJobs are given in arrival order, so they also      *)
(* stand for enqueued_at.  Time is the step LeaseExpires.                  *)
(***************************************************************************)
EXTENDS JobStates, Integers, Sequences, FiniteSets

CONSTANTS
  Workers,      \* worker processes
  WorkerIds,    \* the values of --worker-id
  IdOf(_),      \* the identity a worker process leases under
  NoOwner,      \* lease_owner IS NULL
  Clients,      \* API requests in progress at a time
  Users,        \* initiating actors
  NoKey,        \* a request without an Idempotency-Key
  Requests,     \* the enqueue requests clients may send
  NoRequest,    \* the request of a row not inserted yet
  NoJob,        \* the job of an idle worker
  ClassCap,     \* ClassBudget.max_concurrent
  UserCap,      \* ClassBudget.max_concurrent_per_user
  Batch,        \* _CLAIM_BATCH
  MaxAttempts,  \* jobs.max_attempts
  MaxJobs, MaxStages, MaxCancels, MaxCrashes, MaxToggles  \* bounds

ASSUME WorkersAssumption ==
  /\ IsFiniteSet(Workers) /\ Workers # {}
  /\ \A w \in Workers : IdOf(w) \in WorkerIds
  /\ NoOwner \notin WorkerIds
ASSUME BudgetAssumption ==
  ClassCap \in Nat /\ UserCap \in Nat /\ Batch \in Nat /\ MaxAttempts \in Nat \ {0}
ASSUME BoundsAssumption ==
  /\ MaxJobs \in Nat /\ MaxStages \in Nat /\ MaxCancels \in Nat
  /\ MaxCrashes \in Nat /\ MaxToggles \in Nat
ASSUME RequestsAssumption ==
  /\ \A r \in Requests : r.user \in Users /\ r.priority \in Int
  /\ NoRequest \notin Requests /\ NoJob \notin 1..MaxJobs

VARIABLES
  rows,       \* the jobs table
  request,    \* what each job was enqueued with; it never changes afterwards
  outbox,     \* per job, the terminal events committed to outbox_events
  log,        \* per job, its job_attempts rows
  authorized, \* per user, what AuthzRevalidator answers now
  pc, job, held, view, locked, verdict,   \* the worker processes
  cpc, cjob, creq, parked, cheld, reply,  \* the API requests
  spent       \* how much of each bound is used up

table   == <<rows, request, outbox, log>>
worker  == <<pc, job, held, view, locked, verdict>>
client  == <<cpc, cjob, creq, parked, cheld, reply>>
vars    == <<table, authorized, worker, client, spent>>

-----------------------------------------------------------------------------
(* Rows and the records read from them.                                    *)

Jobs == 1..MaxJobs

NoRow == [status |-> "absent", waiting |-> "none", owner |-> NoOwner,
          lease |-> "none", attempts |-> 0, revision |-> 0, stage |-> 0]

NoView == [queued |-> {}, active |-> {}]

RowSet == [status : Statuses, waiting : Reasons, owner : WorkerIds \cup {NoOwner},
           lease : {"none", "live", "expired"}, attempts : Nat, revision : Nat,
           stage : Nat]

Outcomes == {"running"} \cup TerminalStates

Attempts == [worker : WorkerIds, outcome : Outcomes]

Logical(r) == UnpackLogicalState(r.status, r.waiting)

IsTerminal(r) == r.status \in TerminalStates

IsActive(r) == r.status \in ActiveStates

ActiveIn(table_) == {j \in Jobs : IsActive(table_[j])}

InFlight == ActiveIn(rows)

InFlightOf(u, S) == {j \in S : request[j].user = u}

(* Rows a claim statement holds FOR UPDATE; other writers wait for them.   *)
LockedByOthers(w) == UNION {locked[v] : v \in Workers \ {w}}

Unlocked(j) == \A v \in Workers : j \notin locked[v]

(* The compare-and-swap of transition and complete, and that of cancel.    *)
(* Here and below, a definition marked "mutated form" is a defect used to  *)
(* show that a property notices it; no behaviour refers to it.             *)
CasHolds(r, h) == r.revision = h.revision /\ r.status = PhysicalStatus(Logical(h))

CancelCasMissesFailed(r, h) ==                            \* mutated form
  r.status \notin {"succeeded", "cancelled"}

CancelCasHolds(r, h) == r.revision = h.revision /\ ~IsTerminal(r)

(* The writes of claim, transition(RUNNING), record_progress, complete and *)
(* cancel.  Each one but claim replaces the payload by what the writer     *)
(* held: h.stage stands for progress and checkpoint.                       *)
Leased(r, w) ==
  [status |-> "leased", waiting |-> r.waiting, owner |-> IdOf(w), lease |-> "live",
   attempts |-> r.attempts + 1, revision |-> r.revision + 1, stage |-> r.stage]

Started(r, h) ==
  [status |-> "running", waiting |-> "none", owner |-> h.owner, lease |-> r.lease,
   attempts |-> r.attempts, revision |-> r.revision + 1, stage |-> h.stage]

ReportedSilently(r, h) ==                                 \* mutated form
  [status |-> r.status, waiting |-> h.waiting, owner |-> r.owner, lease |-> "live",
   attempts |-> r.attempts, revision |-> r.revision, stage |-> h.stage + 1]

Reported(r, h) ==
  [status |-> r.status, waiting |-> h.waiting, owner |-> r.owner, lease |-> "live",
   attempts |-> r.attempts, revision |-> r.revision + 1, stage |-> h.stage + 1]

Settled(r, h, v) ==
  [status |-> v, waiting |-> "none", owner |-> NoOwner, lease |-> "none",
   attempts |-> r.attempts, revision |-> r.revision + 1, stage |-> h.stage]

RequeuedUnmapped(r) ==                                    \* mutated form
  [status |-> "retry_scheduled", waiting |-> "none", owner |-> NoOwner, lease |-> "none",
   attempts |-> r.attempts, revision |-> r.revision + 1, stage |-> r.stage]

RequeuedKeepingLease(r) ==                                \* mutated form
  [status |-> "queued", waiting |-> "none", owner |-> NoOwner, lease |-> r.lease,
   attempts |-> r.attempts, revision |-> r.revision + 1, stage |-> r.stage]

Requeued(r) ==
  [status |-> "queued", waiting |-> "none", owner |-> NoOwner, lease |-> "none",
   attempts |-> r.attempts, revision |-> r.revision + 1, stage |-> r.stage]

FinishAttempt(entries, v) ==
  IF entries = <<>> THEN entries ELSE [entries EXCEPT ![Len(entries)].outcome = v]

SettleQuietCancel(j, h, v) ==                             \* mutated form
  /\ rows' = [rows EXCEPT ![j] = Settled(@, h, v)]
  /\ log' = [log EXCEPT ![j] = FinishAttempt(@, v)]
  /\ outbox' = IF v = "cancelled" THEN outbox ELSE [outbox EXCEPT ![j] = Append(@, v)]

(* complete and cancel: row, attempt and event in one transaction.         *)
Settle(j, h, v) ==
  /\ rows' = [rows EXCEPT ![j] = Settled(@, h, v)]
  /\ log' = [log EXCEPT ![j] = FinishAttempt(@, v)]
  /\ outbox' = [outbox EXCEPT ![j] = Append(@, v)]

-----------------------------------------------------------------------------
(* The worker process: run_forever, _poll_once, _execute.                  *)

BackToPoll(w) ==
  /\ pc' = [pc EXCEPT ![w] = "recover"]
  /\ job' = [job EXCEPT ![w] = NoJob]
  /\ held' = [held EXCEPT ![w] = NoRow]
  /\ view' = [view EXCEPT ![w] = NoView]
  /\ locked' = [locked EXCEPT ![w] = {}]
  /\ verdict' = [verdict EXCEPT ![w] = "succeeded"]

Goto(w, at) ==
  /\ pc' = [pc EXCEPT ![w] = at]
  /\ UNCHANGED <<job, view, locked, verdict>>

Hold(w, h) == held' = [held EXCEPT ![w] = h]

IsExpiredRunning(r) == r.status = "running" /\ r.lease = "expired"   \* mutated form

IsExpired(r) == IsActive(r) /\ r.lease = "expired"

ExhaustedLate(r) == r.attempts > MaxAttempts              \* mutated form

Exhausted(r) == r.attempts >= MaxAttempts

(* recover_expired: one transaction over every expired row.  A row another *)
(* transaction has locked is skipped; that transaction commits first, so   *)
(* the row is then no longer expired and the skip needs no choice here.    *)
Recover(w) ==
  LET spentOut(j) == IsExpired(rows[j]) /\ Exhausted(rows[j])
      retry(j)    == IsExpired(rows[j]) /\ ~Exhausted(rows[j])
  IN /\ pc[w] = "recover"
     /\ rows' = [j \in Jobs |-> IF spentOut(j) THEN Settled(rows[j], rows[j], "failed")
                                ELSE IF retry(j) THEN Requeued(rows[j]) ELSE rows[j]]
     /\ log' = [j \in Jobs |-> IF spentOut(j) THEN FinishAttempt(log[j], "failed") ELSE log[j]]
     /\ outbox' = [j \in Jobs |-> IF spentOut(j) THEN Append(outbox[j], "failed") ELSE outbox[j]]
     /\ Goto(w, "claim")
     /\ UNCHANGED <<request, held, authorized, client, spent>>

(* claim, first: the statement snapshot, which every count is taken from.  *)
Snapshot(w) ==
  /\ pc[w] = "claim"
  /\ pc' = [pc EXCEPT ![w] = "locking"]
  /\ view' = [view EXCEPT ![w] = [queued |-> {j \in Jobs : rows[j].status = "queued"},
                                  active |-> InFlight]]
  /\ UNCHANGED <<table, job, held, locked, verdict, authorized, client, spent>>

(* ORDER BY priority DESC, enqueued_at ASC.                                *)
Before(k, j) ==
  \/ request[k].priority > request[j].priority
  \/ request[k].priority = request[j].priority /\ k < j

(* LIMIT :batch.                                                           *)
TopBatch(S) == {j \in S : Cardinality({k \in S : Before(k, j)}) < Batch}

(* FOR UPDATE SKIP LOCKED: rows of the snapshot that are still queued and  *)
(* that no other claim has locked.                                         *)
Lockable(w) == {j \in view[w].queued : rows[j].status = "queued"} \ LockedByOthers(w)

LockBatch(w) ==
  /\ pc[w] = "locking"
  /\ locked' = [locked EXCEPT ![w] = TopBatch(Lockable(w))]
  /\ pc' = [pc EXCEPT ![w] = "claiming"]
  /\ UNCHANGED <<table, job, held, view, verdict, authorized, client, spent>>

ClassHasRoomOffByOne(S) == Cardinality(S) <= ClassCap     \* mutated form

ClassHasRoom(S) == Cardinality(S) < ClassCap

UserHasRoom(u, S) == Cardinality(InFlightOf(u, S)) < UserCap

(* The budgets, on the counts of the snapshot.                             *)
Affordable(w, j) ==
  /\ ClassHasRoom(view[w].active)
  /\ UserHasRoom(request[j].user, view[w].active)

(* The join has no ORDER BY: any affordable row of the batch may be taken. *)
ClaimJob(w) ==
  /\ pc[w] = "claiming"
  /\ \E j \in locked[w] :
       /\ Affordable(w, j)
       /\ rows' = [rows EXCEPT ![j] = Leased(@, w)]
       /\ log' = [log EXCEPT ![j] = Append(@, [worker |-> IdOf(w), outcome |-> "running"])]
       /\ job' = [job EXCEPT ![w] = j]
       /\ Hold(w, Leased(rows[j], w))
  /\ pc' = [pc EXCEPT ![w] = "dispatch"]
  /\ locked' = [locked EXCEPT ![w] = {}]
  /\ view' = [view EXCEPT ![w] = NoView]
  /\ UNCHANGED <<request, outbox, verdict, authorized, client, spent>>

ClaimNone(w) ==
  /\ pc[w] = "claiming"
  /\ ~\E j \in locked[w] : Affordable(w, j)
  /\ BackToPoll(w)
  /\ UNCHANGED <<table, authorized, client, spent>>

Permitted(j) == authorized[request[j].user]

(* The dispatch check of _execute.                                         *)
Dispatch(w) ==
  /\ pc[w] = "dispatch"
  /\ Goto(w, IF Permitted(job[w]) THEN "start" ELSE "cancel")
  /\ UNCHANGED <<table, held, authorized, client, spent>>

(* transition(job, RUNNING).  The lease it writes back is the one it read, *)
(* the same instant as the row's, so the lease does not change.            *)
StartRunning(w) ==
  /\ pc[w] = "start"
  /\ CasHolds(rows[job[w]], held[w])
  /\ rows' = [rows EXCEPT ![job[w]] = Started(@, held[w])]
  /\ Hold(w, Started(held[w], held[w]))
  /\ Goto(w, "run")
  /\ UNCHANGED <<request, outbox, log, authorized, client, spent>>

StartLost(w) ==
  /\ pc[w] = "start"
  /\ ~CasHolds(rows[job[w]], held[w])
  /\ BackToPoll(w)
  /\ UNCHANGED <<table, authorized, client, spent>>

(* _LoopContext: the record it holds is None once a report was refused.    *)
LeaseLost(w) == held[w] = NoRow

StillOwnerAnyone(r, h) == IsActive(r)                     \* mutated form

StillOwner(r, h) == IsActive(r) /\ r.owner = h.owner

(* record_progress accepted.  It does not compare revisions.               *)
Report(w) ==
  /\ pc[w] = "run" /\ ~LeaseLost(w)
  /\ held[w].stage < MaxStages
  /\ StillOwner(rows[job[w]], held[w])
  /\ rows' = [rows EXCEPT ![job[w]] = Reported(@, held[w])]
  /\ Hold(w, Reported(held[w], held[w]))
  /\ UNCHANGED <<request, outbox, log, pc, job, view, locked, verdict, authorized, client, spent>>

(* record_progress refused: the handler may see should_stop() from now on. *)
ReportRefused(w) ==
  /\ pc[w] = "run" /\ ~LeaseLost(w)
  /\ ~StillOwner(rows[job[w]], held[w])
  /\ Hold(w, NoRow)
  /\ UNCHANGED <<table, pc, job, view, locked, verdict, authorized, client, spent>>

(* A handler that asks should_stop() raises HandlerCancelledError.         *)
HandlerStops(w) ==
  /\ pc[w] = "run" /\ LeaseLost(w)
  /\ BackToPoll(w)
  /\ UNCHANGED <<table, authorized, client, spent>>

(* The handler returns a result or raises; it may do so without ever       *)
(* asking whether its lease is gone.                                       *)
HandlerEnds(w) ==
  /\ pc[w] = "run"
  /\ \E v \in {"succeeded", "failed"} : verdict' = [verdict EXCEPT ![w] = v]
  /\ pc' = [pc EXCEPT ![w] = "publish"]
  /\ Hold(w, NoRow)
  /\ UNCHANGED <<table, job, view, locked, authorized, client, spent>>

(* _publish_result and the except branch of _execute: the fresh read.      *)
PublishRead(w) ==
  /\ pc[w] = "publish"
  /\ ~IsTerminal(rows[job[w]])
  /\ Hold(w, rows[job[w]])
  /\ Goto(w, "revalidate")
  /\ UNCHANGED <<table, authorized, client, spent>>

PublishMoot(w) ==
  /\ pc[w] = "publish"
  /\ IsTerminal(rows[job[w]])
  /\ BackToPoll(w)
  /\ UNCHANGED <<table, authorized, client, spent>>

RevalidateNever(w) ==                                     \* mutated form
  /\ pc[w] = "revalidate"
  /\ Goto(w, "complete")
  /\ UNCHANGED <<table, held, authorized, client, spent>>

(* _authz_ok and CompleteJob's own check: back to back, with no write in   *)
(* between, so one reading stands for both.                                *)
Revalidate(w) ==
  /\ pc[w] = "revalidate"
  /\ Goto(w, IF Permitted(job[w]) THEN "complete" ELSE "cancel")
  /\ UNCHANGED <<table, held, authorized, client, spent>>

CanCompleteAnyLive(h, v) == ~IsTerminal(h)                \* mutated form

CanComplete(h, v) == Legal(Logical(h), v)

(* CompleteJob, then complete: the terminal state and its event.           *)
Complete(w) ==
  /\ pc[w] = "complete"
  /\ CanComplete(held[w], verdict[w])
  /\ CasHolds(rows[job[w]], held[w])
  /\ Settle(job[w], held[w], verdict[w])
  /\ BackToPoll(w)
  /\ UNCHANGED <<request, authorized, client, spent>>

CompleteLost(w) ==
  /\ pc[w] = "complete"
  /\ CanComplete(held[w], verdict[w])
  /\ ~CasHolds(rows[job[w]], held[w])
  /\ BackToPoll(w)
  /\ UNCHANGED <<table, authorized, client, spent>>

(* CancelJob: the read, then the compare-and-swap.                         *)
CancelRead(w) ==
  /\ pc[w] = "cancel"
  /\ Hold(w, rows[job[w]])
  /\ Goto(w, "cancelling")
  /\ UNCHANGED <<table, authorized, client, spent>>

Cancel(w) ==
  /\ pc[w] = "cancelling"
  /\ ~IsTerminal(held[w])
  /\ CancelCasHolds(rows[job[w]], held[w])
  /\ Unlocked(job[w])
  /\ Settle(job[w], held[w], "cancelled")
  /\ BackToPoll(w)
  /\ UNCHANGED <<request, authorized, client, spent>>

CancelLost(w) ==
  /\ pc[w] = "cancelling"
  /\ ~IsTerminal(held[w])
  /\ ~CancelCasHolds(rows[job[w]], held[w])
  /\ BackToPoll(w)
  /\ UNCHANGED <<table, authorized, client, spent>>

(* IllegalJobTransitionError is caught nowhere between apply_transition    *)
(* and the top of run_forever: the process ends.                           *)
Abort(w) ==
  /\ \/ pc[w] = "complete" /\ ~CanComplete(held[w], verdict[w])
     \/ pc[w] = "cancelling" /\ IsTerminal(held[w])
  /\ Goto(w, "aborted")
  /\ UNCHANGED <<table, held, authorized, client, spent>>

(* The process or its container dies between two transactions; a claim     *)
(* that was open is rolled back and its locks are released.                *)
Crash(w) ==
  /\ pc[w] \notin {"down", "aborted"}
  /\ spent.crashes < MaxCrashes
  /\ spent' = [spent EXCEPT !.crashes = @ + 1]
  /\ pc' = [pc EXCEPT ![w] = "down"]
  /\ job' = [job EXCEPT ![w] = NoJob]
  /\ held' = [held EXCEPT ![w] = NoRow]
  /\ view' = [view EXCEPT ![w] = NoView]
  /\ locked' = [locked EXCEPT ![w] = {}]
  /\ verdict' = [verdict EXCEPT ![w] = "succeeded"]
  /\ UNCHANGED <<table, authorized, client>>

(* restart: unless-stopped.                                                *)
Restart(w) ==
  /\ pc[w] \in {"down", "aborted"}
  /\ BackToPoll(w)
  /\ UNCHANGED <<table, authorized, client, spent>>

-----------------------------------------------------------------------------
(* The API: POST /jobs and POST /jobs/{id}/cancel.                         *)

EndCall(c, answer) ==
  /\ cpc' = [cpc EXCEPT ![c] = "idle"]
  /\ cjob' = [cjob EXCEPT ![c] = NoJob]
  /\ creq' = [creq EXCEPT ![c] = NoRequest]
  /\ parked' = [parked EXCEPT ![c] = FALSE]
  /\ cheld' = [cheld EXCEPT ![c] = NoRow]
  /\ reply' = [reply EXCEPT ![c] = answer]

(* EnqueueJob._with_capacity_check: in_flight, then in_flight_for_user.    *)
BeginEnqueue(c) ==
  /\ cpc[c] = "idle"
  /\ spent.enqueues < MaxJobs
  /\ spent' = [spent EXCEPT !.enqueues = @ + 1]
  /\ \E r \in Requests : creq' = [creq EXCEPT ![c] = r]
  /\ parked' = [parked EXCEPT ![c] = ~ClassHasRoom(InFlight)]
  /\ cpc' = [cpc EXCEPT ![c] = "userBudget"]
  /\ UNCHANGED <<table, authorized, worker, cjob, cheld, reply>>

ReadUserBudget(c) ==
  /\ cpc[c] = "userBudget"
  /\ parked' = [parked EXCEPT ![c] = @ \/ ~UserHasRoom(creq[c].user, InFlight)]
  /\ cpc' = [cpc EXCEPT ![c] = "enqueue"]
  /\ UNCHANGED <<table, authorized, worker, cjob, creq, cheld, reply, spent>>

BoundToBody(r) ==                                         \* mutated form
  {j \in Jobs : /\ rows[j].status # "absent" /\ r.key # NoKey
                /\ request[j].key = r.key /\ request[j].body = r.body}

(* _claim_idempotency and _job_for_key: the job the scoped key is bound to.*)
BoundTo(r) ==
  {j \in Jobs : /\ rows[j].status # "absent" /\ r.key # NoKey
                /\ request[j].key = r.key /\ request[j].user = r.user}

SameRequest(j, r) == request[j].body = r.body

Free == {j \in Jobs : rows[j].status = "absent"}

NewRow(isParked) ==
  LET state == IF isParked THEN "waiting_capacity" ELSE "queued"
  IN [status |-> PhysicalStatus(state), waiting |-> ReasonOf(state), owner |-> NoOwner,
      lease |-> "none", attempts |-> 0, revision |-> 0, stage |-> 0]

Insert(c) ==
  /\ cpc[c] = "enqueue" /\ BoundTo(creq[c]) = {}
  /\ \E j \in Free :
       /\ \A k \in Free : j <= k
       /\ rows' = [rows EXCEPT ![j] = NewRow(parked[c])]
       /\ request' = [request EXCEPT ![j] = creq[c]]
  /\ EndCall(c, "accepted")
  /\ UNCHANGED <<outbox, log, authorized, worker, spent>>

(* A reused key: the same job again, or 409 for another request.           *)
Reuse(c) ==
  /\ cpc[c] = "enqueue"
  /\ \E j \in BoundTo(creq[c]) :
       EndCall(c, IF SameRequest(j, creq[c]) THEN "accepted" ELSE "conflict")
  /\ UNCHANGED <<table, authorized, worker, spent>>

(* cancel_job: the route's own read and its 409.                           *)
BeginCancel(c) ==
  /\ cpc[c] = "idle"
  /\ spent.cancels < MaxCancels
  /\ spent' = [spent EXCEPT !.cancels = @ + 1]
  /\ \E j \in Jobs \ Free :
       IF IsTerminal(rows[j])
       THEN EndCall(c, "conflict")
       ELSE /\ cjob' = [cjob EXCEPT ![c] = j]
            /\ cpc' = [cpc EXCEPT ![c] = "cancel"]
            /\ UNCHANGED <<creq, parked, cheld, reply>>
  /\ UNCHANGED <<table, authorized, worker>>

(* CancelJob's read.                                                       *)
ClientCancelRead(c) ==
  /\ cpc[c] = "cancel"
  /\ cheld' = [cheld EXCEPT ![c] = rows[cjob[c]]]
  /\ cpc' = [cpc EXCEPT ![c] = "cancelling"]
  /\ UNCHANGED <<table, authorized, worker, cjob, creq, parked, reply, spent>>

ClientCancel(c) ==
  /\ cpc[c] = "cancelling"
  /\ ~IsTerminal(cheld[c])
  /\ CancelCasHolds(rows[cjob[c]], cheld[c])
  /\ Unlocked(cjob[c])
  /\ Settle(cjob[c], cheld[c], "cancelled")
  /\ EndCall(c, "cancelled")
  /\ UNCHANGED <<request, authorized, worker, spent>>

(* JobCasConflictError is answered 409, IllegalJobTransitionError is not   *)
(* caught by the route.                                                    *)
ClientCancelRefused(c) ==
  /\ cpc[c] = "cancelling"
  /\ ~IsTerminal(cheld[c])
  /\ ~CancelCasHolds(rows[cjob[c]], cheld[c])
  /\ EndCall(c, "conflict")
  /\ UNCHANGED <<table, authorized, worker, spent>>

ClientCancelFails(c) ==
  /\ cpc[c] = "cancelling"
  /\ IsTerminal(cheld[c])
  /\ EndCall(c, "error")
  /\ UNCHANGED <<table, authorized, worker, spent>>

-----------------------------------------------------------------------------
(* The environment: time and administration.                               *)

LeaseExpires(j) ==
  /\ rows[j].lease = "live"
  /\ rows' = [rows EXCEPT ![j].lease = "expired"]
  /\ UNCHANGED <<request, outbox, log, authorized, worker, client, spent>>

(* A user is disabled or enabled, or loses or regains the notebook role.   *)
ToggleAuthorization(u) ==
  /\ spent.toggles < MaxToggles
  /\ spent' = [spent EXCEPT !.toggles = @ + 1]
  /\ authorized' = [authorized EXCEPT ![u] = ~@]
  /\ UNCHANGED <<table, worker, client>>

-----------------------------------------------------------------------------
QueueInit ==
  /\ rows = [j \in Jobs |-> NoRow]
  /\ request = [j \in Jobs |-> NoRequest]
  /\ outbox = [j \in Jobs |-> <<>>]
  /\ log = [j \in Jobs |-> <<>>]
  /\ authorized = [u \in Users |-> TRUE]
  /\ pc = [w \in Workers |-> "recover"]
  /\ job = [w \in Workers |-> NoJob]
  /\ held = [w \in Workers |-> NoRow]
  /\ view = [w \in Workers |-> NoView]
  /\ locked = [w \in Workers |-> {}]
  /\ verdict = [w \in Workers |-> "succeeded"]
  /\ cpc = [c \in Clients |-> "idle"]
  /\ cjob = [c \in Clients |-> NoJob]
  /\ creq = [c \in Clients |-> NoRequest]
  /\ parked = [c \in Clients |-> FALSE]
  /\ cheld = [c \in Clients |-> NoRow]
  /\ reply = [c \in Clients |-> "none"]
  /\ spent = [enqueues |-> 0, cancels |-> 0, crashes |-> 0, toggles |-> 0]

WorkerStep(w) ==
  \/ Recover(w) \/ Snapshot(w) \/ LockBatch(w) \/ ClaimJob(w) \/ ClaimNone(w)
  \/ Dispatch(w) \/ StartRunning(w) \/ StartLost(w)
  \/ Report(w) \/ ReportRefused(w) \/ HandlerStops(w) \/ HandlerEnds(w)
  \/ PublishRead(w) \/ PublishMoot(w) \/ Revalidate(w) \/ Complete(w) \/ CompleteLost(w)
  \/ CancelRead(w) \/ Cancel(w) \/ CancelLost(w) \/ Abort(w) \/ Restart(w)

ClientStep(c) ==
  \/ BeginEnqueue(c) \/ ReadUserBudget(c) \/ Insert(c) \/ Reuse(c)
  \/ BeginCancel(c) \/ ClientCancelRead(c) \/ ClientCancel(c)
  \/ ClientCancelRefused(c) \/ ClientCancelFails(c)

QueueNext ==
  \/ \E w \in Workers : WorkerStep(w) \/ Crash(w)
  \/ \E c \in Clients : ClientStep(c)
  \/ \E j \in Jobs : LeaseExpires(j)
  \/ \E u \in Users : ToggleAuthorization(u)

QueueSpec == QueueInit /\ [][QueueNext]_vars

(* A request that was started runs to its answer.                          *)
ClientAdvance(c) ==
  \/ ReadUserBudget(c) \/ Insert(c) \/ Reuse(c) \/ ClientCancelRead(c)
  \/ ClientCancelRefused(c) \/ ClientCancelFails(c)

(* Processes are scheduled, handlers end, restarted containers start, an   *)
(* UPDATE that waits for a row lock gets it, and time passes.              *)
Fairness ==
  /\ \A w \in Workers : WF_vars(WorkerStep(w)) /\ SF_vars(Cancel(w))
  /\ \A c \in Clients : WF_vars(ClientAdvance(c)) /\ SF_vars(ClientCancel(c))
  /\ \A j \in Jobs : WF_vars(LeaseExpires(j))

LiveSpec == QueueSpec /\ Fairness

-----------------------------------------------------------------------------
(* Properties.                                                             *)

WorkerPcs == {"recover", "claim", "locking", "claiming", "dispatch", "start", "run",
              "publish", "revalidate", "complete", "cancel", "cancelling", "down", "aborted"}

(* The places where a worker has a job in hand.                            *)
BusyPcs == {"dispatch", "start", "run", "publish", "revalidate", "complete",
            "cancel", "cancelling"}

ClientPcs == {"idle", "userBudget", "enqueue", "cancel", "cancelling"}

Replies == {"none", "accepted", "conflict", "cancelled", "error"}

Spent == [enqueues : Nat, cancels : Nat, crashes : Nat, toggles : Nat]

TableTypeOK ==
  /\ rows \in [Jobs -> RowSet]
  /\ request \in [Jobs -> Requests \cup {NoRequest}]
  /\ \A j \in Jobs \ Free : request[j] \in Requests
  /\ outbox \in [Jobs -> Seq(TerminalStates)]
  /\ log \in [Jobs -> Seq(Attempts)]
  /\ authorized \in [Users -> BOOLEAN]

WorkerTypeOK ==
  /\ pc \in [Workers -> WorkerPcs]
  /\ job \in [Workers -> Jobs \cup {NoJob}]
  /\ \A w \in Workers : pc[w] \in BusyPcs => job[w] \in Jobs \ Free
  /\ held \in [Workers -> RowSet]
  /\ view \in [Workers -> [queued : SUBSET Jobs, active : SUBSET Jobs]]
  /\ locked \in [Workers -> SUBSET (Jobs \ Free)]
  /\ verdict \in [Workers -> {"succeeded", "failed"}]

ClientTypeOK ==
  /\ cpc \in [Clients -> ClientPcs]
  /\ cjob \in [Clients -> Jobs \cup {NoJob}]
  /\ creq \in [Clients -> Requests \cup {NoRequest}]
  /\ \A c \in Clients : /\ cpc[c] \in {"cancel", "cancelling"} => cjob[c] \in Jobs \ Free
                        /\ cpc[c] \in {"userBudget", "enqueue"} => creq[c] \in Requests
  /\ parked \in [Clients -> BOOLEAN]
  /\ cheld \in [Clients -> RowSet]
  /\ reply \in [Clients -> Replies]
  /\ spent \in Spent

(* Every variable has its type, a busy worker or a cancelling request has  *)
(* a job, and a job that is in the table has the request it came from.     *)
TypeOK == TableTypeOK /\ WorkerTypeOK /\ ClientTypeOK

(* pg_outbox.py: a job can never be terminal without its event, nor have   *)
(* an event without being terminal, nor publish twice, whoever of worker,  *)
(* reaper and canceller gets there, and the event names that outcome.      *)
OneTerminalEvent ==
  \A j \in Jobs : outbox[j] = IF IsTerminal(rows[j]) THEN <<rows[j].status>> ELSE <<>>

(* recover_expired and claim keep one attempt row per claim, never claim   *)
(* more than max_attempts times, and leave the last attempt with the       *)
(* outcome of the job, or running under the owner of the lease.            *)
AttemptAccounting ==
  \A j \in Jobs :
    LET r == rows[j]
        last == log[j][Len(log[j])]
    IN /\ Len(log[j]) = r.attempts
       /\ r.attempts <= MaxAttempts
       /\ r.status = "queued" => r.attempts < MaxAttempts
       /\ IsActive(r) => r.attempts > 0 /\ last = [worker |-> r.owner, outcome |-> "running"]
       /\ IsTerminal(r) /\ r.attempts > 0 => last.outcome = r.status

(* ck_jobs_lease_consistency, both ways: a job has an owner and a lease    *)
(* exactly while it is leased or running, so the reaper can find it.       *)
LeaseIffActive ==
  \A j \in Jobs : /\ IsActive(rows[j]) <=> rows[j].owner # NoOwner
                  /\ IsActive(rows[j]) <=> rows[j].lease # "none"

(* Equal but for the lease, which moves with time alone.                   *)
SameContent(r, h) ==
  /\ r.status = h.status /\ r.waiting = h.waiting /\ r.owner = h.owner
  /\ r.attempts = h.attempts /\ r.revision = h.revision /\ r.stage = h.stage

FreshOrStale(r, h) == h.revision < r.revision \/ SameContent(r, h)

(* The revision is a version: a record read before a compare-and-swap is   *)
(* either behind the row or equal to it, never equal in revision with      *)
(* another content (no ABA), although record_progress, claim, the reaper   *)
(* and other writers move the row in between.                              *)
RevisionIsVersion ==
  /\ \A w \in Workers : pc[w] \in {"start", "revalidate", "complete", "cancelling"}
                           => FreshOrStale(rows[job[w]], held[w])
  /\ \A c \in Clients : cpc[c] = "cancelling" => FreshOrStale(rows[cjob[c]], cheld[c])

(* Claims whose budget check on their snapshot has passed, or will.        *)
PassingClaims ==
  {w \in Workers : pc[w] \in {"locking", "claiming"} /\ Cardinality(view[w].active) < ClassCap}

(* claim counts the class on its snapshot, so concurrent claims may exceed *)
(* max_concurrent, but never by more than the other workers.               *)
BoundedOvershoot ==
  Cardinality(InFlight) + Cardinality(PassingClaims) <= ClassCap + Cardinality(Workers) - 1

(* enqueue: a scoped idempotency key is bound to one job for ever.         *)
OneJobPerKey ==
  \A j, k \in Jobs :
    /\ j # k /\ rows[j].status # "absent" /\ rows[k].status # "absent"
    /\ request[j].user = request[k].user
    => request[j].key # request[k].key \/ request[j].key = NoKey

(* A terminal row, its event and its attempts are never written again, not *)
(* by a stale worker, a late progress report, the reaper or a canceller.   *)
TerminalIsFinal ==
  [][\A j \in Jobs : IsTerminal(rows[j]) =>
        rows'[j] = rows[j] /\ outbox'[j] = outbox[j] /\ log'[j] = log[j]]_vars

(* record_progress writes a whole payload without comparing revisions; the *)
(* owner guard must make every accepted report build on the one before it, *)
(* and no other write may lose a report.                                   *)
NoReportIsLost ==
  [][\A j \in Jobs :
       rows'[j].stage = IF /\ rows[j].status = "running" /\ rows'[j].status = "running"
                           /\ rows'[j].revision # rows[j].revision
                        THEN rows[j].stage + 1 ELSE rows[j].stage]_vars

(* Nothing between the last authorization check and the write.             *)
PastTheCheck(j) == \E w \in Workers : job[w] = j /\ pc[w] = "complete"

(* ch15: the result of revoked work is not published.  Once the actor has  *)
(* lost access and no worker is past its last check, the job never         *)
(* succeeds (for runs in which access does not come back).                 *)
RevokedNeverSucceeds ==
  \A j \in Jobs :
    [](rows[j].status \notin {"absent", "succeeded"} /\ ~PastTheCheck(j) /\ ~Permitted(j)
         => [](rows[j].status # "succeeded"))

(* Whatever crashes, expires or is retried, an accepted job is eventually  *)
(* succeeded, failed or cancelled.                                         *)
EventuallySettled ==
  \A j \in Jobs : rows[j].status # "absent" ~> IsTerminal(rows[j])

(* The promise JobLifecycle makes, kept for every job: the outbox is what  *)
(* the subscribers are told.                                               *)
PhaseOf(r) ==
  CASE r.status = "absent" -> "none"
    [] r.status = "queued" -> "waiting"
    [] IsActive(r)         -> "working"
    [] IsTerminal(r)       -> "settled"

Life(j) == INSTANCE JobLifecycle WITH
  Tries <- MaxAttempts, phase <- PhaseOf(rows[j]),
  tries <- rows[j].attempts, notices <- outbox[j]

(* Crashes, expired leases, stale workers and retries included, the queue  *)
(* implements that promise for each job.                                   *)
ImplementsLifecycle ==
  /\ \A j \in Jobs : Life(j)!Init
  /\ [][\A j \in Jobs : [Life(j)!Next]_(Life(j)!life)]_vars

-----------------------------------------------------------------------------
(* What the documentation says of the code and the code does not do.       *)

(* domain/jobs.py:8: "a stale worker can never move a job it no longer     *)
(* owns".  A worker whose job was given to another one reads the row       *)
(* afresh before it publishes, so it publishes under the other one's lease.*)
PublisherOwnsJob ==
  [][\A w \in Workers :
       pc[w] = "complete" /\ outbox' # outbox /\ pc'[w] # pc[w]
         => rows[job[w]].owner = IdOf(w)]_vars
=============================================================================
