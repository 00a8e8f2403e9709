--------------------------- MODULE JobQueueProofs ---------------------------
(***************************************************************************)
(* Proofs about JobQueue, for any number of workers, clients, jobs and     *)
(* attempts.                                                               *)
(***************************************************************************)
EXTENDS JobQueue, FiniteSetTheorems, TLAPS

(* What the row operators return.                                          *)
LEMMA RowOperators ==
  ASSUME NEW r \in RowSet, NEW h \in RowSet, NEW v \in TerminalStates
  PROVE  /\ \A w \in Workers : Leased(r, w) \in RowSet
         /\ Started(r, h) \in RowSet
         /\ Reported(r, h) \in RowSet
         /\ Settled(r, h, v) \in RowSet
         /\ Requeued(r) \in RowSet
<1>1. TerminalStates \cup {"leased", "running", "queued"} \subseteq Statuses
      /\ {"none"} \subseteq Reasons /\ \A w \in Workers : IdOf(w) \in WorkerIds
  BY WorkersAssumption DEF Statuses, ActiveStates, Reasons
<1>2. \A w \in Workers : Leased(r, w) \in RowSet
  BY <1>1 DEF Leased, RowSet
<1>3. Started(r, h) \in RowSet
  BY <1>1 DEF Started, RowSet
<1>4. Reported(r, h) \in RowSet
  BY <1>1 DEF Reported, RowSet
<1>5. Settled(r, h, v) \in RowSet
  BY <1>1 DEF Settled, RowSet
<1>6. Requeued(r) \in RowSet
  BY <1>1 DEF Requeued, RowSet
<1> QED BY <1>2, <1>3, <1>4, <1>5, <1>6

LEMMA NoRowType == NoRow \in RowSet /\ NoRow.status = "absent"
BY DEF NoRow, RowSet, Statuses, Reasons

LEMMA NewRowType ==
  ASSUME NEW p \in BOOLEAN
  PROVE  /\ NewRow(p) \in RowSet /\ NewRow(p).status = "queued"
         /\ NewRow(p).owner = NoOwner /\ NewRow(p).lease = "none" /\ NewRow(p).attempts = 0
         /\ NewRow(p).revision = 0 /\ NewRow(p).waiting \in {"none", "capacity"}
BY DEF NewRow, NoRow, RowSet, Statuses, Reasons, PhysicalStatus, ReasonOf, PendingStates

LEMMA AttemptOutcome ==
  ASSUME NEW e \in Attempts, NEW v \in TerminalStates
  PROVE  [e EXCEPT !.outcome = v] \in Attempts /\ [e EXCEPT !.outcome = v].outcome = v
BY DEF Attempts, Outcomes

(* The last attempt's outcome may change, nothing else of the attempts.    *)
LEMMA FinishAttemptFacts ==
  ASSUME NEW entries \in Seq(Attempts), NEW v \in TerminalStates
  PROVE  /\ FinishAttempt(entries, v) \in Seq(Attempts)
         /\ Len(FinishAttempt(entries, v)) = Len(entries)
         /\ Len(entries) > 0 => FinishAttempt(entries, v)[Len(entries)].outcome = v
<1>1. CASE entries = <<>>
  BY <1>1 DEF FinishAttempt
<1>2. CASE entries # <<>>
  <2>1. Len(entries) \in 1..Len(entries) /\ entries[Len(entries)] \in Attempts
    BY <1>2
  <2> DEFINE f == [entries[Len(entries)] EXCEPT !.outcome = v]
  <2>2. f \in Attempts /\ f.outcome = v
    BY <2>1, AttemptOutcome
  <2>3. FinishAttempt(entries, v) = [entries EXCEPT ![Len(entries)] = f]
    BY <1>2 DEF FinishAttempt
  <2> HIDE DEF f
  <2>4. /\ FinishAttempt(entries, v) \in Seq(Attempts)
        /\ Len(FinishAttempt(entries, v)) = Len(entries)
        /\ FinishAttempt(entries, v)[Len(entries)] = f
    BY <2>1, <2>2, <2>3
  <2> QED BY <2>2, <2>4
<1> QED BY <1>1, <1>2


-----------------------------------------------------------------------------
(* Type correctness.                                                       *)

NoneVanish == Free' \subseteq Free

(* The steps that leave the tables alone, and those that leave the workers *)
(* or the clients alone, are the same few cases in every proof.            *)
LEMMA SettleType ==
  ASSUME TableTypeOK, NEW j \in Jobs \ Free, NEW h \in RowSet, NEW v \in TerminalStates,
         Settle(j, h, v), UNCHANGED <<request, authorized>>
  PROVE  TableTypeOK' /\ NoneVanish
<1>1. Settled(rows[j], h, v) \in RowSet
  BY RowOperators DEF TableTypeOK
<1>2. FinishAttempt(log[j], v) \in Seq(Attempts)
  BY FinishAttemptFacts DEF TableTypeOK
<1>3. Append(outbox[j], v) \in Seq(TerminalStates)
  BY DEF TableTypeOK
<1>4. rows' \in [Jobs -> RowSet] /\ log' \in [Jobs -> Seq(Attempts)]
      /\ outbox' \in [Jobs -> Seq(TerminalStates)]
  BY <1>1, <1>2, <1>3 DEF TableTypeOK, Settle
<1>5. Settled(rows[j], h, v).status # "absent"
  BY DEF Settled, TerminalStates
<1>6. Free' = Free
  BY <1>4, <1>5 DEF Free, TableTypeOK, Settle
<1> QED BY <1>4, <1>6 DEF TableTypeOK, NoneVanish

LEMMA WriteRowType ==
  ASSUME TableTypeOK, NEW j \in Jobs \ Free, NEW r \in RowSet, r.status # "absent",
         rows' = [rows EXCEPT ![j] = r], UNCHANGED <<request, authorized, outbox>>,
         log' \in [Jobs -> Seq(Attempts)]
  PROVE  TableTypeOK' /\ NoneVanish
<1>1. rows' \in [Jobs -> RowSet]
  BY DEF TableTypeOK
<1>2. Free' = Free
  BY <1>1 DEF Free, TableTypeOK
<1> QED BY <1>1, <1>2 DEF TableTypeOK, NoneVanish

LEMMA BackToPollType ==
  ASSUME WorkerTypeOK, NEW w \in Workers, BackToPoll(w), NoneVanish
  PROVE  WorkerTypeOK'
<1>1. pc' \in [Workers -> WorkerPcs] /\ job' \in [Workers -> Jobs \cup {NoJob}]
      /\ held' \in [Workers -> RowSet] /\ locked' \in [Workers -> SUBSET (Jobs \ Free)]
      /\ verdict' \in [Workers -> {"succeeded", "failed"}]
  BY NoRowType DEF BackToPoll, WorkerTypeOK, WorkerPcs
<1>2. view' \in [Workers -> [queued : SUBSET Jobs, active : SUBSET Jobs]]
  BY DEF BackToPoll, WorkerTypeOK, NoView
<1>3. \A v \in Workers : pc'[v] \in BusyPcs => job'[v] \in Jobs \ Free
  BY DEF BackToPoll, WorkerTypeOK, BusyPcs
<1> QED BY <1>1, <1>2, <1>3 DEF WorkerTypeOK, NoneVanish

LEMMA GotoType ==
  ASSUME WorkerTypeOK, NEW w \in Workers, NEW at \in WorkerPcs, Goto(w, at),
         at \in BusyPcs => job[w] \in Jobs \ Free, NoneVanish,
         held' \in [Workers -> RowSet]
  PROVE  WorkerTypeOK'
<1>1. \A v \in Workers : pc'[v] \in BusyPcs => job'[v] \in Jobs \ Free
  BY DEF WorkerTypeOK, Goto
<1> QED BY <1>1 DEF WorkerTypeOK, Goto, NoneVanish

LEMMA HoldType ==
  ASSUME WorkerTypeOK, NEW w \in Workers, NEW h \in RowSet, Hold(w, h)
  PROVE  held' \in [Workers -> RowSet]
BY DEF WorkerTypeOK, Hold

LEMMA EndCallType ==
  ASSUME ClientTypeOK, NEW c \in Clients, NoneVanish, spent' \in Spent,
         NEW a \in Replies, EndCall(c, a)
  PROVE  ClientTypeOK'
<1>1. /\ cpc' \in [Clients -> ClientPcs] /\ cjob' \in [Clients -> Jobs \cup {NoJob}]
      /\ creq' \in [Clients -> Requests \cup {NoRequest}] /\ parked' \in [Clients -> BOOLEAN]
      /\ cheld' \in [Clients -> RowSet] /\ reply' \in [Clients -> Replies]
  BY NoRowType DEF ClientTypeOK, EndCall, ClientPcs
<1>2. \A d \in Clients : /\ cpc'[d] \in {"cancel", "cancelling"} => cjob'[d] \in Jobs \ Free
                         /\ cpc'[d] \in {"userBudget", "enqueue"} => creq'[d] \in Requests
  BY DEF ClientTypeOK, EndCall
<1> QED BY <1>1, <1>2 DEF ClientTypeOK, NoneVanish

LEMMA ClientsUnchangedType ==
  ASSUME ClientTypeOK, UNCHANGED client, NoneVanish, spent' \in Spent
  PROVE  ClientTypeOK'
BY DEF ClientTypeOK, client, NoneVanish

LEMMA WorkersUnchangedType ==
  ASSUME WorkerTypeOK, UNCHANGED worker, NoneVanish
  PROVE  WorkerTypeOK'
BY DEF WorkerTypeOK, worker, NoneVanish

LEMMA TableUnchangedType ==
  ASSUME TableTypeOK, UNCHANGED <<table, authorized>>
  PROVE  TableTypeOK' /\ NoneVanish
BY DEF TableTypeOK, table, NoneVanish, Free

LEMMA TypeInit == QueueInit => TypeOK
<1> SUFFICES ASSUME QueueInit PROVE TypeOK
  OBVIOUS
<1>1. TableTypeOK
  BY NoRowType, RequestsAssumption DEF QueueInit, TableTypeOK, Free
<1>2. WorkerTypeOK
  BY NoRowType DEF QueueInit, WorkerTypeOK, WorkerPcs, BusyPcs, NoView
<1>3. ClientTypeOK
  BY NoRowType DEF QueueInit, ClientTypeOK, ClientPcs, Replies, Spent
<1> QED BY <1>1, <1>2, <1>3 DEF TypeOK

(* A worker's own step preserves the types.                                *)
LEMMA WorkerStepType ==
  ASSUME TypeOK, NEW w \in Workers, WorkerStep(w)
  PROVE  TypeOK'
<1> USE DEF TypeOK
<1>0. TerminalStates = {"succeeded", "failed", "cancelled"}
  BY DEF TerminalStates
<1>1. CASE Recover(w)
  <2> DEFINE spentOut(j) == IsExpired(rows[j]) /\ Exhausted(rows[j])
             retry(j) == IsExpired(rows[j]) /\ ~Exhausted(rows[j])
  <2>1. \A j \in Jobs : /\ Settled(rows[j], rows[j], "failed") \in RowSet
                        /\ Requeued(rows[j]) \in RowSet
                        /\ FinishAttempt(log[j], "failed") \in Seq(Attempts)
                        /\ Append(outbox[j], "failed") \in Seq(TerminalStates)
    <3> TAKE j \in Jobs
    <3>1. rows[j] \in RowSet /\ log[j] \in Seq(Attempts) /\ outbox[j] \in Seq(TerminalStates)
      BY DEF TableTypeOK
    <3>2. "failed" \in TerminalStates
      BY <1>0
    <3>3. Settled(rows[j], rows[j], "failed") \in RowSet /\ Requeued(rows[j]) \in RowSet
      BY <3>1, <3>2, RowOperators
    <3>4. FinishAttempt(log[j], "failed") \in Seq(Attempts)
      BY <3>1, <3>2, FinishAttemptFacts
    <3> QED BY <3>1, <3>2, <3>3, <3>4
  <2>2. /\ rows' = [j \in Jobs |-> IF spentOut(j) THEN Settled(rows[j], rows[j], "failed")
                                   ELSE IF retry(j) THEN Requeued(rows[j]) ELSE rows[j]]
        /\ log' = [j \in Jobs |-> IF spentOut(j) THEN FinishAttempt(log[j], "failed") ELSE log[j]]
        /\ outbox' = [j \in Jobs |-> IF spentOut(j) THEN Append(outbox[j], "failed") ELSE outbox[j]]
        /\ UNCHANGED <<request, held, authorized, client, spent>> /\ Goto(w, "claim")
    BY <1>1 DEF Recover
  <2>3. rows' \in [Jobs -> RowSet] /\ log' \in [Jobs -> Seq(Attempts)]
        /\ outbox' \in [Jobs -> Seq(TerminalStates)]
    BY <2>1, <2>2 DEF TableTypeOK
  <2>4. Free' = Free /\ NoneVanish
    BY <2>2 DEF NoneVanish, Free, IsExpired, IsActive, ActiveStates, Settled, Requeued
  <2>5. TableTypeOK'
    <3>1. request' = request /\ authorized' = authorized
      BY <2>2
    <3> QED BY <2>3, <2>4, <3>1 DEF TableTypeOK, NoneVanish
  <2>6. WorkerTypeOK'
    <3>1. "claim" \in WorkerPcs /\ "claim" \notin BusyPcs
      BY DEF WorkerPcs, BusyPcs
    <3> QED BY <2>2, <2>4, <3>1, GotoType DEF WorkerTypeOK
  <2>7. ClientTypeOK'
    BY <2>2, <2>4, ClientsUnchangedType DEF ClientTypeOK
  <2> QED BY <2>5, <2>6, <2>7
<1>2. CASE UNCHANGED <<table, authorized, client, spent>> /\ BackToPoll(w)
  BY <1>2, TableUnchangedType, BackToPollType, ClientsUnchangedType DEF ClientTypeOK
<1>3. ASSUME NEW at \in WorkerPcs, UNCHANGED <<table, authorized, client, spent>>,
             Goto(w, at), job[w] \in Jobs \ Free, held' \in [Workers -> RowSet]
      PROVE  TypeOK'
  BY <1>3, TableUnchangedType, GotoType, ClientsUnchangedType DEF ClientTypeOK
<1>4. CASE Snapshot(w)
  <2>1. TableTypeOK' /\ NoneVanish /\ ClientTypeOK'
    BY <1>4, TableUnchangedType, ClientsUnchangedType DEF Snapshot, ClientTypeOK
  <2>2. WorkerTypeOK'
    BY <1>4, <2>1 DEF Snapshot, WorkerTypeOK, WorkerPcs, BusyPcs, NoneVanish, InFlight, ActiveIn
  <2> QED BY <2>1, <2>2
<1>5. CASE LockBatch(w)
  <2>1. TableTypeOK' /\ NoneVanish /\ ClientTypeOK'
    BY <1>5, TableUnchangedType, ClientsUnchangedType DEF LockBatch, ClientTypeOK
  <2>2. TopBatch(Lockable(w)) \in SUBSET (Jobs \ Free)
    BY DEF TopBatch, Lockable, WorkerTypeOK, Free
  <2>3. WorkerTypeOK'
    BY <1>5, <2>1, <2>2 DEF LockBatch, WorkerTypeOK, WorkerPcs, BusyPcs, NoneVanish
  <2> QED BY <2>1, <2>3
<1>6. CASE ClaimJob(w)
  <2>1. PICK j \in locked[w] :
          /\ rows' = [rows EXCEPT ![j] = Leased(@, w)]
          /\ log' = [log EXCEPT ![j] = Append(@, [worker |-> IdOf(w), outcome |-> "running"])]
          /\ job' = [job EXCEPT ![w] = j]
          /\ Hold(w, Leased(rows[j], w))
    BY <1>6 DEF ClaimJob
  <2>2. j \in Jobs /\ rows[j] \in RowSet
    BY DEF WorkerTypeOK, TableTypeOK
  <2>3. [worker |-> IdOf(w), outcome |-> "running"] \in Attempts
    BY WorkersAssumption DEF Attempts, Outcomes
  <2>4. Leased(rows[j], w) \in RowSet /\ Leased(rows[j], w).status # "absent"
    BY <2>2, <1>0, RowOperators DEF Leased
  <2>5. log' \in [Jobs -> Seq(Attempts)]
    BY <2>1, <2>2, <2>3 DEF TableTypeOK
  <2>6. j \in Jobs \ Free
    BY DEF WorkerTypeOK
  <2>7. TableTypeOK' /\ NoneVanish
    BY <1>6, <2>1, <2>2, <2>4, <2>5, <2>6, WriteRowType DEF ClaimJob
  <2>8. ClientTypeOK'
    BY <1>6, <2>7, ClientsUnchangedType DEF ClaimJob, ClientTypeOK
  <2>9. WorkerTypeOK'
    BY <1>6, <2>1, <2>2, <2>4, <2>6, <2>7
    DEF ClaimJob, Hold, WorkerTypeOK, WorkerPcs, NoneVanish, NoView
  <2> QED BY <2>7, <2>8, <2>9
<1>7. ASSUME pc[w] \in BusyPcs, NEW r \in RowSet, r.status # "absent",
             rows' = [rows EXCEPT ![job[w]] = r],
             UNCHANGED <<request, outbox, log, authorized, client, spent>>,
             NEW h \in RowSet, Hold(w, h),
             Goto(w, "run") \/ UNCHANGED <<pc, job, view, locked, verdict>>
      PROVE  TypeOK'
  <2>1. job[w] \in Jobs \ Free
    BY <1>7 DEF WorkerTypeOK
  <2>2. TableTypeOK' /\ NoneVanish
    BY <1>7, <2>1, WriteRowType DEF TableTypeOK
  <2>3. ClientTypeOK'
    BY <1>7, <2>2, ClientsUnchangedType DEF ClientTypeOK
  <2>4. held' \in [Workers -> RowSet]
    BY <1>7, HoldType
  <2>5. CASE Goto(w, "run")
    BY <1>7, <2>1, <2>2, <2>3, <2>4, <2>5, GotoType DEF WorkerPcs
  <2>6. CASE UNCHANGED <<pc, job, view, locked, verdict>>
    BY <1>7, <2>2, <2>3, <2>4, <2>6 DEF WorkerTypeOK, NoneVanish
  <2> QED BY <1>7, <2>5, <2>6
<1>8. CASE StartRunning(w)
  <2>1. job[w] \in Jobs /\ pc[w] \in BusyPcs
    BY <1>8 DEF StartRunning, WorkerTypeOK, BusyPcs
  <2>2. rows[job[w]] \in RowSet /\ held[w] \in RowSet
    BY <2>1 DEF TableTypeOK, WorkerTypeOK
  <2>3. /\ Started(rows[job[w]], held[w]) \in RowSet /\ Started(held[w], held[w]) \in RowSet
        /\ Started(rows[job[w]], held[w]).status # "absent"
    BY <2>2, <1>0, RowOperators DEF Started
  <2> QED BY <1>8, <1>7, <2>1, <2>3 DEF StartRunning
<1>9. CASE Report(w)
  <2>1. job[w] \in Jobs /\ pc[w] \in BusyPcs
    BY <1>9 DEF Report, WorkerTypeOK, BusyPcs
  <2>2. rows[job[w]] \in RowSet /\ held[w] \in RowSet
    BY <2>1 DEF TableTypeOK, WorkerTypeOK
  <2>3. /\ Reported(rows[job[w]], held[w]) \in RowSet /\ Reported(held[w], held[w]) \in RowSet
        /\ Reported(rows[job[w]], held[w]).status # "absent"
    BY <1>9, <2>2, <1>0, RowOperators DEF Reported, Report, StillOwner, IsActive, ActiveStates
  <2> QED BY <1>9, <1>7, <2>1, <2>3 DEF Report
<1>10. ASSUME pc[w] \in BusyPcs, UNCHANGED <<request, authorized, client, spent>>,
              NEW v \in TerminalStates, Settle(job[w], held[w], v), BackToPoll(w)
       PROVE  TypeOK'
  <2>1. job[w] \in Jobs \ Free /\ held[w] \in RowSet
    BY <1>10 DEF WorkerTypeOK
  <2>2. TableTypeOK' /\ NoneVanish
    BY <1>10, <2>1, SettleType
  <2>3. ClientTypeOK'
    BY <1>10, <2>2, ClientsUnchangedType DEF ClientTypeOK
  <2> QED BY <1>10, <2>2, <2>3, BackToPollType
<1>11. CASE Complete(w)
  <2>1. verdict[w] \in TerminalStates
    BY <1>0 DEF WorkerTypeOK
  <2> QED BY <1>10, <1>11, <2>1 DEF Complete, BusyPcs
<1>12. CASE Cancel(w)
  BY <1>0, <1>10, <1>12 DEF Cancel, BusyPcs
<1>13. ASSUME UNCHANGED <<table, authorized, client, spent>>,
              NEW h \in RowSet, Hold(w, h), UNCHANGED <<pc, job, view, locked, verdict>>
       PROVE  TypeOK'
  <2>1. TableTypeOK' /\ NoneVanish /\ ClientTypeOK'
    BY <1>13, TableUnchangedType, ClientsUnchangedType DEF ClientTypeOK
  <2> QED BY <1>13, <2>1, HoldType DEF WorkerTypeOK, NoneVanish
<1>14. CASE ReportRefused(w)
  BY <1>13, <1>14, NoRowType DEF ReportRefused
<1>15. CASE HandlerEnds(w)
  <2>1. TableTypeOK' /\ NoneVanish /\ ClientTypeOK'
    BY <1>15, TableUnchangedType, ClientsUnchangedType DEF HandlerEnds, ClientTypeOK
  <2>2. held' \in [Workers -> RowSet]
    BY <1>15, NoRowType, HoldType DEF HandlerEnds
  <2>3. WorkerTypeOK'
    BY <1>15, <2>1, <2>2 DEF HandlerEnds, WorkerTypeOK, WorkerPcs, BusyPcs, NoneVanish
  <2> QED BY <2>1, <2>3
<1>16. CASE Dispatch(w) \/ Revalidate(w) \/ Abort(w)
  <2>1. UNCHANGED <<table, authorized, client, spent>> /\ held' = held
    BY <1>16 DEF Dispatch, Revalidate, Abort
  <2>2. \E at \in WorkerPcs : Goto(w, at)
    BY <1>16 DEF Dispatch, Revalidate, Abort, WorkerPcs
  <2>3. job[w] \in Jobs \ Free
    BY <1>16 DEF Dispatch, Revalidate, Abort, WorkerTypeOK, BusyPcs
  <2> QED BY <1>3, <2>1, <2>2, <2>3 DEF WorkerTypeOK
<1>17. CASE PublishRead(w) \/ CancelRead(w)
  <2>1. UNCHANGED <<table, authorized, client, spent>> /\ Hold(w, rows[job[w]])
    BY <1>17 DEF PublishRead, CancelRead
  <2>2. \E at \in WorkerPcs : Goto(w, at)
    BY <1>17 DEF PublishRead, CancelRead, WorkerPcs
  <2>3. job[w] \in Jobs \ Free
    BY <1>17 DEF PublishRead, CancelRead, WorkerTypeOK, BusyPcs
  <2>4. held' \in [Workers -> RowSet]
    BY <2>1, <2>3, HoldType DEF TableTypeOK
  <2> QED BY <1>3, <2>1, <2>2, <2>3, <2>4
<1>18. CASE ClaimNone(w) \/ StartLost(w) \/ HandlerStops(w) \/ PublishMoot(w)
            \/ CompleteLost(w) \/ CancelLost(w) \/ Restart(w)
  BY <1>2, <1>18
  DEF ClaimNone, StartLost, HandlerStops, PublishMoot, CompleteLost, CancelLost, Restart
<1> QED
  BY <1>1, <1>4, <1>5, <1>6, <1>8, <1>9, <1>11, <1>12, <1>14, <1>15, <1>16, <1>17, <1>18
  DEF WorkerStep

(* A request's own step preserves the types.                               *)
LEMMA ClientStepType ==
  ASSUME TypeOK, NEW c \in Clients, ClientStep(c)
  PROVE  TypeOK'
<1> USE DEF TypeOK
<1>0. TerminalStates = {"succeeded", "failed", "cancelled"}
      /\ spent \in Spent /\ Replies = {"none", "accepted", "conflict", "cancelled", "error"}
  BY DEF TerminalStates, ClientTypeOK, Replies
<1>1. ASSUME UNCHANGED <<table, authorized, worker>>
      PROVE  TableTypeOK' /\ NoneVanish /\ Free' = Free /\ WorkerTypeOK'
  BY <1>1, TableUnchangedType, WorkersUnchangedType DEF Free, table
<1>2. CASE BeginEnqueue(c)
  <2>1. TableTypeOK' /\ NoneVanish /\ Free' = Free /\ WorkerTypeOK'
    BY <1>1, <1>2 DEF BeginEnqueue
  <2>2. spent' \in Spent
    BY <1>0, <1>2 DEF BeginEnqueue, Spent
  <2>3. PICK r \in Requests : creq' = [creq EXCEPT ![c] = r]
    BY <1>2 DEF BeginEnqueue
  <2>4. parked' = [parked EXCEPT ![c] = ~ClassHasRoom(InFlight)]
        /\ cpc' = [cpc EXCEPT ![c] = "userBudget"] /\ UNCHANGED <<cjob, cheld, reply>>
    BY <1>2 DEF BeginEnqueue
  <2>5. parked' \in [Clients -> BOOLEAN]
    BY <2>4 DEF ClientTypeOK, ClassHasRoom
  <2>6. ClientTypeOK'
    BY <2>1, <2>2, <2>3, <2>4, <2>5 DEF ClientTypeOK, ClientPcs
  <2> QED BY <2>1, <2>6
<1>3. CASE ReadUserBudget(c)
  <2>1. TableTypeOK' /\ NoneVanish /\ Free' = Free /\ WorkerTypeOK'
    BY <1>1, <1>3 DEF ReadUserBudget
  <2>2. parked' \in [Clients -> BOOLEAN]
    BY <1>3 DEF ReadUserBudget, ClientTypeOK, UserHasRoom
  <2>3. ClientTypeOK'
    BY <1>3, <2>1, <2>2 DEF ReadUserBudget, ClientTypeOK, ClientPcs
  <2> QED BY <2>1, <2>3
<1>4. CASE Insert(c)
  <2>1. PICK j \in Free : /\ rows' = [rows EXCEPT ![j] = NewRow(parked[c])]
                          /\ request' = [request EXCEPT ![j] = creq[c]]
    BY <1>4 DEF Insert
  <2>2. j \in Jobs /\ parked[c] \in BOOLEAN /\ creq[c] \in Requests
    BY <1>4 DEF Insert, ClientTypeOK, Free
  <2>3. NewRow(parked[c]) \in RowSet /\ NewRow(parked[c]).status = "queued"
    BY <2>2, NewRowType
  <2>4. rows' \in [Jobs -> RowSet] /\ request' \in [Jobs -> Requests \cup {NoRequest}]
    BY <2>1, <2>2, <2>3 DEF TableTypeOK
  <2>5. Free' = Free \ {j}
    BY <2>1, <2>2, <2>3 DEF Free, TableTypeOK
  <2>6. NoneVanish
    BY <2>5 DEF NoneVanish
  <2>7. \A k \in Jobs \ Free' : request'[k] \in Requests
    BY <2>1, <2>2, <2>5 DEF TableTypeOK
  <2>8. UNCHANGED <<outbox, log, authorized, worker, spent>> /\ EndCall(c, "accepted")
    BY <1>4 DEF Insert
  <2>9. TableTypeOK'
    BY <2>4, <2>7, <2>8 DEF TableTypeOK
  <2>10. WorkerTypeOK'
    BY <2>6, <2>8, WorkersUnchangedType
  <2>11. ClientTypeOK'
    BY <1>0, <2>6, <2>8, EndCallType
  <2> QED BY <2>9, <2>10, <2>11
<1>5. ASSUME UNCHANGED <<table, authorized, worker>>, spent' \in Spent,
             NEW a \in Replies, EndCall(c, a)
      PROVE  TypeOK'
  BY <1>1, <1>5, EndCallType
<1>6. CASE Reuse(c)
  <2>1. \E a \in Replies : EndCall(c, a)
    BY <1>0, <1>6 DEF Reuse
  <2> QED BY <1>0, <1>5, <1>6, <2>1 DEF Reuse
<1>7. CASE BeginCancel(c)
  <2>1. UNCHANGED <<table, authorized, worker>> /\ spent' \in Spent
    BY <1>0, <1>7 DEF BeginCancel, Spent
  <2>2. PICK j \in Jobs \ Free :
          \/ EndCall(c, "conflict")
          \/ /\ cjob' = [cjob EXCEPT ![c] = j] /\ cpc' = [cpc EXCEPT ![c] = "cancel"]
             /\ UNCHANGED <<creq, parked, cheld, reply>>
    BY <1>7 DEF BeginCancel
  <2>3. CASE EndCall(c, "conflict")
    BY <1>0, <1>5, <2>1, <2>3
  <2>4. CASE /\ cjob' = [cjob EXCEPT ![c] = j] /\ cpc' = [cpc EXCEPT ![c] = "cancel"]
             /\ UNCHANGED <<creq, parked, cheld, reply>>
    <3>1. Free' = Free
      BY <1>1, <2>1
    <3>2. ClientTypeOK'
      BY <2>1, <2>4, <3>1 DEF ClientTypeOK, ClientPcs
    <3> QED BY <1>1, <2>1, <3>2
  <2> QED BY <2>2, <2>3, <2>4
<1>8. CASE ClientCancelRead(c)
  <2>1. TableTypeOK' /\ Free' = Free /\ WorkerTypeOK'
    BY <1>1, <1>8 DEF ClientCancelRead
  <2>2. cheld' \in [Clients -> RowSet]
    BY <1>8 DEF ClientCancelRead, ClientTypeOK, TableTypeOK
  <2>3. ClientTypeOK'
    BY <1>8, <2>1, <2>2 DEF ClientCancelRead, ClientTypeOK, ClientPcs
  <2> QED BY <2>1, <2>3
<1>9. CASE ClientCancel(c)
  <2>1. cjob[c] \in Jobs \ Free /\ cheld[c] \in RowSet
    BY <1>9 DEF ClientCancel, ClientTypeOK
  <2>2. TableTypeOK' /\ NoneVanish
    BY <1>0, <1>9, <2>1, SettleType DEF ClientCancel
  <2>3. WorkerTypeOK'
    BY <1>9, <2>2, WorkersUnchangedType DEF ClientCancel
  <2>4. ClientTypeOK'
    BY <1>0, <1>9, <2>2, EndCallType DEF ClientCancel
  <2> QED BY <2>2, <2>3, <2>4
<1>10. CASE ClientCancelRefused(c) \/ ClientCancelFails(c)
  BY <1>0, <1>5, <1>10 DEF ClientCancelRefused, ClientCancelFails
<1> QED BY <1>2, <1>3, <1>4, <1>6, <1>7, <1>8, <1>9, <1>10 DEF ClientStep

(* Crashes, time and administration preserve the types.                    *)
LEMMA EnvironmentType ==
  ASSUME TypeOK,
         \/ \E w \in Workers : Crash(w)
         \/ \E j \in Jobs : LeaseExpires(j)
         \/ \E u \in Users : ToggleAuthorization(u)
         \/ UNCHANGED vars
  PROVE  TypeOK'
<1> USE DEF TypeOK
<1>0. spent \in Spent
  BY DEF ClientTypeOK
<1>1. ASSUME NEW w \in Workers, Crash(w) PROVE TypeOK'
  <2>1. TableTypeOK' /\ NoneVanish
    BY <1>1, TableUnchangedType DEF Crash
  <2>2. spent' \in Spent
    BY <1>0, <1>1 DEF Crash, Spent
  <2>3. ClientTypeOK'
    BY <1>1, <2>1, <2>2, ClientsUnchangedType DEF Crash
  <2>4. /\ pc' \in [Workers -> WorkerPcs] /\ job' \in [Workers -> Jobs \cup {NoJob}]
        /\ held' \in [Workers -> RowSet] /\ locked' \in [Workers -> SUBSET (Jobs \ Free)]
        /\ verdict' \in [Workers -> {"succeeded", "failed"}]
    BY <1>1, NoRowType DEF Crash, WorkerTypeOK, WorkerPcs
  <2>5. view' \in [Workers -> [queued : SUBSET Jobs, active : SUBSET Jobs]]
    BY <1>1 DEF Crash, WorkerTypeOK, NoView
  <2>6. \A v \in Workers : pc'[v] \in BusyPcs => job'[v] \in Jobs \ Free
    BY <1>1 DEF Crash, WorkerTypeOK, BusyPcs
  <2> QED BY <2>1, <2>3, <2>4, <2>5, <2>6 DEF WorkerTypeOK, NoneVanish
<1>2. ASSUME NEW j \in Jobs, LeaseExpires(j) PROVE TypeOK'
  <2> DEFINE r == [rows[j] EXCEPT !.lease = "expired"]
  <2>1. rows[j] \in RowSet /\ rows' = [rows EXCEPT ![j] = r]
    BY <1>2 DEF TableTypeOK, LeaseExpires
  <2>2. r \in RowSet /\ r.status = rows[j].status
    BY <2>1 DEF RowSet
  <2> HIDE DEF r
  <2>3. rows' \in [Jobs -> RowSet] /\ Free' = Free
    BY <2>1, <2>2 DEF TableTypeOK, Free
  <2>4. TableTypeOK' /\ NoneVanish
    BY <1>2, <2>3 DEF TableTypeOK, LeaseExpires, NoneVanish
  <2>5. WorkerTypeOK' /\ ClientTypeOK'
    BY <1>0, <1>2, <2>4, WorkersUnchangedType, ClientsUnchangedType DEF LeaseExpires
  <2> QED BY <2>4, <2>5
<1>3. ASSUME NEW u \in Users, ToggleAuthorization(u) PROVE TypeOK'
  <2>1. TableTypeOK' /\ NoneVanish
    BY <1>3 DEF ToggleAuthorization, TableTypeOK, NoneVanish, Free, table
  <2>2. spent' \in Spent
    BY <1>0, <1>3 DEF ToggleAuthorization, Spent
  <2> QED
    BY <1>3, <2>1, <2>2, WorkersUnchangedType, ClientsUnchangedType DEF ToggleAuthorization
<1>4. CASE UNCHANGED vars
  BY <1>0, <1>4, TableUnchangedType, WorkersUnchangedType, ClientsUnchangedType DEF vars
<1> QED BY <1>1, <1>2, <1>3, <1>4

(* Type correctness of the queue.                                          *)
THEOREM TypeCorrect == QueueSpec => []TypeOK
<1>1. TypeOK /\ [QueueNext]_vars => TypeOK'
  BY WorkerStepType, ClientStepType, EnvironmentType DEF QueueNext
<1> QED BY <1>1, TypeInit, PTL DEF QueueSpec

-----------------------------------------------------------------------------
(* The inductive invariant.  What the three invariants of the table say of *)
(* one job, with the two markers a queued row can carry:                   *)
RowOK(r, events, entries) ==
  /\ events = IF IsTerminal(r) THEN <<r.status>> ELSE <<>>
  /\ Len(entries) = r.attempts /\ r.attempts <= MaxAttempts
  /\ r.status = "queued" => r.attempts < MaxAttempts
  /\ IsActive(r) => r.attempts > 0 /\ entries[r.attempts] = [worker |-> r.owner, outcome |-> "running"]
  /\ IsTerminal(r) /\ r.attempts > 0 => entries[r.attempts].outcome = r.status
  /\ IsActive(r) <=> r.owner # NoOwner
  /\ IsActive(r) <=> r.lease # "none"
  /\ r.waiting \in {"none", "capacity"}
  /\ r.status = "absent" => r.attempts = 0

TableInv == \A j \in Jobs : RowOK(rows[j], outbox[j], log[j])

(* A claim holds queued rows only, each row for one claim.                 *)
LockInv ==
  /\ \A w \in Workers : \A j \in locked[w] : rows[j].status = "queued"
  /\ \A v, w \in Workers : v # w => locked[v] \cap locked[w] = {}
  /\ \A w \in Workers : locked[w] # {} => pc[w] = "claiming"

(* The places where a worker is about to use a record it has read.         *)
FreshPcs == {"dispatch", "start", "revalidate", "complete", "cancelling"}

(* What a worker or a request remembers is fresh or behind the row.        *)
WorkerHeld(w) ==
  /\ pc[w] \in FreshPcs => FreshOrStale(rows[job[w]], held[w]) /\ held[w].status # "absent"
  /\ pc[w] \in {"dispatch", "start"} => held[w].status = "leased"
  /\ held[w].waiting \in {"none", "capacity"}

ClientHeld(c) == cpc[c] = "cancelling" => FreshOrStale(rows[cjob[c]], cheld[c])

HeldInv ==
  /\ \A w \in Workers : WorkerHeld(w)
  /\ \A c \in Clients : ClientHeld(c)

IInv == TypeOK /\ TableInv /\ LockInv /\ HeldInv

(* Each write of a row keeps what the invariant says of the job.           *)
LEMMA SettledOK ==
  ASSUME NEW r \in RowSet, NEW h \in RowSet, NEW v \in TerminalStates,
         NEW events, NEW entries \in Seq(Attempts),
         RowOK(r, events, entries), ~IsTerminal(r)
  PROVE  RowOK(Settled(r, h, v), Append(events, v), FinishAttempt(entries, v))
<1>1. events = <<>> /\ Append(events, v) = <<v>>
  BY DEF RowOK
<1>2. r.attempts \in Nat /\ Len(entries) = r.attempts
  BY DEF RowOK, RowSet
<1>3. /\ Settled(r, h, v).status = v /\ Settled(r, h, v).attempts = r.attempts
      /\ Settled(r, h, v).owner = NoOwner /\ Settled(r, h, v).lease = "none"
      /\ Settled(r, h, v).waiting = "none"
  BY DEF Settled
<1>4. IsTerminal(Settled(r, h, v)) /\ ~IsActive(Settled(r, h, v)) /\ v # "queued" /\ v # "absent"
  BY <1>3 DEF IsTerminal, IsActive, TerminalStates, ActiveStates
<1>5. r.attempts > 0 => FinishAttempt(entries, v)[r.attempts].outcome = v
  BY <1>2, FinishAttemptFacts
<1> QED BY <1>1, <1>2, <1>3, <1>4, <1>5, FinishAttemptFacts DEF RowOK

LEMMA RequeuedOK ==
  ASSUME NEW r \in RowSet, NEW events, NEW entries \in Seq(Attempts),
         RowOK(r, events, entries), IsActive(r), ~Exhausted(r)
  PROVE  RowOK(Requeued(r), events, entries)
BY BudgetAssumption
DEF RowOK, Requeued, IsActive, IsTerminal, Exhausted, ActiveStates, TerminalStates, RowSet

LEMMA LeasedOK ==
  ASSUME NEW r \in RowSet, NEW events, NEW entries \in Seq(Attempts), NEW w \in Workers,
         RowOK(r, events, entries), r.status = "queued"
  PROVE  RowOK(Leased(r, w), events, Append(entries, [worker |-> IdOf(w), outcome |-> "running"]))
<1> DEFINE a == [worker |-> IdOf(w), outcome |-> "running"]
<1>1. a \in Attempts /\ IdOf(w) # NoOwner
  BY WorkersAssumption DEF Attempts, Outcomes
<1>2. r.attempts \in Nat /\ Len(entries) = r.attempts /\ r.attempts < MaxAttempts /\ MaxAttempts \in Nat
  BY BudgetAssumption DEF RowOK, RowSet
<1> DEFINE grown == Append(entries, a)
<1>3. Len(grown) = r.attempts + 1 /\ grown[r.attempts + 1] = a
  BY <1>1, <1>2
<1>4. /\ Leased(r, w).status = "leased" /\ Leased(r, w).attempts = r.attempts + 1
      /\ Leased(r, w).owner = IdOf(w) /\ Leased(r, w).lease = "live"
      /\ Leased(r, w).waiting = r.waiting
  BY DEF Leased
<1>5. IsActive(Leased(r, w)) /\ ~IsTerminal(Leased(r, w)) /\ ~IsTerminal(r)
  BY <1>4 DEF IsActive, IsTerminal, ActiveStates, TerminalStates
<1>6. events = <<>> /\ r.waiting \in {"none", "capacity"}
  BY <1>5 DEF RowOK
<1> HIDE DEF grown
<1>7. RowOK(Leased(r, w), events, grown)
  BY <1>1, <1>2, <1>3, <1>4, <1>5, <1>6 DEF RowOK
<1> QED BY <1>7 DEF grown

LEMMA StartedOK ==
  ASSUME NEW r \in RowSet, NEW h \in RowSet, NEW events, NEW entries \in Seq(Attempts),
         RowOK(r, events, entries), r.status = "leased", h.owner = r.owner
  PROVE  RowOK(Started(r, h), events, entries)
BY DEF RowOK, Started, IsActive, IsTerminal, ActiveStates, TerminalStates, RowSet

LEMMA ReportedOK ==
  ASSUME NEW r \in RowSet, NEW h \in RowSet, NEW events, NEW entries \in Seq(Attempts),
         RowOK(r, events, entries), IsActive(r), h.waiting \in {"none", "capacity"}
  PROVE  RowOK(Reported(r, h), events, entries)
BY DEF RowOK, Reported, IsActive, IsTerminal, ActiveStates, TerminalStates, RowSet

LEMMA NewRowOK ==
  ASSUME NEW p \in BOOLEAN
  PROVE  RowOK(NewRow(p), <<>>, <<>>)
BY NewRowType, BudgetAssumption
DEF RowOK, IsActive, IsTerminal, ActiveStates, TerminalStates

LEMMA NoRowOK == RowOK(NoRow, <<>>, <<>>)
BY BudgetAssumption DEF RowOK, NoRow, IsActive, IsTerminal, ActiveStates, TerminalStates

(* A record that a compare-and-swap may complete was read from an active   *)
(* row: the two markers in use exclude waiting_external.                   *)
LEMMA CompletableIsActive ==
  ASSUME NEW h \in RowSet, h.waiting \in {"none", "capacity"}, h.status # "absent",
         NEW v \in {"succeeded", "failed"}, CanComplete(h, v)
  PROVE  IsActive(h) /\ Logical(h) = h.status /\ PhysicalStatus(Logical(h)) = h.status
<1>1. h.status \in {"absent", "queued", "leased", "running", "succeeded", "failed", "cancelled"}
  BY DEF RowSet, Statuses, ActiveStates, TerminalStates
<1>2. h.status # "queued" => Logical(h) = h.status
  BY DEF Logical, UnpackLogicalState
<1>3. h.status = "queued" => Logical(h) \in {"queued", "waiting_capacity"}
  BY DEF Logical, UnpackLogicalState
<1>4. v \in Transitions(Logical(h))
  BY DEF CanComplete, Legal
<1>5. h.status # "queued"
  BY <1>3, <1>4 DEF Transitions, PendingStates
<1>6. h.status \notin TerminalStates
  BY <1>2, <1>4, <1>5 DEF Transitions, TerminalStates
<1>7. h.status \in {"leased", "running"}
  BY <1>1, <1>5, <1>6 DEF TerminalStates
<1> QED
  BY <1>2, <1>7 DEF PendingStates, IsActive, ActiveStates, PhysicalStatus

(* The steps that write the tables, and all the others.                    *)
TableWrites ==
  \/ \E w \in Workers : \/ Recover(w) \/ ClaimJob(w) \/ StartRunning(w) \/ Report(w)
                        \/ Complete(w) \/ Cancel(w)
  \/ \E c \in Clients : Insert(c) \/ ClientCancel(c)
  \/ \E j \in Jobs : LeaseExpires(j)

LEMMA OtherStepsKeepTable ==
  ASSUME [QueueNext]_vars, ~TableWrites
  PROVE  UNCHANGED table
<1>1. ASSUME NEW w \in Workers, WorkerStep(w) \/ Crash(w), ~TableWrites PROVE UNCHANGED table
  BY <1>1
  DEF TableWrites, WorkerStep, Snapshot, LockBatch, ClaimNone, Dispatch, StartLost, ReportRefused,
      HandlerStops, HandlerEnds, PublishRead, PublishMoot, Revalidate, CompleteLost, CancelRead,
      CancelLost, Abort, Crash, Restart
<1>2. ASSUME NEW c \in Clients, ClientStep(c), ~TableWrites PROVE UNCHANGED table
  BY <1>2
  DEF TableWrites, ClientStep, BeginEnqueue, ReadUserBudget, Reuse, BeginCancel, ClientCancelRead,
      ClientCancelRefused, ClientCancelFails
<1>3. ASSUME NEW u \in Users, ToggleAuthorization(u) PROVE UNCHANGED table
  BY <1>3 DEF ToggleAuthorization
<1>4. CASE UNCHANGED vars
  BY <1>4 DEF vars
<1> QED BY <1>1, <1>2, <1>3, <1>4 DEF QueueNext, TableWrites

LEMMA SettleTable ==
  ASSUME TypeOK, TableInv, NEW j \in Jobs, NEW h \in RowSet, NEW v \in TerminalStates,
         Settle(j, h, v), ~IsTerminal(rows[j])
  PROVE  TableInv'
<1>1. /\ rows[j] \in RowSet /\ log[j] \in Seq(Attempts) /\ RowOK(rows[j], outbox[j], log[j])
  BY DEF TypeOK, TableTypeOK, TableInv
<1>2. RowOK(Settled(rows[j], h, v), Append(outbox[j], v), FinishAttempt(log[j], v))
  BY <1>1, SettledOK
<1>3. /\ rows'[j] = Settled(rows[j], h, v) /\ outbox'[j] = Append(outbox[j], v)
      /\ log'[j] = FinishAttempt(log[j], v)
      /\ \A k \in Jobs \ {j} : rows'[k] = rows[k] /\ outbox'[k] = outbox[k] /\ log'[k] = log[k]
  BY DEF Settle, TypeOK, TableTypeOK
<1> QED BY <1>2, <1>3 DEF TableInv

LEMMA RowWriteTable ==
  ASSUME TypeOK, TableInv, NEW j \in Jobs, NEW r,
         rows' = [rows EXCEPT ![j] = r], UNCHANGED <<outbox, log>>,
         RowOK(r, outbox[j], log[j])
  PROVE  TableInv'
BY DEF TableInv, TypeOK, TableTypeOK

(* A record under which a compare-and-swap succeeds is the row's content.  *)
LEMMA CasFinds ==
  ASSUME NEW r \in RowSet, NEW h \in RowSet, FreshOrStale(r, h), r.revision = h.revision
  PROVE  r.status = h.status /\ r.owner = h.owner /\ r.waiting = h.waiting /\ r.stage = h.stage
BY DEF FreshOrStale, SameContent, RowSet

(* What each table write finds in the row it writes.                       *)
LEMMA StartFinds ==
  ASSUME IInv, NEW w \in Workers, StartRunning(w)
  PROVE  /\ job[w] \in Jobs /\ rows[job[w]].status = "leased"
         /\ held[w].owner = rows[job[w]].owner
<1>1. job[w] \in Jobs /\ rows[job[w]] \in RowSet /\ held[w] \in RowSet
  BY DEF IInv, TypeOK, WorkerTypeOK, TableTypeOK, StartRunning, BusyPcs
<1>2. FreshOrStale(rows[job[w]], held[w]) /\ held[w].status = "leased"
  BY DEF IInv, HeldInv, WorkerHeld, StartRunning, FreshPcs
<1> QED BY <1>1, <1>2, CasFinds DEF StartRunning, CasHolds

LEMMA CompleteFinds ==
  ASSUME IInv, NEW w \in Workers, Complete(w)
  PROVE  job[w] \in Jobs /\ IsActive(rows[job[w]]) /\ verdict[w] \in TerminalStates
<1>1. job[w] \in Jobs /\ held[w] \in RowSet /\ verdict[w] \in {"succeeded", "failed"}
  BY DEF IInv, TypeOK, WorkerTypeOK, Complete, BusyPcs
<1>2. held[w].waiting \in {"none", "capacity"} /\ held[w].status # "absent"
  BY DEF IInv, HeldInv, WorkerHeld, Complete, FreshPcs
<1>3. IsActive(held[w]) /\ PhysicalStatus(Logical(held[w])) = held[w].status
  BY <1>1, <1>2, CompletableIsActive DEF Complete
<1> QED BY <1>1, <1>3 DEF Complete, CasHolds, IsActive, TerminalStates

LEMMA TableStep == IInv /\ [QueueNext]_vars => TableInv'
<1> SUFFICES ASSUME IInv, [QueueNext]_vars PROVE TableInv'
  OBVIOUS
<1> USE DEF IInv
<1>0. TerminalStates = {"succeeded", "failed", "cancelled"}
  BY DEF TerminalStates
<1>t. \A j \in Jobs : /\ rows[j] \in RowSet /\ log[j] \in Seq(Attempts)
                      /\ RowOK(rows[j], outbox[j], log[j])
  BY DEF TypeOK, TableTypeOK, TableInv
<1>1. ASSUME NEW w \in Workers, Recover(w) PROVE TableInv'
  <2> SUFFICES ASSUME NEW j \in Jobs PROVE RowOK(rows'[j], outbox'[j], log'[j])
    BY DEF TableInv
  <2>1. CASE IsExpired(rows[j]) /\ Exhausted(rows[j])
    <3>1. ~IsTerminal(rows[j])
      BY <2>1 DEF IsExpired, IsActive, IsTerminal, ActiveStates, TerminalStates
    <3>2. /\ rows'[j] = Settled(rows[j], rows[j], "failed")
          /\ outbox'[j] = Append(outbox[j], "failed") /\ log'[j] = FinishAttempt(log[j], "failed")
      BY <1>1, <2>1 DEF Recover
    <3> QED BY <1>0, <1>t, <3>1, <3>2, SettledOK
  <2>2. CASE IsExpired(rows[j]) /\ ~Exhausted(rows[j])
    <3>1. rows'[j] = Requeued(rows[j]) /\ outbox'[j] = outbox[j] /\ log'[j] = log[j]
      BY <1>1, <2>2 DEF Recover
    <3> QED BY <1>t, <2>2, <3>1, RequeuedOK DEF IsExpired
  <2>3. CASE ~IsExpired(rows[j])
    <3>1. rows'[j] = rows[j] /\ outbox'[j] = outbox[j] /\ log'[j] = log[j]
      BY <1>1, <2>3 DEF Recover
    <3> QED BY <1>t, <3>1
  <2> QED BY <2>1, <2>2, <2>3
<1>2. ASSUME NEW w \in Workers, ClaimJob(w) PROVE TableInv'
  <2>1. PICK j \in locked[w] :
          /\ rows' = [rows EXCEPT ![j] = Leased(@, w)]
          /\ log' = [log EXCEPT ![j] = Append(@, [worker |-> IdOf(w), outcome |-> "running"])]
    BY <1>2 DEF ClaimJob
  <2>2. j \in Jobs /\ rows[j].status = "queued"
    BY DEF TypeOK, WorkerTypeOK, LockInv
  <2>3. RowOK(Leased(rows[j], w), outbox[j], Append(log[j], [worker |-> IdOf(w), outcome |-> "running"]))
    BY <1>t, <2>2, LeasedOK
  <2>4. /\ rows'[j] = Leased(rows[j], w) /\ outbox' = outbox
        /\ log'[j] = Append(log[j], [worker |-> IdOf(w), outcome |-> "running"])
        /\ \A k \in Jobs \ {j} : rows'[k] = rows[k] /\ log'[k] = log[k]
    BY <1>2, <2>1, <2>2 DEF ClaimJob, TypeOK, TableTypeOK
  <2> QED BY <1>t, <2>3, <2>4 DEF TableInv
<1>3. ASSUME NEW w \in Workers, StartRunning(w) PROVE TableInv'
  <2>1. job[w] \in Jobs /\ rows[job[w]].status = "leased" /\ held[w].owner = rows[job[w]].owner
    BY <1>3, StartFinds
  <2>2. held[w] \in RowSet
    BY DEF TypeOK, WorkerTypeOK
  <2>3. RowOK(Started(rows[job[w]], held[w]), outbox[job[w]], log[job[w]])
    BY <1>t, <2>1, <2>2, StartedOK
  <2> QED BY <1>3, <2>1, <2>3, RowWriteTable DEF StartRunning
<1>4. ASSUME NEW w \in Workers, Report(w) PROVE TableInv'
  <2>1. job[w] \in Jobs /\ held[w] \in RowSet /\ held[w].waiting \in {"none", "capacity"}
    BY <1>4 DEF TypeOK, WorkerTypeOK, Report, BusyPcs, HeldInv, WorkerHeld
  <2>2. RowOK(Reported(rows[job[w]], held[w]), outbox[job[w]], log[job[w]])
    BY <1>4, <1>t, <2>1, ReportedOK DEF Report, StillOwner
  <2> QED BY <1>4, <2>1, <2>2, RowWriteTable DEF Report
<1>5. ASSUME NEW w \in Workers, Complete(w) PROVE TableInv'
  <2>1. job[w] \in Jobs /\ IsActive(rows[job[w]]) /\ verdict[w] \in TerminalStates
    BY <1>5, CompleteFinds
  <2>2. ~IsTerminal(rows[job[w]]) /\ held[w] \in RowSet
    BY <2>1 DEF IsActive, IsTerminal, ActiveStates, TerminalStates, TypeOK, WorkerTypeOK
  <2> QED BY <1>5, <2>1, <2>2, SettleTable DEF Complete
<1>6. ASSUME NEW w \in Workers, Cancel(w) PROVE TableInv'
  <2>1. job[w] \in Jobs /\ held[w] \in RowSet
    BY <1>6 DEF TypeOK, WorkerTypeOK, Cancel, BusyPcs
  <2> QED BY <1>0, <1>6, <2>1, SettleTable DEF Cancel, CancelCasHolds
<1>7. ASSUME NEW c \in Clients, ClientCancel(c) PROVE TableInv'
  <2>1. cjob[c] \in Jobs /\ cheld[c] \in RowSet
    BY <1>7 DEF TypeOK, ClientTypeOK, ClientCancel
  <2> QED BY <1>0, <1>7, <2>1, SettleTable DEF ClientCancel, CancelCasHolds
<1>8. ASSUME NEW c \in Clients, Insert(c) PROVE TableInv'
  <2>1. PICK j \in Free : rows' = [rows EXCEPT ![j] = NewRow(parked[c])]
    BY <1>8 DEF Insert
  <2>2. j \in Jobs /\ rows[j].status = "absent" /\ parked[c] \in BOOLEAN
    BY DEF Free, TypeOK, ClientTypeOK
  <2>3. outbox[j] = <<>> /\ log[j] = <<>>
    <3>1. ~IsTerminal(rows[j])
      BY <2>2 DEF IsTerminal, TerminalStates
    <3>2. outbox[j] = <<>> /\ Len(log[j]) = 0
      BY <1>t, <2>2, <3>1 DEF RowOK
    <3> QED BY <1>t, <2>2, <3>2
  <2>4. RowOK(NewRow(parked[c]), outbox[j], log[j])
    BY <2>2, <2>3, NewRowOK
  <2> QED BY <1>8, <2>1, <2>2, <2>4, RowWriteTable DEF Insert
<1>9. ASSUME NEW j \in Jobs, LeaseExpires(j) PROVE TableInv'
  <2> DEFINE r == [rows[j] EXCEPT !.lease = "expired"]
  <2>1. rows' = [rows EXCEPT ![j] = r] /\ rows[j].lease = "live"
    BY <1>9 DEF LeaseExpires
  <2>2. /\ r.status = rows[j].status /\ r.waiting = rows[j].waiting /\ r.owner = rows[j].owner
        /\ r.attempts = rows[j].attempts /\ r.lease = "expired"
    BY <1>t DEF RowSet
  <2> HIDE DEF r
  <2>3. RowOK(r, outbox[j], log[j])
    BY <1>t, <2>1, <2>2 DEF RowOK, IsActive, IsTerminal
  <2> QED BY <1>9, <2>1, <2>3, RowWriteTable DEF LeaseExpires
<1>10. CASE ~TableWrites
  <2>1. UNCHANGED table
    BY <1>10, OtherStepsKeepTable
  <2> QED BY <2>1 DEF TableInv, table
<1> QED BY <1>1, <1>2, <1>3, <1>4, <1>5, <1>6, <1>7, <1>8, <1>9, <1>10 DEF TableWrites

-----------------------------------------------------------------------------
(* Revisions only grow: a step leaves the content of a row alone or gives  *)
(* it a higher revision.                                                   *)
Later(r, s) == SameContent(r, s) \/ r.revision > s.revision

LEMMA WritesRevise ==
  ASSUME NEW r \in RowSet, NEW h \in RowSet, NEW v \in TerminalStates
  PROVE  /\ Later(r, r) /\ \A w \in Workers : Later(Leased(r, w), r)
         /\ Later(Started(r, h), r) /\ Later(Reported(r, h), r)
         /\ Later(Settled(r, h, v), r) /\ Later(Requeued(r), r)
<1>1. r.revision \in Nat /\ r.revision + 1 > r.revision
  BY DEF RowSet
<1>2. Later(r, r)
  BY DEF Later, SameContent
<1>3. \A w \in Workers : Later(Leased(r, w), r)
  BY <1>1 DEF Later, Leased
<1>4. Later(Started(r, h), r) /\ Later(Reported(r, h), r)
  BY <1>1 DEF Later, Started, Reported
<1>5. Later(Settled(r, h, v), r) /\ Later(Requeued(r), r)
  BY <1>1 DEF Later, Settled, Requeued
<1> QED BY <1>2, <1>3, <1>4, <1>5

LEMMA StaleStays ==
  ASSUME NEW r \in RowSet, NEW s \in RowSet, NEW h \in RowSet,
         Later(s, r), FreshOrStale(r, h)
  PROVE  FreshOrStale(s, h)
BY DEF Later, FreshOrStale, SameContent, RowSet

LEMMA RevisionsMove ==
  ASSUME TypeOK, [QueueNext]_vars, NEW j \in Jobs \ Free
  PROVE  Later(rows'[j], rows[j])
<1>0. /\ j \in Jobs /\ rows[j] \in RowSet /\ rows \in [Jobs -> RowSet]
      /\ "failed" \in TerminalStates /\ "cancelled" \in TerminalStates
      /\ \A w \in Workers : held[w] \in RowSet /\ verdict[w] \in TerminalStates
      /\ \A c \in Clients : cheld[c] \in RowSet
  BY DEF TypeOK, TableTypeOK, WorkerTypeOK, ClientTypeOK, TerminalStates
<1>1. ASSUME NEW w \in Workers, Recover(w) PROVE Later(rows'[j], rows[j])
  <2>1. rows'[j] \in {rows[j], Settled(rows[j], rows[j], "failed"), Requeued(rows[j])}
    BY <1>0, <1>1 DEF Recover
  <2> QED BY <1>0, <2>1, WritesRevise
<1>2. ASSUME NEW w \in Workers, ClaimJob(w) PROVE Later(rows'[j], rows[j])
  <2>1. rows'[j] = rows[j] \/ rows'[j] = Leased(rows[j], w)
    BY <1>0, <1>2 DEF ClaimJob
  <2> QED BY <1>0, <2>1, WritesRevise
<1>3. ASSUME NEW w \in Workers, StartRunning(w) \/ Report(w) \/ Complete(w) \/ Cancel(w)
      PROVE  Later(rows'[j], rows[j])
  <2>1. PICK v \in TerminalStates :
          rows'[j] \in {rows[j], Started(rows[j], held[w]), Reported(rows[j], held[w]),
                        Settled(rows[j], held[w], v)}
    BY <1>0, <1>3 DEF StartRunning, Report, Complete, Cancel, Settle
  <2> QED BY <1>0, <2>1, WritesRevise
<1>4. ASSUME NEW c \in Clients, Insert(c) PROVE Later(rows'[j], rows[j])
  <2>1. rows'[j] = rows[j]
    BY <1>0, <1>4 DEF Insert
  <2> QED BY <1>0, <2>1, WritesRevise
<1>5. ASSUME NEW c \in Clients, ClientCancel(c) PROVE Later(rows'[j], rows[j])
  <2>1. rows'[j] = rows[j] \/ rows'[j] = Settled(rows[j], cheld[c], "cancelled")
    BY <1>0, <1>5 DEF ClientCancel, Settle
  <2> QED BY <1>0, <2>1, WritesRevise
<1>6. ASSUME NEW k \in Jobs, LeaseExpires(k) PROVE Later(rows'[j], rows[j])
  <2>1. rows'[j] = rows[j] \/ rows'[j] = [rows[j] EXCEPT !.lease = "expired"]
    BY <1>0, <1>6 DEF LeaseExpires
  <2>2. SameContent([rows[j] EXCEPT !.lease = "expired"], rows[j])
    BY <1>0 DEF SameContent, RowSet
  <2> QED BY <1>0, <2>1, <2>2, WritesRevise DEF Later
<1>7. CASE ~TableWrites
  BY <1>0, <1>7, OtherStepsKeepTable, WritesRevise DEF table
<1> QED BY <1>1, <1>2, <1>3, <1>4, <1>5, <1>6, <1>7 DEF TableWrites

(* A step of one worker touches neither the other workers nor a request,   *)
(* and a step of a request touches no worker and no other request.         *)
LEMMA OthersStand ==
  ASSUME TypeOK, NEW w \in Workers, WorkerStep(w) \/ Crash(w), NEW v \in Workers \ {w}
  PROVE  /\ pc'[v] = pc[v] /\ job'[v] = job[v] /\ held'[v] = held[v]
         /\ locked'[v] = locked[v]
<1>0. /\ v # w /\ v \in Workers
      /\ pc \in [Workers -> WorkerPcs] /\ job \in [Workers -> Jobs \cup {NoJob}]
      /\ held \in [Workers -> RowSet] /\ locked \in [Workers -> SUBSET (Jobs \ Free)]
  BY DEF TypeOK, WorkerTypeOK
<1> DEFINE Stands == /\ pc'[v] = pc[v] /\ job'[v] = job[v] /\ held'[v] = held[v]
                     /\ locked'[v] = locked[v]
<1>1. BackToPoll(w) => Stands
  BY <1>0 DEF BackToPoll
<1>2. ASSUME NEW at, Goto(w, at), held' = held \/ (\E h : Hold(w, h)) PROVE Stands
  BY <1>0, <1>2 DEF Goto, Hold
<1>3. CASE Recover(w) \/ Dispatch(w) \/ StartRunning(w) \/ PublishRead(w) \/ Revalidate(w)
           \/ CancelRead(w) \/ Abort(w)
  BY <1>2, <1>3 DEF Recover, Dispatch, StartRunning, PublishRead, Revalidate, CancelRead, Abort
<1>4. CASE ClaimNone(w) \/ StartLost(w) \/ HandlerStops(w) \/ PublishMoot(w) \/ Complete(w)
           \/ CompleteLost(w) \/ Cancel(w) \/ CancelLost(w) \/ Restart(w)
  BY <1>1, <1>4
  DEF ClaimNone, StartLost, HandlerStops, PublishMoot, Complete, CompleteLost, Cancel,
      CancelLost, Restart
<1>5. CASE Snapshot(w) \/ LockBatch(w) \/ ClaimJob(w)
  BY <1>0, <1>5 DEF Snapshot, LockBatch, ClaimJob, Hold
<1>6. CASE Report(w) \/ ReportRefused(w) \/ HandlerEnds(w)
  BY <1>0, <1>6 DEF Report, ReportRefused, HandlerEnds, Hold
<1>7. CASE Crash(w)
  BY <1>0, <1>7 DEF Crash
<1> QED BY <1>3, <1>4, <1>5, <1>6, <1>7 DEF WorkerStep

LEMMA ClientsStand ==
  ASSUME NEW w \in Workers, WorkerStep(w) \/ Crash(w)
  PROVE  UNCHANGED client
BY DEF WorkerStep, Crash, Recover, Snapshot, LockBatch, ClaimJob, ClaimNone, Dispatch,
   StartRunning, StartLost, Report, ReportRefused, HandlerStops, HandlerEnds, PublishRead,
   PublishMoot, Revalidate, Complete, CompleteLost, CancelRead, Cancel, CancelLost, Abort, Restart

LEMMA WorkersStand ==
  ASSUME NEW c \in Clients, ClientStep(c)
  PROVE  UNCHANGED worker
BY DEF ClientStep, BeginEnqueue, ReadUserBudget, Insert, Reuse, BeginCancel, ClientCancelRead,
   ClientCancel, ClientCancelRefused, ClientCancelFails

LEMMA OtherClientsStand ==
  ASSUME TypeOK, NEW c \in Clients, ClientStep(c), NEW d \in Clients \ {c}
  PROVE  cpc'[d] = cpc[d] /\ cjob'[d] = cjob[d] /\ cheld'[d] = cheld[d]
<1>0. /\ d # c /\ d \in Clients
      /\ cpc \in [Clients -> ClientPcs] /\ cjob \in [Clients -> Jobs \cup {NoJob}]
      /\ cheld \in [Clients -> RowSet]
  BY DEF TypeOK, ClientTypeOK
<1>1. ASSUME NEW a, EndCall(c, a)
      PROVE  cpc'[d] = cpc[d] /\ cjob'[d] = cjob[d] /\ cheld'[d] = cheld[d]
  BY <1>0, <1>1 DEF EndCall
<1>2. CASE Insert(c) \/ Reuse(c) \/ ClientCancel(c) \/ ClientCancelRefused(c)
           \/ ClientCancelFails(c)
  BY <1>1, <1>2 DEF Insert, Reuse, ClientCancel, ClientCancelRefused, ClientCancelFails
<1>3. CASE BeginCancel(c)
  BY <1>0, <1>1, <1>3 DEF BeginCancel
<1>4. CASE BeginEnqueue(c) \/ ReadUserBudget(c) \/ ClientCancelRead(c)
  BY <1>0, <1>4 DEF BeginEnqueue, ReadUserBudget, ClientCancelRead
<1> QED BY <1>2, <1>3, <1>4 DEF ClientStep

-----------------------------------------------------------------------------
(* The row locks of the claims.  Whoever writes a row that some claim has  *)
(* locked is that claim.                                                   *)
LEMMA LockedStay ==
  ASSUME IInv, [QueueNext]_vars, NEW v \in Workers, NEW j \in locked[v]
  PROVE  rows'[j] = rows[j] \/ ClaimJob(v)
<1> USE DEF IInv
<1>0. /\ j \in Jobs /\ rows \in [Jobs -> RowSet] /\ rows[j].status = "queued"
      /\ ~IsActive(rows[j]) /\ ~IsTerminal(rows[j])
  BY DEF TypeOK, TableTypeOK, WorkerTypeOK, LockInv, IsActive, IsTerminal, ActiveStates,
         TerminalStates
<1>1. ASSUME NEW w \in Workers, Recover(w) PROVE rows'[j] = rows[j]
  BY <1>0, <1>1 DEF Recover, IsExpired
<1>2. ASSUME NEW w \in Workers \ {v}, ClaimJob(w) PROVE rows'[j] = rows[j]
  <2>1. j \notin locked[w]
    BY DEF LockInv
  <2> QED BY <1>0, <1>2, <2>1 DEF ClaimJob
<1>3. ASSUME NEW w \in Workers, StartRunning(w) PROVE rows'[j] = rows[j]
  <2>1. job[w] # j
    BY <1>0, <1>3, StartFinds
  <2> QED BY <1>0, <1>3, <2>1 DEF StartRunning
<1>4. ASSUME NEW w \in Workers, Report(w) PROVE rows'[j] = rows[j]
  BY <1>0, <1>4 DEF Report, StillOwner
<1>5. ASSUME NEW w \in Workers, Complete(w) PROVE rows'[j] = rows[j]
  <2>1. job[w] # j
    BY <1>0, <1>5, CompleteFinds
  <2> QED BY <1>0, <1>5, <2>1 DEF Complete, Settle
<1>6. ASSUME NEW w \in Workers, Cancel(w) PROVE rows'[j] = rows[j]
  <2>1. job[w] # j
    BY <1>6 DEF Cancel, Unlocked
  <2> QED BY <1>0, <1>6, <2>1 DEF Cancel, Settle
<1>7. ASSUME NEW c \in Clients, ClientCancel(c) PROVE rows'[j] = rows[j]
  <2>1. cjob[c] # j
    BY <1>7 DEF ClientCancel, Unlocked
  <2> QED BY <1>0, <1>7, <2>1 DEF ClientCancel, Settle
<1>8. ASSUME NEW c \in Clients, Insert(c) PROVE rows'[j] = rows[j]
  BY <1>0, <1>8 DEF Insert, Free
<1>9. ASSUME NEW k \in Jobs, LeaseExpires(k) PROVE rows'[j] = rows[j]
  <2>1. rows[j].lease = "none" /\ rows[k].lease = "live"
    BY <1>0, <1>9 DEF LeaseExpires, TableInv, RowOK
  <2> QED BY <1>0, <1>9, <2>1 DEF LeaseExpires
<1>10. CASE ~TableWrites
  BY <1>10, OtherStepsKeepTable DEF table
<1> QED BY <1>1, <1>2, <1>3, <1>4, <1>5, <1>6, <1>7, <1>8, <1>9, <1>10 DEF TableWrites

(* What one worker's own step does to its locks.                           *)
LEMMA OwnLocks ==
  ASSUME TypeOK, NEW w \in Workers, WorkerStep(w) \/ Crash(w),
         locked[w] # {} => pc[w] = "claiming"
  PROVE  \/ locked'[w] = {} /\ ~LockBatch(w)
         \/ /\ LockBatch(w) /\ locked'[w] \subseteq Lockable(w)
            /\ pc'[w] = "claiming" /\ UNCHANGED table
<1>0. /\ pc \in [Workers -> WorkerPcs] /\ locked \in [Workers -> SUBSET (Jobs \ Free)]
  BY DEF TypeOK, WorkerTypeOK
<1>1. CASE LockBatch(w)
  <2>1. TopBatch(Lockable(w)) \subseteq Lockable(w)
    BY DEF TopBatch
  <2> QED BY <1>0, <1>1, <2>1 DEF LockBatch
<1>2. CASE ~LockBatch(w) /\ BackToPoll(w)
  BY <1>0, <1>2 DEF BackToPoll
<1>3. CASE ~LockBatch(w) /\ locked'[w] = locked[w] /\ pc[w] # "claiming"
  BY <1>3
<1>4. CASE ~LockBatch(w) /\ (ClaimJob(w) \/ Crash(w))
  BY <1>0, <1>4 DEF ClaimJob, Crash
<1>5. CASE ~LockBatch(w) /\ (Recover(w) \/ Snapshot(w) \/ Dispatch(w) \/ StartRunning(w) \/ Report(w)
            \/ ReportRefused(w) \/ HandlerEnds(w) \/ PublishRead(w) \/ Revalidate(w)
            \/ CancelRead(w) \/ Abort(w))
  BY <1>3, <1>5
  DEF Recover, Snapshot, Dispatch, StartRunning, Report, ReportRefused, HandlerEnds, PublishRead,
      Revalidate, CancelRead, Abort, Goto
<1>6. CASE ~LockBatch(w) /\ (ClaimNone(w) \/ StartLost(w) \/ HandlerStops(w) \/ PublishMoot(w)
            \/ Complete(w) \/ CompleteLost(w) \/ Cancel(w) \/ CancelLost(w) \/ Restart(w))
  BY <1>2, <1>6
  DEF ClaimNone, StartLost, HandlerStops, PublishMoot, Complete, CompleteLost, Cancel,
      CancelLost, Restart
<1> QED BY <1>1, <1>4, <1>5, <1>6 DEF WorkerStep

LEMMA LockStep == IInv /\ [QueueNext]_vars => LockInv'
<1> SUFFICES ASSUME IInv, [QueueNext]_vars PROVE LockInv'
  OBVIOUS
<1> USE DEF IInv
<1>1. ASSUME NEW w \in Workers, WorkerStep(w) \/ Crash(w) PROVE LockInv'
  <2>1. \A v \in Workers \ {w} : pc'[v] = pc[v] /\ locked'[v] = locked[v]
    BY <1>1, OthersStand
  <2>2. \A v \in Workers \ {w} : \A j \in locked'[v] : rows'[j].status = "queued"
    <3> TAKE v \in Workers \ {w}
    <3> TAKE j \in locked'[v]
    <3>1. rows'[j] = rows[j] \/ ClaimJob(v)
      BY <2>1, LockedStay
    <3>2. locked \in [Workers -> SUBSET (Jobs \ Free)]
      BY DEF TypeOK, WorkerTypeOK
    <3>3. ClaimJob(v) => locked'[v] = {}
      BY <3>2 DEF ClaimJob
    <3> QED BY <2>1, <3>1, <3>3 DEF LockInv
  <2>3. CASE locked'[w] = {}
    BY <2>1, <2>2, <2>3 DEF LockInv
  <2>4. CASE LockBatch(w) /\ locked'[w] \subseteq Lockable(w) /\ pc'[w] = "claiming" /\ UNCHANGED table
    <3>1. \A j \in locked'[w] : rows'[j].status = "queued"
      BY <2>4 DEF Lockable, table
    <3>2. \A v \in Workers \ {w} : locked'[w] \cap locked[v] = {}
      BY <2>4 DEF Lockable, LockedByOthers
    <3> QED BY <2>1, <2>2, <2>4, <3>1, <3>2 DEF LockInv
  <2> QED BY <1>1, <2>3, <2>4, OwnLocks DEF LockInv
<1>2. CASE UNCHANGED worker
  <2>1. pc' = pc /\ locked' = locked
    BY <1>2 DEF worker
  <2>2. \A v \in Workers : \A j \in locked'[v] : rows'[j].status = "queued"
    <3> TAKE v \in Workers
    <3> TAKE j \in locked'[v]
    <3>1. rows'[j] = rows[j] \/ ClaimJob(v)
      BY <2>1, LockedStay
    <3>2. ~ClaimJob(v)
      BY <2>1 DEF ClaimJob, TypeOK, WorkerTypeOK
    <3> QED BY <2>1, <3>1, <3>2 DEF LockInv
  <2> QED BY <2>1, <2>2 DEF LockInv
<1>3. (\E w \in Workers : WorkerStep(w) \/ Crash(w)) \/ UNCHANGED worker
  BY WorkersStand DEF QueueNext, LeaseExpires, ToggleAuthorization, vars
<1> QED BY <1>1, <1>2, <1>3

-----------------------------------------------------------------------------
(* What the processes remember.                                            *)

(* A record somebody holds stays fresh or behind, whoever steps.           *)
LEMMA RememberedStays ==
  ASSUME TypeOK, TypeOK', [QueueNext]_vars, NEW j \in Jobs \ Free, NEW h \in RowSet,
         FreshOrStale(rows[j], h)
  PROVE  FreshOrStale(rows'[j], h)
<1>1. rows[j] \in RowSet /\ rows'[j] \in RowSet
  BY DEF TypeOK, TableTypeOK
<1>2. Later(rows'[j], rows[j])
  BY RevisionsMove
<1> QED BY <1>1, <1>2, StaleStays

LEMMA FreshPcsAreBusy == FreshPcs \subseteq BusyPcs
BY DEF FreshPcs, BusyPcs

(* A worker that stands, or moves on with the record it has.               *)
LEMMA SameRecordHeld ==
  ASSUME TypeOK, TypeOK', [QueueNext]_vars, NEW w \in Workers, WorkerHeld(w),
         job'[w] = job[w], held'[w] = held[w],
         pc'[w] \in FreshPcs => pc[w] \in FreshPcs,
         pc'[w] \in {"dispatch", "start"} => pc[w] \in {"dispatch", "start"}
  PROVE  WorkerHeld(w)'
<1>1. held[w] \in RowSet
  BY DEF TypeOK, WorkerTypeOK
<1>2. ASSUME pc'[w] \in FreshPcs PROVE FreshOrStale(rows'[job[w]], held[w])
  <2>1. job[w] \in Jobs \ Free
    BY <1>2, FreshPcsAreBusy DEF TypeOK, WorkerTypeOK
  <2> QED BY <1>1, <1>2, <2>1, RememberedStays DEF WorkerHeld
<1> QED BY <1>2 DEF WorkerHeld

(* A worker that has just read, or written, the row it now holds.          *)
LEMMA ReadRecordHeld ==
  ASSUME TypeOK', NEW w \in Workers, held'[w] = rows'[job'[w]], held'[w].status # "absent",
         held'[w].waiting \in {"none", "capacity"},
         pc'[w] \in {"dispatch", "start"} => held'[w].status = "leased"
  PROVE  WorkerHeld(w)'
BY DEF WorkerHeld, FreshOrStale, SameContent

(* A worker that is not about to use a record.                             *)
LEMMA IdleHeld ==
  ASSUME NEW w \in Workers, pc'[w] \notin FreshPcs, held'[w].waiting \in {"none", "capacity"}
  PROVE  WorkerHeld(w)'
BY DEF WorkerHeld, FreshPcs

LEMMA OwnRecordHeld ==
  ASSUME IInv, TypeOK', [QueueNext]_vars, NEW w \in Workers, WorkerStep(w) \/ Crash(w)
  PROVE  WorkerHeld(w)'
<1> USE DEF IInv
<1>0. /\ pc \in [Workers -> WorkerPcs] /\ job \in [Workers -> Jobs \cup {NoJob}]
      /\ held \in [Workers -> RowSet] /\ WorkerHeld(w) /\ NoRow.waiting = "none"
  BY DEF TypeOK, WorkerTypeOK, HeldInv, NoRow
<1>1. CASE Recover(w) \/ Snapshot(w) \/ LockBatch(w) \/ Abort(w)
  <2>1. held' = held /\ pc'[w] \in {"claim", "locking", "claiming", "aborted"}
    BY <1>0, <1>1 DEF Recover, Snapshot, LockBatch, Abort, Goto
  <2> QED BY <1>0, <2>1, IdleHeld DEF FreshPcs, WorkerHeld
<1>2. CASE ClaimJob(w)
  <2>1. PICK j \in locked[w] : /\ rows' = [rows EXCEPT ![j] = Leased(@, w)]
                               /\ job' = [job EXCEPT ![w] = j]
                               /\ held' = [held EXCEPT ![w] = Leased(rows[j], w)]
    BY <1>2 DEF ClaimJob, Hold
  <2>2. j \in Jobs /\ rows[j].waiting \in {"none", "capacity"}
    BY DEF TypeOK, WorkerTypeOK, TableInv, RowOK
  <2>3. held'[w] = rows'[job'[w]] /\ held'[w] = Leased(rows[j], w)
    BY <1>0, <2>1, <2>2 DEF TypeOK, TableTypeOK
  <2>4. held'[w].status = "leased" /\ held'[w].waiting \in {"none", "capacity"}
    BY <2>2, <2>3 DEF Leased
  <2> QED BY <2>3, <2>4, ReadRecordHeld
<1>3. CASE Dispatch(w) \/ Revalidate(w)
  <2>1. /\ job'[w] = job[w] /\ held'[w] = held[w]
        /\ \/ pc[w] = "dispatch" /\ pc'[w] \in {"start", "cancel"}
           \/ pc[w] = "revalidate" /\ pc'[w] \in {"complete", "cancel"}
    BY <1>0, <1>3 DEF Dispatch, Revalidate, Goto
  <2> QED BY <1>0, <2>1, SameRecordHeld DEF FreshPcs
<1>4. CASE StartRunning(w)
  <2>1. pc'[w] = "run" /\ held'[w] = Started(held[w], held[w])
    BY <1>0, <1>4 DEF StartRunning, Goto, Hold
  <2> QED BY <2>1, IdleHeld DEF Started, FreshPcs
<1>5. CASE Report(w)
  <2>1. pc'[w] = "run" /\ held'[w] = Reported(held[w], held[w])
    BY <1>0, <1>5 DEF Report, Hold
  <2>2. held'[w].waiting = held[w].waiting
    BY <2>1 DEF Reported
  <2> QED BY <1>0, <2>1, <2>2, IdleHeld DEF FreshPcs, WorkerHeld
<1>6. CASE PublishRead(w) \/ CancelRead(w)
  <2>1. /\ UNCHANGED <<rows, job>> /\ held' = [held EXCEPT ![w] = rows[job[w]]]
        /\ pc'[w] \in {"revalidate", "cancelling"} /\ pc[w] \in BusyPcs
    BY <1>0, <1>6 DEF PublishRead, CancelRead, Goto, Hold, table, BusyPcs
  <2>2. job[w] \in Jobs /\ rows[job[w]].status # "absent"
    BY <2>1 DEF TypeOK, WorkerTypeOK, Free
  <2>3. rows[job[w]].waiting \in {"none", "capacity"}
    BY <2>2 DEF TableInv, RowOK
  <2>4. held'[w] = rows'[job'[w]] /\ held'[w] = rows[job[w]]
    BY <1>0, <2>1
  <2> QED BY <2>1, <2>2, <2>3, <2>4, ReadRecordHeld
<1>7. CASE ReportRefused(w) \/ HandlerEnds(w) \/ Crash(w)
  <2>1. held'[w] = NoRow /\ pc'[w] \in {"run", "publish", "down"}
    BY <1>0, <1>7 DEF ReportRefused, HandlerEnds, Crash, Hold
  <2> QED BY <1>0, <2>1, IdleHeld DEF FreshPcs
<1>8. CASE BackToPoll(w)
  <2>1. held'[w] = NoRow /\ pc'[w] = "recover"
    BY <1>0, <1>8 DEF BackToPoll
  <2> QED BY <1>0, <2>1, IdleHeld DEF FreshPcs
<1>9. CASE ClaimNone(w) \/ StartLost(w) \/ HandlerStops(w) \/ PublishMoot(w) \/ Complete(w)
           \/ CompleteLost(w) \/ Cancel(w) \/ CancelLost(w) \/ Restart(w)
  BY <1>8, <1>9
  DEF ClaimNone, StartLost, HandlerStops, PublishMoot, Complete, CompleteLost, Cancel,
      CancelLost, Restart
<1> QED BY <1>1, <1>2, <1>3, <1>4, <1>5, <1>6, <1>7, <1>9 DEF WorkerStep

LEMMA SameRequestHeld ==
  ASSUME TypeOK, TypeOK', [QueueNext]_vars, NEW c \in Clients, ClientHeld(c),
         cpc'[c] = cpc[c], cjob'[c] = cjob[c], cheld'[c] = cheld[c]
  PROVE  ClientHeld(c)'
<1> SUFFICES ASSUME cpc[c] = "cancelling" PROVE FreshOrStale(rows'[cjob[c]], cheld[c])
  BY DEF ClientHeld
<1>1. cjob[c] \in Jobs \ Free /\ cheld[c] \in RowSet
  BY DEF TypeOK, ClientTypeOK
<1> QED BY <1>1, RememberedStays DEF ClientHeld

LEMMA OwnRequestHeld ==
  ASSUME TypeOK, NEW c \in Clients, ClientStep(c)
  PROVE  ClientHeld(c)'
<1>0. /\ cpc \in [Clients -> ClientPcs] /\ cjob \in [Clients -> Jobs \cup {NoJob}]
      /\ cheld \in [Clients -> RowSet]
  BY DEF TypeOK, ClientTypeOK
<1>1. ASSUME NEW a, EndCall(c, a) PROVE ClientHeld(c)'
  BY <1>0, <1>1 DEF EndCall, ClientHeld
<1>2. CASE Insert(c) \/ Reuse(c) \/ ClientCancel(c) \/ ClientCancelRefused(c)
           \/ ClientCancelFails(c)
  BY <1>1, <1>2 DEF Insert, Reuse, ClientCancel, ClientCancelRefused, ClientCancelFails
<1>3. CASE BeginCancel(c) \/ BeginEnqueue(c) \/ ReadUserBudget(c)
  BY <1>0, <1>1, <1>3 DEF BeginCancel, BeginEnqueue, ReadUserBudget, ClientHeld
<1>4. CASE ClientCancelRead(c)
  BY <1>0, <1>4 DEF ClientCancelRead, ClientHeld, FreshOrStale, SameContent, table
<1> QED BY <1>2, <1>3, <1>4 DEF ClientStep

LEMMA HeldStep == IInv /\ [QueueNext]_vars /\ TypeOK' => HeldInv'
<1> SUFFICES ASSUME IInv, [QueueNext]_vars, TypeOK' PROVE HeldInv'
  OBVIOUS
<1> USE DEF IInv
<1>1. ASSUME NEW w \in Workers, WorkerStep(w) \/ Crash(w) PROVE HeldInv'
  <2>1. \A v \in Workers \ {w} : WorkerHeld(v)'
    BY <1>1, OthersStand, SameRecordHeld DEF HeldInv
  <2>2. WorkerHeld(w)'
    BY <1>1, OwnRecordHeld
  <2>3. UNCHANGED <<cpc, cjob, cheld>>
    BY <1>1, ClientsStand DEF client
  <2>4. \A c \in Clients : ClientHeld(c)'
    BY <2>3, SameRequestHeld DEF HeldInv
  <2> QED BY <2>1, <2>2, <2>4 DEF HeldInv
<1>2. ASSUME NEW c \in Clients, ClientStep(c) PROVE HeldInv'
  <2>1. UNCHANGED <<pc, job, held>>
    BY <1>2, WorkersStand DEF worker
  <2>2. \A w \in Workers : WorkerHeld(w)'
    BY <2>1, SameRecordHeld DEF HeldInv
  <2>3. \A d \in Clients \ {c} : ClientHeld(d)'
    BY <1>2, OtherClientsStand, SameRequestHeld DEF HeldInv
  <2>4. ClientHeld(c)'
    BY <1>2, OwnRequestHeld
  <2> QED BY <2>2, <2>3, <2>4 DEF HeldInv
<1>3. CASE UNCHANGED <<worker, client>>
  <2>1. UNCHANGED <<pc, job, held, cpc, cjob, cheld>>
    BY <1>3 DEF worker, client
  <2>2. \A w \in Workers : WorkerHeld(w)'
    BY <2>1, SameRecordHeld DEF HeldInv
  <2>3. \A c \in Clients : ClientHeld(c)'
    BY <2>1, SameRequestHeld DEF HeldInv
  <2> QED BY <2>2, <2>3 DEF HeldInv
<1> QED BY <1>1, <1>2, <1>3 DEF QueueNext, LeaseExpires, ToggleAuthorization, vars

LEMMA InitInv == QueueInit => IInv
<1> SUFFICES ASSUME QueueInit PROVE IInv
  OBVIOUS
<1>1. TypeOK
  BY TypeInit
<1>2. TableInv
  BY NoRowOK DEF QueueInit, TableInv
<1>3. LockInv
  BY DEF QueueInit, LockInv
<1>4. HeldInv
  BY DEF QueueInit, HeldInv, WorkerHeld, ClientHeld, FreshPcs, NoRow
<1> QED BY <1>1, <1>2, <1>3, <1>4 DEF IInv

(* The inductive invariant of the queue: the types, the table's row-wise   *)
(* consistency, the exclusive row locks of claim and the freshness of      *)
(* every record a process is about to compare and swap with.               *)
THEOREM InductiveInvariant == QueueSpec => []IInv
<1>1. IInv /\ [QueueNext]_vars => IInv'
  <2>1. TypeOK /\ [QueueNext]_vars => TypeOK'
    BY WorkerStepType, ClientStepType, EnvironmentType DEF QueueNext
  <2> QED BY <2>1, TableStep, LockStep, HeldStep DEF IInv
<1> QED BY <1>1, InitInv, PTL DEF QueueSpec

-----------------------------------------------------------------------------
(* What the inductive invariant gives.                                     *)

(* pg_outbox.py, append in the transaction of complete, cancel and         *)
(* recover_expired: exactly one terminal event per terminal job, naming    *)
(* its outcome, and none for any other job.                                *)
THEOREM OneTerminalEventAlways == QueueSpec => []OneTerminalEvent
<1>1. IInv => OneTerminalEvent
  BY DEF IInv, TableInv, RowOK, OneTerminalEvent
<1> QED BY <1>1, InductiveInvariant, PTL

(* claim and recover_expired: one attempt row per claim, never more than   *)
(* max_attempts, the last one running under the lease owner or closed with *)
(* the outcome of the job.                                                 *)
THEOREM AttemptAccountingAlways == QueueSpec => []AttemptAccounting
<1>1. ASSUME IInv PROVE AttemptAccounting
  <2> SUFFICES ASSUME NEW j \in Jobs
               PROVE  LET r == rows[j]
                          last == log[j][Len(log[j])]
                      IN /\ Len(log[j]) = r.attempts
                         /\ r.attempts <= MaxAttempts
                         /\ r.status = "queued" => r.attempts < MaxAttempts
                         /\ IsActive(r) => /\ r.attempts > 0
                                           /\ last = [worker |-> r.owner, outcome |-> "running"]
                         /\ IsTerminal(r) /\ r.attempts > 0 => last.outcome = r.status
    BY DEF AttemptAccounting
  <2>1. RowOK(rows[j], outbox[j], log[j])
    BY <1>1 DEF IInv, TableInv
  <2>2. Len(log[j]) = rows[j].attempts
    BY <2>1 DEF RowOK
  <2> QED BY <2>1, <2>2 DEF RowOK
<1> QED BY <1>1, InductiveInvariant, PTL

(* ck_jobs_lease_consistency in both directions: what is leased or running *)
(* has an owner and a lease that the reaper can find, nothing else has.    *)
THEOREM LeaseIffActiveAlways == QueueSpec => []LeaseIffActive
<1>1. IInv => LeaseIffActive
  BY DEF IInv, TableInv, RowOK, LeaseIffActive
<1> QED BY <1>1, InductiveInvariant, PTL

(* transition, complete and cancel compare revisions: a record read before *)
(* one of them is the row's content or has an older revision.              *)
THEOREM RevisionIsVersionAlways == QueueSpec => []RevisionIsVersion
<1>1. IInv => RevisionIsVersion
  BY DEF IInv, HeldInv, WorkerHeld, ClientHeld, FreshPcs, RevisionIsVersion
<1> QED BY <1>1, InductiveInvariant, PTL

(* No write of worker, reaper or API touches a job that is terminal: its   *)
(* row, its event and its attempts are final.                              *)
THEOREM TerminalIsFinalAlways == QueueSpec => TerminalIsFinal
<1>1. ASSUME IInv, [QueueNext]_vars, NEW j \in Jobs, IsTerminal(rows[j])
      PROVE  rows'[j] = rows[j] /\ outbox'[j] = outbox[j] /\ log'[j] = log[j]
  <2> USE DEF IInv
  <2> DEFINE Final == rows'[j] = rows[j] /\ outbox'[j] = outbox[j] /\ log'[j] = log[j]
  <2>0. /\ rows \in [Jobs -> RowSet] /\ outbox \in [Jobs -> Seq(TerminalStates)]
        /\ log \in [Jobs -> Seq(Attempts)] /\ ~IsActive(rows[j])
        /\ rows[j].status # "absent" /\ rows[j].status # "queued" /\ rows[j].lease = "none"
    BY <1>1
    DEF TypeOK, TableTypeOK, TableInv, RowOK, IsActive, IsTerminal, ActiveStates, TerminalStates
  <2>1. ASSUME NEW w \in Workers, Recover(w) PROVE Final
    BY <1>1, <2>0, <2>1 DEF Recover, IsExpired
  <2>2. ASSUME NEW w \in Workers, ClaimJob(w) PROVE Final
    <3>1. j \notin locked[w]
      BY <1>1, <2>0 DEF LockInv
    <3> QED BY <1>1, <2>0, <2>2, <3>1 DEF ClaimJob
  <2>3. ASSUME NEW w \in Workers, StartRunning(w) PROVE Final
    <3>1. job[w] # j
      BY <1>1, <2>0, <2>3, StartFinds DEF IsActive, ActiveStates
    <3> QED BY <1>1, <2>0, <2>3, <3>1 DEF StartRunning
  <2>4. ASSUME NEW w \in Workers, Report(w) PROVE Final
    BY <1>1, <2>0, <2>4 DEF Report, StillOwner
  <2>5. ASSUME NEW w \in Workers, Complete(w) PROVE Final
    <3>1. job[w] # j
      BY <1>1, <2>0, <2>5, CompleteFinds
    <3> QED BY <1>1, <2>0, <2>5, <3>1 DEF Complete, Settle
  <2>6. ASSUME NEW w \in Workers, Cancel(w) PROVE Final
    <3>1. job[w] # j
      BY <1>1, <2>6 DEF Cancel, CancelCasHolds
    <3> QED BY <1>1, <2>0, <2>6, <3>1 DEF Cancel, Settle
  <2>7. ASSUME NEW c \in Clients, ClientCancel(c) PROVE Final
    <3>1. cjob[c] # j
      BY <1>1, <2>7 DEF ClientCancel, CancelCasHolds
    <3> QED BY <1>1, <2>0, <2>7, <3>1 DEF ClientCancel, Settle
  <2>8. ASSUME NEW c \in Clients, Insert(c) PROVE Final
    BY <1>1, <2>0, <2>8 DEF Insert, Free
  <2>9. ASSUME NEW k \in Jobs, LeaseExpires(k) PROVE Final
    BY <1>1, <2>0, <2>9 DEF LeaseExpires
  <2>10. CASE ~TableWrites
    BY <1>1, <2>10, OtherStepsKeepTable DEF table
  <2> QED BY <2>1, <2>2, <2>3, <2>4, <2>5, <2>6, <2>7, <2>8, <2>9, <2>10 DEF TableWrites
<1>2. IInv /\ [QueueNext]_vars =>
        [\A j \in Jobs : IsTerminal(rows[j]) =>
           rows'[j] = rows[j] /\ outbox'[j] = outbox[j] /\ log'[j] = log[j]]_vars
  BY <1>1
<1> QED BY <1>2, InductiveInvariant, PTL DEF QueueSpec, TerminalIsFinal

-----------------------------------------------------------------------------
(* What follows from the inductive invariant: the queue implements         *)
(* JobLifecycle for every job, a scoped idempotency key is bound to one    *)
(* job, concurrent claims exceed the class budget by less than the number  *)
(* of workers, and workers with identities of their own lose no report.    *)

(* A step of JobLifecycle, or none, written over the row and the events of *)
(* one job before (r, e) and after (s, f).                                 *)
Promise(r, e, s, f) ==
  \/ PhaseOf(s) = PhaseOf(r) /\ s.attempts = r.attempts /\ f = e
  \/ /\ PhaseOf(r) = "none" /\ PhaseOf(s) = "waiting"
     /\ s.attempts = r.attempts /\ f = e
  \/ /\ PhaseOf(r) = "waiting" /\ PhaseOf(s) = "working"
     /\ r.attempts < MaxAttempts /\ s.attempts = r.attempts + 1 /\ f = e
  \/ /\ PhaseOf(r) = "working" /\ PhaseOf(s) = "waiting"
     /\ r.attempts < MaxAttempts /\ s.attempts = r.attempts /\ f = e
  \/ /\ PhaseOf(r) = "working" /\ PhaseOf(s) = "settled" /\ s.attempts = r.attempts
     /\ \E v \in TerminalStates : f = <<v>>
  \/ /\ PhaseOf(r) = "waiting" /\ PhaseOf(s) = "settled" /\ s.attempts = r.attempts
     /\ f = <<"cancelled">>

LEMMA PromiseIsLife ==
  ASSUME NEW j \in Jobs, Promise(rows[j], outbox[j], rows'[j], outbox'[j])
  PROVE  [Life(j)!Next]_(Life(j)!life)
BY DEF Promise, TerminalStates, Life!Next, Life!life, Life!Submit, Life!Begin, Life!GiveBack,
       Life!Conclude, Life!Withdraw, Life!Verdicts

LEMMA PhaseFacts ==
  ASSUME NEW r
  PROVE  /\ r.status = "absent" => PhaseOf(r) = "none"
         /\ r.status = "queued" => PhaseOf(r) = "waiting"
         /\ IsActive(r) => PhaseOf(r) = "working"
         /\ IsTerminal(r) => PhaseOf(r) = "settled"
BY DEF PhaseOf, IsActive, IsTerminal, ActiveStates, TerminalStates

LEMMA RowStatuses ==
  ASSUME NEW r \in RowSet
  PROVE  r.status = "absent" \/ r.status = "queued" \/ IsActive(r) \/ IsTerminal(r)
BY DEF RowSet, Statuses, IsActive, IsTerminal

-----------------------------------------------------------------------------
(* Each write of a row is one step of the promise, or none.                *)
LEMMA SettledPromise ==
  ASSUME NEW r \in RowSet, NEW h, NEW v \in TerminalStates, NEW events, NEW entries,
         RowOK(r, events, entries), ~IsTerminal(r), r.status # "absent",
         IsActive(r) \/ v = "cancelled"
  PROVE  Promise(r, events, Settled(r, h, v), Append(events, v))
<1>1. events = <<>> /\ Append(events, v) = <<v>>
  BY DEF RowOK
<1>2. Settled(r, h, v).status = v /\ Settled(r, h, v).attempts = r.attempts
  BY DEF Settled
<1>3. PhaseOf(Settled(r, h, v)) = "settled"
  BY <1>2, PhaseFacts DEF IsTerminal
<1>4. CASE IsActive(r)
  BY <1>1, <1>2, <1>3, <1>4, PhaseFacts DEF Promise
<1>5. CASE ~IsActive(r)
  BY <1>1, <1>2, <1>3, <1>5, PhaseFacts, RowStatuses DEF Promise
<1> QED BY <1>4, <1>5

LEMMA RequeuedPromise ==
  ASSUME NEW r \in RowSet, NEW events, IsActive(r), ~Exhausted(r)
  PROVE  Promise(r, events, Requeued(r), events)
<1>1. r.attempts < MaxAttempts
  BY BudgetAssumption DEF Exhausted, RowSet
<1>2. Requeued(r).status = "queued" /\ Requeued(r).attempts = r.attempts
  BY DEF Requeued
<1> QED BY <1>1, <1>2, PhaseFacts DEF Promise

LEMMA LeasedPromise ==
  ASSUME NEW r \in RowSet, NEW events, NEW entries, NEW w,
         RowOK(r, events, entries), r.status = "queued"
  PROVE  Promise(r, events, Leased(r, w), events)
<1>1. /\ Leased(r, w).status = "leased" /\ Leased(r, w).attempts = r.attempts + 1
      /\ r.attempts < MaxAttempts
  BY DEF Leased, RowOK
<1>2. IsActive(Leased(r, w))
  BY <1>1 DEF IsActive, ActiveStates
<1> QED BY <1>1, <1>2, PhaseFacts DEF Promise

LEMMA SameStatusPromise ==
  ASSUME NEW r, NEW s, NEW events, s.attempts = r.attempts, s.status = r.status
  PROVE  Promise(r, events, s, events)
BY DEF Promise, PhaseOf, IsActive, IsTerminal

LEMMA StillActivePromise ==
  ASSUME NEW r, NEW s, NEW events, s.attempts = r.attempts, IsActive(r), IsActive(s)
  PROVE  Promise(r, events, s, events)
BY PhaseFacts DEF Promise

LEMMA NewRowPromise ==
  ASSUME NEW r, NEW p \in BOOLEAN, NEW events, r.status = "absent", r.attempts = 0
  PROVE  Promise(r, events, NewRow(p), events)
<1>1. NewRow(p).status = "queued" /\ NewRow(p).attempts = 0
  BY NewRowType DEF NewRow, PhysicalStatus, PendingStates
<1> QED BY <1>1, PhaseFacts DEF Promise

(* A transaction that writes one row leaves the other jobs alone.          *)
LEMMA OneRowWritten ==
  ASSUME TypeOK, NEW k \in Jobs, NEW s, rows' = [rows EXCEPT ![k] = s], UNCHANGED outbox,
         Promise(rows[k], outbox[k], s, outbox[k]), NEW j \in Jobs
  PROVE  Promise(rows[j], outbox[j], rows'[j], outbox'[j])
<1>1. CASE j = k
  BY <1>1 DEF TypeOK, TableTypeOK
<1>2. CASE j # k
  BY <1>2 DEF TypeOK, TableTypeOK, Promise
<1> QED BY <1>1, <1>2

LEMMA OneJobSettled ==
  ASSUME TypeOK, TableInv, NEW k \in Jobs, NEW h, NEW v \in TerminalStates, Settle(k, h, v),
         ~IsTerminal(rows[k]), rows[k].status # "absent", IsActive(rows[k]) \/ v = "cancelled",
         NEW j \in Jobs
  PROVE  Promise(rows[j], outbox[j], rows'[j], outbox'[j])
<1>1. rows[k] \in RowSet /\ RowOK(rows[k], outbox[k], log[k])
  BY DEF TypeOK, TableTypeOK, TableInv
<1>2. Promise(rows[k], outbox[k], Settled(rows[k], h, v), Append(outbox[k], v))
  BY <1>1, SettledPromise
<1>3. CASE j = k
  BY <1>2, <1>3 DEF TypeOK, TableTypeOK, Settle
<1>4. CASE j # k
  BY <1>4 DEF TypeOK, TableTypeOK, Settle, Promise
<1> QED BY <1>3, <1>4

-----------------------------------------------------------------------------
(* Every step of the queue is a step of the promise for each job, or none. *)
LEMMA StepKeepsPromise ==
  ASSUME IInv, [QueueNext]_vars, NEW j \in Jobs
  PROVE  Promise(rows[j], outbox[j], rows'[j], outbox'[j])
<1> USE DEF IInv
<1>t. \A k \in Jobs : rows[k] \in RowSet /\ RowOK(rows[k], outbox[k], log[k])
  BY DEF TypeOK, TableTypeOK, TableInv
<1>v. "failed" \in TerminalStates /\ "cancelled" \in TerminalStates
  BY DEF TerminalStates
<1>1. ASSUME NEW w \in Workers, Recover(w)
      PROVE  Promise(rows[j], outbox[j], rows'[j], outbox'[j])
  <2>1. CASE IsExpired(rows[j]) /\ Exhausted(rows[j])
    <3>1. ~IsTerminal(rows[j]) /\ IsActive(rows[j]) /\ rows[j].status # "absent"
      BY <2>1 DEF IsExpired, IsActive, IsTerminal, ActiveStates, TerminalStates
    <3>2. rows'[j] = Settled(rows[j], rows[j], "failed") /\ outbox'[j] = Append(outbox[j], "failed")
      BY <1>1, <2>1 DEF Recover
    <3> QED BY <1>t, <1>v, <3>1, <3>2, SettledPromise
  <2>2. CASE IsExpired(rows[j]) /\ ~Exhausted(rows[j])
    <3>1. rows'[j] = Requeued(rows[j]) /\ outbox'[j] = outbox[j]
      BY <1>1, <2>2 DEF Recover
    <3> QED BY <1>t, <2>2, <3>1, RequeuedPromise DEF IsExpired
  <2>3. CASE ~IsExpired(rows[j])
    BY <1>1, <2>3 DEF Recover, Promise
  <2> QED BY <2>1, <2>2, <2>3
<1>2. ASSUME NEW w \in Workers, ClaimJob(w)
      PROVE  Promise(rows[j], outbox[j], rows'[j], outbox'[j])
  <2>1. PICK k \in locked[w] : rows' = [rows EXCEPT ![k] = Leased(@, w)]
    BY <1>2 DEF ClaimJob
  <2>2. k \in Jobs /\ rows[k].status = "queued"
    BY DEF TypeOK, WorkerTypeOK, LockInv
  <2>3. Promise(rows[k], outbox[k], Leased(rows[k], w), outbox[k])
    BY <1>t, <2>2, LeasedPromise
  <2> QED BY <1>2, <2>1, <2>2, <2>3, OneRowWritten DEF ClaimJob
<1>3. ASSUME NEW w \in Workers, StartRunning(w)
      PROVE  Promise(rows[j], outbox[j], rows'[j], outbox'[j])
  <2>1. job[w] \in Jobs /\ rows[job[w]].status = "leased"
    BY <1>3, StartFinds
  <2> DEFINE s == Started(rows[job[w]], held[w])
  <2>2. s.attempts = rows[job[w]].attempts /\ s.status = "running"
    BY DEF Started
  <2>3. IsActive(rows[job[w]]) /\ IsActive(s)
    BY <2>1, <2>2 DEF IsActive, ActiveStates
  <2>4. rows' = [rows EXCEPT ![job[w]] = s] /\ UNCHANGED outbox
    BY <1>3, <2>1 DEF StartRunning, TypeOK, TableTypeOK
  <2> HIDE DEF s
  <2>5. Promise(rows[job[w]], outbox[job[w]], s, outbox[job[w]])
    BY <2>2, <2>3, StillActivePromise
  <2> QED BY <2>1, <2>4, <2>5, OneRowWritten
<1>4. ASSUME NEW w \in Workers, Report(w)
      PROVE  Promise(rows[j], outbox[j], rows'[j], outbox'[j])
  <2>1. job[w] \in Jobs
    BY <1>4 DEF TypeOK, WorkerTypeOK, Report, BusyPcs
  <2> DEFINE s == Reported(rows[job[w]], held[w])
  <2>2. s.attempts = rows[job[w]].attempts /\ s.status = rows[job[w]].status
    BY DEF Reported
  <2>3. rows' = [rows EXCEPT ![job[w]] = s] /\ UNCHANGED outbox
    BY <1>4, <2>1 DEF Report, TypeOK, TableTypeOK
  <2> HIDE DEF s
  <2>4. Promise(rows[job[w]], outbox[job[w]], s, outbox[job[w]])
    BY <2>2, SameStatusPromise
  <2> QED BY <2>1, <2>3, <2>4, OneRowWritten
<1>5. ASSUME NEW w \in Workers, Complete(w)
      PROVE  Promise(rows[j], outbox[j], rows'[j], outbox'[j])
  <2>1. job[w] \in Jobs /\ IsActive(rows[job[w]]) /\ verdict[w] \in TerminalStates
    BY <1>5, CompleteFinds
  <2>2. ~IsTerminal(rows[job[w]]) /\ rows[job[w]].status # "absent"
    BY <2>1 DEF IsActive, IsTerminal, ActiveStates, TerminalStates
  <2> QED BY <1>5, <2>1, <2>2, OneJobSettled DEF Complete
<1>6. ASSUME NEW w \in Workers, Cancel(w)
      PROVE  Promise(rows[j], outbox[j], rows'[j], outbox'[j])
  <2>1. job[w] \in Jobs /\ rows[job[w]].status # "absent"
    BY <1>6 DEF TypeOK, WorkerTypeOK, Cancel, BusyPcs, Free
  <2> QED BY <1>6, <1>v, <2>1, OneJobSettled DEF Cancel, CancelCasHolds
<1>7. ASSUME NEW c \in Clients, Insert(c)
      PROVE  Promise(rows[j], outbox[j], rows'[j], outbox'[j])
  <2>1. PICK k \in Free : rows' = [rows EXCEPT ![k] = NewRow(parked[c])]
    BY <1>7 DEF Insert
  <2>2. k \in Jobs /\ rows[k].status = "absent" /\ rows[k].attempts = 0 /\ parked[c] \in BOOLEAN
    BY <1>t, <2>1 DEF Free, RowOK, TypeOK, ClientTypeOK
  <2>3. Promise(rows[k], outbox[k], NewRow(parked[c]), outbox[k])
    BY <2>2, NewRowPromise
  <2> QED BY <1>7, <2>1, <2>2, <2>3, OneRowWritten DEF Insert
<1>8. ASSUME NEW c \in Clients, ClientCancel(c)
      PROVE  Promise(rows[j], outbox[j], rows'[j], outbox'[j])
  <2>1. cjob[c] \in Jobs /\ rows[cjob[c]].status # "absent"
    BY <1>8 DEF TypeOK, ClientTypeOK, ClientCancel, Free
  <2> QED BY <1>8, <1>v, <2>1, OneJobSettled DEF ClientCancel, CancelCasHolds
<1>9. ASSUME NEW k \in Jobs, LeaseExpires(k)
      PROVE  Promise(rows[j], outbox[j], rows'[j], outbox'[j])
  <2> DEFINE s == [rows[k] EXCEPT !.lease = "expired"]
  <2>1. s.attempts = rows[k].attempts /\ s.status = rows[k].status
    BY <1>t DEF RowSet
  <2>2. rows' = [rows EXCEPT ![k] = s] /\ UNCHANGED outbox
    BY <1>9 DEF LeaseExpires, TypeOK, TableTypeOK
  <2> HIDE DEF s
  <2>3. Promise(rows[k], outbox[k], s, outbox[k])
    BY <2>1, SameStatusPromise
  <2> QED BY <2>2, <2>3, OneRowWritten
<1>10. CASE ~TableWrites
  BY <1>10, OtherStepsKeepTable DEF table, Promise
<1> QED BY <1>1, <1>2, <1>3, <1>4, <1>5, <1>6, <1>7, <1>8, <1>9, <1>10 DEF TableWrites

LEMMA LifeBegins == QueueInit => \A j \in Jobs : Life(j)!Init
BY PhaseFacts DEF QueueInit, NoRow, Life!Init

(* Whatever crashes, expires, is retried or published by a stale worker,   *)
(* every job lives as JobLifecycle promises.                               *)
THEOREM LifecycleImplemented == QueueSpec => ImplementsLifecycle
<1>1. IInv /\ [QueueNext]_vars => [\A j \in Jobs : [Life(j)!Next]_(Life(j)!life)]_vars
  BY StepKeepsPromise, PromiseIsLife
<1> QED BY <1>1, LifeBegins, InductiveInvariant, PTL DEF QueueSpec, ImplementsLifecycle

-----------------------------------------------------------------------------
(* No transaction but an enqueue's puts a job into the table, and a job    *)
(* that is there keeps the request it came from.                           *)
LEMMA OnlyInsertAdds ==
  ASSUME IInv, [QueueNext]_vars, ~\E c \in Clients : Insert(c), NEW j \in Jobs
  PROVE  request' = request /\ (rows[j].status = "absent" => rows'[j].status = "absent")
<1> USE DEF IInv
<1>0. \A k \in Jobs : RowOK(rows[k], outbox[k], log[k])
  BY DEF TableInv
<1>1. ASSUME NEW w \in Workers, Recover(w) \/ ClaimJob(w) \/ StartRunning(w) \/ Report(w)
      PROVE  request' = request /\ (rows[j].status = "absent" => rows'[j].status = "absent")
  <2>1. CASE Recover(w)
    BY <2>1 DEF Recover, IsExpired, IsActive, ActiveStates
  <2>2. CASE ClaimJob(w)
    <3>1. PICK k \in locked[w] : rows' = [rows EXCEPT ![k] = Leased(@, w)]
      BY <2>2 DEF ClaimJob
    <3>2. rows[k].status = "queued"
      BY DEF LockInv
    <3> QED BY <2>2, <3>1, <3>2 DEF ClaimJob, TypeOK, TableTypeOK
  <2>3. CASE StartRunning(w)
    <3>1. rows[job[w]].status = "leased"
      BY <2>3, StartFinds
    <3> QED BY <2>3, <3>1 DEF StartRunning, TypeOK, TableTypeOK
  <2>4. CASE Report(w)
    BY <2>4 DEF Report, StillOwner, IsActive, ActiveStates, TypeOK, TableTypeOK
  <2> QED BY <1>1, <2>1, <2>2, <2>3, <2>4
<1>2. ASSUME NEW w \in Workers, Complete(w) \/ Cancel(w)
      PROVE  request' = request /\ (rows[j].status = "absent" => rows'[j].status = "absent")
  <2>1. job[w] \in Jobs \ Free
    BY <1>2 DEF TypeOK, WorkerTypeOK, Complete, Cancel, BusyPcs
  <2> QED BY <1>2, <2>1 DEF Complete, Cancel, Settle, Free, TypeOK, TableTypeOK
<1>3. ASSUME NEW c \in Clients, ClientCancel(c)
      PROVE  request' = request /\ (rows[j].status = "absent" => rows'[j].status = "absent")
  <2>1. cjob[c] \in Jobs \ Free
    BY <1>3 DEF TypeOK, ClientTypeOK, ClientCancel
  <2> QED BY <1>3, <2>1 DEF ClientCancel, Settle, Free, TypeOK, TableTypeOK
<1>4. ASSUME NEW k \in Jobs, LeaseExpires(k)
      PROVE  request' = request /\ (rows[j].status = "absent" => rows'[j].status = "absent")
  <2>1. rows[k].status # "absent"
    BY <1>0, <1>4 DEF LeaseExpires, RowOK, IsActive, ActiveStates
  <2> QED BY <1>4, <2>1 DEF LeaseExpires, TypeOK, TableTypeOK
<1>5. CASE ~TableWrites
  BY <1>5, OtherStepsKeepTable DEF table
<1> QED BY <1>1, <1>2, <1>3, <1>4, <1>5 DEF TableWrites

LEMMA KeysStepInv == IInv /\ [QueueNext]_vars /\ OneJobPerKey => OneJobPerKey'
<1> SUFFICES ASSUME IInv, [QueueNext]_vars, OneJobPerKey PROVE OneJobPerKey'
  OBVIOUS
<1>1. CASE ~\E c \in Clients : Insert(c)
  BY <1>1, OnlyInsertAdds DEF OneJobPerKey
<1>2. ASSUME NEW c \in Clients, Insert(c) PROVE OneJobPerKey'
  <2>1. PICK n \in Free : /\ rows' = [rows EXCEPT ![n] = NewRow(parked[c])]
                          /\ request' = [request EXCEPT ![n] = creq[c]]
    BY <1>2 DEF Insert
  <2>2. \A j \in Jobs \ {n} : rows'[j] = rows[j] /\ request'[j] = request[j]
    BY <2>1 DEF IInv, TypeOK, TableTypeOK
  <2>3. n \in Jobs /\ request'[n] = creq[c]
    BY <2>1 DEF Free, IInv, TypeOK, TableTypeOK
  <2>4. \A j \in Jobs : rows[j].status # "absent" /\ creq[c].key # NoKey
                          => ~(request[j].key = creq[c].key /\ request[j].user = creq[c].user)
    BY <1>2 DEF Insert, BoundTo
  <2> SUFFICES ASSUME NEW j \in Jobs, NEW k \in Jobs, j # k,
                      rows'[j].status # "absent", rows'[k].status # "absent",
                      request'[j].user = request'[k].user
               PROVE  request'[j].key # request'[k].key \/ request'[j].key = NoKey
    BY DEF OneJobPerKey
  <2>5. CASE j = n
    BY <2>2, <2>3, <2>4, <2>5
  <2>6. CASE k = n
    BY <2>2, <2>3, <2>4, <2>6
  <2>7. CASE j # n /\ k # n
    BY <2>2, <2>7 DEF OneJobPerKey
  <2> QED BY <2>5, <2>6, <2>7
<1> QED BY <1>1, <1>2

(* enqueue's two statements bind a scoped key to one job, whatever the     *)
(* requests and the number of clients.                                     *)
THEOREM OneJobPerKeyAlways == QueueSpec => []OneJobPerKey
<1>1. QueueInit => OneJobPerKey
  BY DEF QueueInit, OneJobPerKey, NoRow
<1> QED BY <1>1, KeysStepInv, InductiveInvariant, PTL DEF QueueSpec

-----------------------------------------------------------------------------
(* The budget of the class.  No transaction but a claim's makes a job      *)
(* active, and it makes one active.                                        *)
LEMMA OnlyClaimActivates ==
  ASSUME IInv, [QueueNext]_vars, ~\E w \in Workers : ClaimJob(w)
  PROVE  InFlight' \subseteq InFlight
<1> USE DEF IInv
<1>0. rows \in [Jobs -> RowSet] /\ \A k \in Jobs : RowOK(rows[k], outbox[k], log[k])
  BY DEF TypeOK, TableTypeOK, TableInv
<1> SUFFICES ASSUME NEW j \in Jobs, IsActive(rows'[j]) PROVE IsActive(rows[j])
  BY DEF InFlight, ActiveIn
<1>1. ASSUME NEW w \in Workers, Recover(w) PROVE IsActive(rows[j])
  BY <1>0, <1>1 DEF Recover, IsExpired
<1>2. ASSUME NEW w \in Workers, StartRunning(w) PROVE IsActive(rows[j])
  <2>1. job[w] \in Jobs /\ IsActive(rows[job[w]])
    BY <1>2, StartFinds DEF IsActive, ActiveStates
  <2> QED BY <1>0, <1>2, <2>1 DEF StartRunning
<1>3. ASSUME NEW w \in Workers, Report(w) PROVE IsActive(rows[j])
  <2>1. IsActive(rows[job[w]])
    BY <1>3 DEF Report, StillOwner
  <2> QED BY <1>0, <1>3, <2>1 DEF Report
<1>4. ASSUME NEW w \in Workers, Complete(w) PROVE IsActive(rows[j])
  <2>1. IsActive(rows[job[w]])
    BY <1>4, CompleteFinds
  <2> QED BY <1>0, <1>4, <2>1 DEF Complete, Settle
<1>5. ASSUME NEW k, NEW h, Settle(k, h, "cancelled") PROVE IsActive(rows[j])
  <2>1. ~IsActive(Settled(rows[k], h, "cancelled"))
    BY DEF Settled, IsActive, ActiveStates
  <2> QED BY <1>0, <1>5, <2>1 DEF Settle
<1>6. ASSUME NEW c \in Clients, Insert(c) PROVE IsActive(rows[j])
  <2>1. PICK k \in Free : rows' = [rows EXCEPT ![k] = NewRow(parked[c])]
    BY <1>6 DEF Insert
  <2>2. ~IsActive(NewRow(parked[c]))
    BY <1>6, NewRowType DEF TypeOK, ClientTypeOK, IsActive, ActiveStates
  <2> QED BY <1>0, <2>1, <2>2
<1>7. ASSUME NEW k \in Jobs, LeaseExpires(k) PROVE IsActive(rows[j])
  <2>1. rows'[j].status = rows[j].status
    BY <1>0, <1>7 DEF LeaseExpires, RowSet
  <2> QED BY <2>1 DEF IsActive
<1>8. CASE ~TableWrites
  BY <1>8, OtherStepsKeepTable DEF table
<1> QED BY <1>1, <1>2, <1>3, <1>4, <1>5, <1>6, <1>7, <1>8
        DEF TableWrites, Cancel, ClientCancel

(* Only its own snapshot lets a claim pass the budget check, and a claim   *)
(* that wrote its row has passed and is over.                              *)
LEMMA ViewsStand ==
  ASSUME TypeOK, NEW w \in Workers, WorkerStep(w) \/ Crash(w), NEW v \in Workers \ {w}
  PROVE  view'[v] = view[v]
<1>0. v # w /\ view \in [Workers -> [queued : SUBSET Jobs, active : SUBSET Jobs]]
  BY DEF TypeOK, WorkerTypeOK
<1>1. CASE BackToPoll(w) \/ Crash(w) \/ Snapshot(w) \/ ClaimJob(w)
  BY <1>0, <1>1 DEF BackToPoll, Crash, Snapshot, ClaimJob
<1>2. CASE view' = view
  BY <1>2
<1> QED
  BY <1>1, <1>2
  DEF WorkerStep, Recover, LockBatch, ClaimNone, Dispatch, StartRunning, StartLost, Report,
      ReportRefused, HandlerStops, HandlerEnds, PublishRead, PublishMoot, Revalidate, Complete,
      CompleteLost, CancelRead, Cancel, CancelLost, Abort, Restart, Goto

LEMMA OwnClaim ==
  ASSUME TypeOK, NEW w \in Workers, WorkerStep(w) \/ Crash(w), ~Snapshot(w),
         pc'[w] \in {"locking", "claiming"}
  PROVE  LockBatch(w)
<1>0. pc \in [Workers -> WorkerPcs]
  BY DEF TypeOK, WorkerTypeOK
<1>1. ~BackToPoll(w)
  BY <1>0 DEF BackToPoll
<1>2. ASSUME NEW at, at \notin {"locking", "claiming"} PROVE ~Goto(w, at)
  BY <1>0, <1>2 DEF Goto
<1>3. ~Crash(w) /\ ~ClaimJob(w) /\ ~HandlerEnds(w)
  BY <1>0 DEF Crash, ClaimJob, HandlerEnds
<1>4. ~Report(w) /\ ~ReportRefused(w)
  BY <1>0 DEF Report, ReportRefused
<1>5. ~(Recover(w) \/ Dispatch(w) \/ StartRunning(w) \/ PublishRead(w) \/ Revalidate(w)
        \/ CancelRead(w) \/ Abort(w))
  BY <1>2 DEF Recover, Dispatch, StartRunning, PublishRead, Revalidate, CancelRead, Abort
<1>6. ~(ClaimNone(w) \/ StartLost(w) \/ HandlerStops(w) \/ PublishMoot(w) \/ Complete(w)
        \/ CompleteLost(w) \/ Cancel(w) \/ CancelLost(w) \/ Restart(w))
  BY <1>1
  DEF ClaimNone, StartLost, HandlerStops, PublishMoot, Complete, CompleteLost, Cancel,
      CancelLost, Restart
<1> QED BY <1>3, <1>4, <1>5, <1>6 DEF WorkerStep

LEMMA PassingShrinks ==
  ASSUME TypeOK, [QueueNext]_vars, ~\E w \in Workers : Snapshot(w)
  PROVE  PassingClaims' \subseteq PassingClaims
<1> SUFFICES ASSUME NEW v \in Workers, pc'[v] \in {"locking", "claiming"}
             PROVE  pc[v] \in {"locking", "claiming"} /\ view'[v] = view[v]
  BY DEF PassingClaims
<1>1. ASSUME NEW w \in Workers, WorkerStep(w) \/ Crash(w)
      PROVE  pc[v] \in {"locking", "claiming"} /\ view'[v] = view[v]
  <2>1. CASE v # w
    BY <1>1, <2>1, ViewsStand, OthersStand
  <2>2. CASE v = w
    <3>1. LockBatch(w)
      BY <1>1, <2>2, OwnClaim
    <3> QED BY <2>2, <3>1 DEF LockBatch
  <2> QED BY <2>1, <2>2
<1>2. CASE UNCHANGED worker
  BY <1>2 DEF worker
<1> QED BY <1>1, <1>2, WorkersStand DEF QueueNext, vars, LeaseExpires, ToggleAuthorization

LEMMA CountsAreFinite ==
  ASSUME TypeOK
  PROVE  /\ IsFiniteSet(Jobs) /\ IsFiniteSet(InFlight) /\ IsFiniteSet(PassingClaims)
         /\ Cardinality(InFlight) \in Nat /\ Cardinality(PassingClaims) \in Nat
         /\ Cardinality(Workers) \in Nat \ {0}
<1>1. IsFiniteSet(Jobs)
  BY FS_Interval, BoundsAssumption DEF Jobs
<1>2. IsFiniteSet(InFlight) /\ IsFiniteSet(PassingClaims)
  BY <1>1, FS_Subset, WorkersAssumption DEF InFlight, ActiveIn, PassingClaims
<1>3. Cardinality(Workers) \in Nat /\ Cardinality(Workers) # 0
  BY FS_CardinalityType, FS_EmptySet, WorkersAssumption
<1> QED BY <1>1, <1>2, <1>3, FS_CardinalityType

(* A claim that writes leaves the passing claims as its job comes in.      *)
LEMMA ClaimTradesPlaces ==
  ASSUME IInv, TypeOK', [QueueNext]_vars, NEW w \in Workers, ClaimJob(w), BoundedOvershoot
  PROVE  BoundedOvershoot'
<1>0. TypeOK /\ rows \in [Jobs -> RowSet] /\ pc \in [Workers -> WorkerPcs]
  BY DEF IInv, TypeOK, TableTypeOK, WorkerTypeOK
<1>1. PICK k \in locked[w] : /\ Affordable(w, k)
                             /\ rows' = [rows EXCEPT ![k] = Leased(@, w)]
  BY DEF ClaimJob
<1>2. InFlight' \subseteq InFlight \cup {k}
  BY <1>0, <1>1 DEF InFlight, ActiveIn
<1>3. w \in PassingClaims
  BY <1>1 DEF PassingClaims, ClaimJob, Affordable, ClassHasRoom
<1>4. ~\E v \in Workers : Snapshot(v)
  <2>1. rows' # rows
    <3>1. k \in Jobs /\ rows[k].status = "queued"
      BY DEF IInv, TypeOK, WorkerTypeOK, LockInv
    <3>2. rows'[k].status = "leased"
      BY <1>0, <1>1, <3>1 DEF Leased
    <3> QED BY <3>1, <3>2
  <2> QED BY <2>1 DEF Snapshot, table
<1>5. PassingClaims' \subseteq PassingClaims \ {w}
  <2>1. w \notin PassingClaims'
    BY <1>0 DEF PassingClaims, ClaimJob
  <2> QED BY <1>0, <1>4, <2>1, PassingShrinks
<1>6. Cardinality(InFlight') <= Cardinality(InFlight) + 1
  <2>1. /\ IsFiniteSet(InFlight \cup {k})
        /\ Cardinality(InFlight \cup {k}) <= Cardinality(InFlight) + 1
    <3>1. IsFiniteSet(InFlight) /\ Cardinality(InFlight) \in Nat
      BY <1>0, CountsAreFinite
    <3>2. /\ IsFiniteSet(InFlight \cup {k})
          /\ Cardinality(InFlight \cup {k})
               = IF k \in InFlight THEN Cardinality(InFlight) ELSE Cardinality(InFlight) + 1
      BY <3>1, FS_AddElement
    <3> QED BY <3>1, <3>2
  <2> QED BY <1>0, <1>2, <2>1, CountsAreFinite, FS_Subset, FS_CardinalityType
<1>7. Cardinality(PassingClaims') <= Cardinality(PassingClaims) - 1
  <2>1. /\ IsFiniteSet(PassingClaims \ {w})
        /\ Cardinality(PassingClaims \ {w}) = Cardinality(PassingClaims) - 1
    BY <1>0, <1>3, CountsAreFinite, FS_RemoveElement
  <2> QED BY <1>5, <2>1, FS_Subset
<1>8. /\ Cardinality(InFlight) \in Nat /\ Cardinality(InFlight') \in Nat
      /\ Cardinality(PassingClaims) \in Nat /\ Cardinality(PassingClaims') \in Nat
      /\ Cardinality(Workers) \in Nat /\ ClassCap \in Nat
  BY <1>0, <1>2, <1>5, CountsAreFinite, FS_AddElement, FS_RemoveElement, FS_Subset,
     FS_CardinalityType, BudgetAssumption
<1> QED BY <1>6, <1>7, <1>8 DEF BoundedOvershoot

(* A snapshot that passes was taken with room in the class, and the other  *)
(* workers are all that can be passing with it.                            *)
LEMMA SnapshotCounts ==
  ASSUME IInv, [QueueNext]_vars, NEW w \in Workers, Snapshot(w), BoundedOvershoot
  PROVE  BoundedOvershoot'
<1>0. /\ TypeOK /\ pc \in [Workers -> WorkerPcs]
      /\ view \in [Workers -> [queued : SUBSET Jobs, active : SUBSET Jobs]]
  BY DEF IInv, TypeOK, WorkerTypeOK
<1>1. InFlight' = InFlight
  BY DEF Snapshot, table, InFlight, ActiveIn
<1>2. /\ Cardinality(InFlight) \in Nat /\ Cardinality(PassingClaims) \in Nat
      /\ Cardinality(Workers) \in Nat /\ ClassCap \in Nat
  BY <1>0, CountsAreFinite, BudgetAssumption
<1>3. Cardinality(PassingClaims') \in Nat /\ Cardinality(PassingClaims') <= Cardinality(Workers)
  <2>1. PassingClaims' \subseteq Workers
    BY DEF PassingClaims
  <2> QED BY <2>1, WorkersAssumption, FS_Subset, FS_CardinalityType
<1>4. CASE Cardinality(InFlight) < ClassCap
  BY <1>1, <1>2, <1>3, <1>4 DEF BoundedOvershoot
<1>5. CASE ~(Cardinality(InFlight) < ClassCap)
  <2>1. view'[w].active = InFlight
    BY <1>0 DEF Snapshot
  <2>2. w \notin PassingClaims'
    BY <1>5, <2>1 DEF PassingClaims
  <2>3. \A v \in Workers \ {w} : pc'[v] = pc[v] /\ view'[v] = view[v]
    BY <1>0 DEF Snapshot
  <2>4. PassingClaims' \subseteq PassingClaims
    BY <2>2, <2>3 DEF PassingClaims
  <2>5. Cardinality(PassingClaims') <= Cardinality(PassingClaims)
    BY <1>0, <2>4, CountsAreFinite, FS_Subset
  <2> QED BY <1>1, <1>2, <1>3, <2>5 DEF BoundedOvershoot
<1> QED BY <1>4, <1>5

LEMMA OvershootStep == IInv /\ TypeOK' /\ [QueueNext]_vars /\ BoundedOvershoot => BoundedOvershoot'
<1> SUFFICES ASSUME IInv, TypeOK', [QueueNext]_vars, BoundedOvershoot PROVE BoundedOvershoot'
  OBVIOUS
<1>1. CASE \E w \in Workers : ClaimJob(w)
  BY <1>1, ClaimTradesPlaces
<1>2. CASE \E w \in Workers : Snapshot(w)
  BY <1>2, SnapshotCounts
<1>3. CASE ~(\E w \in Workers : ClaimJob(w)) /\ ~(\E w \in Workers : Snapshot(w))
  <2>1. TypeOK
    BY DEF IInv
  <2>2. InFlight' \subseteq InFlight /\ PassingClaims' \subseteq PassingClaims
    BY <1>3, <2>1, OnlyClaimActivates, PassingShrinks
  <2>3. /\ Cardinality(InFlight') \in Nat /\ Cardinality(InFlight') <= Cardinality(InFlight)
        /\ Cardinality(PassingClaims') \in Nat
        /\ Cardinality(PassingClaims') <= Cardinality(PassingClaims)
    BY <2>1, <2>2, CountsAreFinite, FS_Subset, FS_CardinalityType
  <2>4. /\ Cardinality(InFlight) \in Nat /\ Cardinality(PassingClaims) \in Nat
        /\ Cardinality(Workers) \in Nat /\ ClassCap \in Nat
    BY <2>1, CountsAreFinite, BudgetAssumption
  <2> QED BY <2>3, <2>4 DEF BoundedOvershoot
<1> QED BY <1>1, <1>2, <1>3

LEMMA OvershootBegins == QueueInit => BoundedOvershoot
<1> SUFFICES ASSUME QueueInit PROVE BoundedOvershoot
  OBVIOUS
<1>1. InFlight = {} /\ PassingClaims = {}
  BY DEF QueueInit, InFlight, ActiveIn, IsActive, ActiveStates, NoRow, PassingClaims
<1>2. Cardinality(Workers) \in Nat \ {0} /\ ClassCap \in Nat
  BY InitInv, CountsAreFinite, BudgetAssumption DEF IInv
<1>3. Cardinality(InFlight) = 0 /\ Cardinality(PassingClaims) = 0
  BY <1>1, FS_EmptySet
<1> QED BY <1>2, <1>3 DEF BoundedOvershoot

(* Claims count the class on snapshots that are stale by the time they     *)
(* write; however many workers race, the class is over its budget by at    *)
(* most one job for each worker but one.                                   *)
THEOREM BoundedOvershootAlways == QueueSpec => []BoundedOvershoot
<1>1. IInv => TypeOK
  BY DEF IInv
<1> QED BY <1>1, OvershootBegins, OvershootStep, InductiveInvariant, PTL DEF QueueSpec

-----------------------------------------------------------------------------
(* Progress reports, when no two worker processes share an identity.       *)
DistinctIds == \A v, w \in Workers : IdOf(v) = IdOf(w) => v = w

(* A worker reports with the record it holds: as long as the row names its *)
(* identity, nobody else has written the payload.                          *)
HolderOK(w) ==
  /\ pc[w] \in {"dispatch", "start"} => held[w].owner = IdOf(w)
  /\ pc[w] = "run" /\ ~LeaseLost(w) =>
       /\ held[w].owner = IdOf(w)
       /\ rows[job[w]].owner = IdOf(w) =>
            rows[job[w]].status = "running" /\ rows[job[w]].stage = held[w].stage

ReportInv ==
  /\ \A w \in Workers : HolderOK(w)
  /\ \A j \in Jobs : rows[j].status = "absent" => rows[j].stage = 0

StageKept(r, s) ==
  s.stage = IF r.status = "running" /\ s.status = "running" /\ s.revision # r.revision
            THEN r.stage + 1 ELSE r.stage

(* What a report finds in the row it writes.                               *)
LEMMA ReportFinds ==
  ASSUME IInv, ReportInv, NEW w \in Workers, Report(w)
  PROVE  /\ job[w] \in Jobs /\ held[w].owner = IdOf(w) /\ rows[job[w]].owner = IdOf(w)
         /\ rows[job[w]].status = "running" /\ rows[job[w]].stage = held[w].stage
<1>1. job[w] \in Jobs
  BY DEF IInv, TypeOK, WorkerTypeOK, Report, BusyPcs
<1> QED BY <1>1 DEF ReportInv, HolderOK, Report, StillOwner

(* A write under a compare-and-swap puts back the stage that is there.     *)
LEMMA CasKeepsStage ==
  ASSUME NEW r \in RowSet, NEW h \in RowSet, NEW v \in TerminalStates,
         FreshOrStale(r, h), r.revision = h.revision
  PROVE  StageKept(r, Settled(r, h, v)) /\ (r.status # "running" => StageKept(r, Started(r, h)))
<1>1. r.stage = h.stage
  BY CasFinds
<1>2. Settled(r, h, v).stage = h.stage /\ Settled(r, h, v).status # "running"
  BY DEF Settled, TerminalStates
<1>3. Started(r, h).stage = h.stage
  BY DEF Started
<1> QED BY <1>1, <1>2, <1>3 DEF StageKept

LEMMA StageStep ==
  ASSUME IInv, ReportInv, [QueueNext]_vars, NEW j \in Jobs
  PROVE  StageKept(rows[j], rows'[j])
<1> USE DEF IInv
<1>0. /\ rows \in [Jobs -> RowSet] /\ rows[j] \in RowSet /\ StageKept(rows[j], rows[j])
      /\ "failed" \in TerminalStates /\ "cancelled" \in TerminalStates
  BY DEF TypeOK, TableTypeOK, TerminalStates, StageKept
<1>1. ASSUME NEW w \in Workers, Recover(w) PROVE StageKept(rows[j], rows'[j])
  <2>1. rows'[j] \in {rows[j], Settled(rows[j], rows[j], "failed"), Requeued(rows[j])}
    BY <1>0, <1>1 DEF Recover
  <2>2. StageKept(rows[j], Settled(rows[j], rows[j], "failed"))
    BY DEF StageKept, Settled
  <2>3. StageKept(rows[j], Requeued(rows[j]))
    BY DEF StageKept, Requeued
  <2> QED BY <1>0, <2>1, <2>2, <2>3
<1>2. ASSUME NEW w \in Workers, ClaimJob(w) PROVE StageKept(rows[j], rows'[j])
  <2>1. rows'[j] = rows[j] \/ rows'[j] = Leased(rows[j], w)
    BY <1>0, <1>2 DEF ClaimJob
  <2>2. StageKept(rows[j], Leased(rows[j], w))
    BY DEF StageKept, Leased
  <2> QED BY <1>0, <2>1, <2>2
<1>3. ASSUME NEW w \in Workers, StartRunning(w) PROVE StageKept(rows[j], rows'[j])
  <2>1. job[w] \in Jobs /\ rows[job[w]].status = "leased" /\ rows[job[w]] \in RowSet
    BY <1>0, <1>3, StartFinds
  <2>2. /\ FreshOrStale(rows[job[w]], held[w]) /\ held[w] \in RowSet
        /\ rows[job[w]].revision = held[w].revision
    BY <1>3 DEF TypeOK, WorkerTypeOK, HeldInv, WorkerHeld, FreshPcs, StartRunning, CasHolds
  <2>3. StageKept(rows[job[w]], Started(rows[job[w]], held[w]))
    BY <1>0, <2>1, <2>2, CasKeepsStage
  <2> QED BY <1>0, <1>3, <2>1, <2>3 DEF StartRunning
<1>4. ASSUME NEW w \in Workers, Report(w) PROVE StageKept(rows[j], rows'[j])
  <2>1. /\ job[w] \in Jobs /\ rows[job[w]] \in RowSet
        /\ rows[job[w]].status = "running" /\ rows[job[w]].stage = held[w].stage
    BY <1>0, <1>4, ReportFinds
  <2>2. StageKept(rows[job[w]], Reported(rows[job[w]], held[w]))
    BY <2>1 DEF StageKept, Reported, RowSet
  <2> QED BY <1>0, <1>4, <2>1, <2>2 DEF Report
<1>5. ASSUME NEW k \in Jobs, NEW h \in RowSet, NEW v \in TerminalStates, Settle(k, h, v),
             FreshOrStale(rows[k], h), rows[k].revision = h.revision
      PROVE  StageKept(rows[j], rows'[j])
  <2>1. StageKept(rows[k], Settled(rows[k], h, v))
    BY <1>0, <1>5, CasKeepsStage
  <2> QED BY <1>0, <1>5, <2>1 DEF Settle
<1>6. ASSUME NEW w \in Workers, Complete(w) \/ Cancel(w) PROVE StageKept(rows[j], rows'[j])
  <2>1. /\ job[w] \in Jobs /\ held[w] \in RowSet /\ verdict[w] \in TerminalStates
        /\ FreshOrStale(rows[job[w]], held[w]) /\ rows[job[w]].revision = held[w].revision
    BY <1>6
    DEF TypeOK, WorkerTypeOK, HeldInv, WorkerHeld, FreshPcs, BusyPcs, TerminalStates,
        Complete, Cancel, CasHolds, CancelCasHolds
  <2> QED BY <1>0, <1>5, <1>6, <2>1 DEF Complete, Cancel
<1>7. ASSUME NEW c \in Clients, ClientCancel(c) PROVE StageKept(rows[j], rows'[j])
  <2>1. /\ cjob[c] \in Jobs /\ cheld[c] \in RowSet
        /\ FreshOrStale(rows[cjob[c]], cheld[c]) /\ rows[cjob[c]].revision = cheld[c].revision
    BY <1>7 DEF TypeOK, ClientTypeOK, HeldInv, ClientHeld, ClientCancel, CancelCasHolds
  <2> QED BY <1>0, <1>5, <1>7, <2>1 DEF ClientCancel
<1>8. ASSUME NEW c \in Clients, Insert(c) PROVE StageKept(rows[j], rows'[j])
  <2>1. PICK k \in Free : rows' = [rows EXCEPT ![k] = NewRow(parked[c])]
    BY <1>8 DEF Insert
  <2>2. rows[k].status = "absent" /\ rows[k].stage = 0
    BY <2>1 DEF Free, ReportInv
  <2>3. NewRow(parked[c]).stage = 0
    BY DEF NewRow
  <2> QED BY <1>0, <2>1, <2>2, <2>3 DEF StageKept
<1>9. ASSUME NEW k \in Jobs, LeaseExpires(k) PROVE StageKept(rows[j], rows'[j])
  <2>1. rows'[j] = rows[j] \/ rows'[j] = [rows[j] EXCEPT !.lease = "expired"]
    BY <1>0, <1>9 DEF LeaseExpires
  <2>2. StageKept(rows[j], [rows[j] EXCEPT !.lease = "expired"])
    BY <1>0 DEF StageKept, RowSet
  <2> QED BY <1>0, <2>1, <2>2
<1>10. CASE ~TableWrites
  BY <1>0, <1>10, OtherStepsKeepTable DEF table
<1> QED BY <1>1, <1>2, <1>3, <1>4, <1>6, <1>7, <1>8, <1>9, <1>10 DEF TableWrites

(* While a row names w, only w writes more than its lease.                 *)
LEMMA OwnedRowStands ==
  ASSUME IInv, ReportInv, DistinctIds, [QueueNext]_vars, NEW w \in Workers,
         ~(WorkerStep(w) \/ Crash(w)) \/ UNCHANGED table,
         NEW j \in Jobs, rows'[j].owner = IdOf(w)
  PROVE  /\ rows[j].owner = IdOf(w) /\ rows'[j].status = rows[j].status
         /\ rows'[j].stage = rows[j].stage
<1> USE DEF IInv
<1> DEFINE Stands == /\ rows[j].owner = IdOf(w) /\ rows'[j].status = rows[j].status
                     /\ rows'[j].stage = rows[j].stage
<1>0. rows \in [Jobs -> RowSet] /\ rows[j] \in RowSet /\ IdOf(w) # NoOwner
  BY WorkersAssumption DEF TypeOK, TableTypeOK
<1>a. rows'[j] = rows[j] => Stands
  OBVIOUS
<1>b. CASE UNCHANGED table
  BY <1>a, <1>b DEF table
<1> SUFFICES ASSUME ~(WorkerStep(w) \/ Crash(w)) PROVE Stands
  BY <1>b
<1>1. ASSUME NEW v \in Workers, Recover(v) PROVE Stands
  <2>1. rows'[j] \in {rows[j], Settled(rows[j], rows[j], "failed"), Requeued(rows[j])}
    BY <1>0, <1>1 DEF Recover
  <2>2. Settled(rows[j], rows[j], "failed").owner = NoOwner /\ Requeued(rows[j]).owner = NoOwner
    BY DEF Settled, Requeued
  <2> QED BY <1>0, <1>a, <2>1, <2>2
<1>2. ASSUME NEW v \in Workers, ClaimJob(v) PROVE Stands
  <2>1. v # w
    BY <1>2 DEF WorkerStep
  <2>2. rows'[j] = rows[j] \/ rows'[j] = Leased(rows[j], v)
    BY <1>0, <1>2 DEF ClaimJob
  <2>3. Leased(rows[j], v).owner # IdOf(w)
    BY <2>1 DEF Leased, DistinctIds
  <2> QED BY <1>a, <2>2, <2>3
<1>3. ASSUME NEW v \in Workers, StartRunning(v) \/ Report(v) PROVE Stands
  <2>1. v # w
    BY <1>3 DEF WorkerStep
  <2>2. job[v] \in Jobs /\ held[v].owner = IdOf(v) /\ rows[job[v]].owner = held[v].owner
    BY <1>3, StartFinds, ReportFinds DEF ReportInv, HolderOK, StartRunning
  <2>3. \/ rows'[j] = rows[j]
        \/ rows'[j].owner = IdOf(v)
    BY <1>0, <1>3, <2>2 DEF StartRunning, Report, Started, Reported
  <2> QED BY <1>a, <2>1, <2>3 DEF DistinctIds
<1>4. ASSUME NEW k, NEW h, NEW o, Settle(k, h, o) PROVE Stands
  <2>1. Settled(rows[k], h, o).owner = NoOwner
    BY DEF Settled
  <2> QED BY <1>0, <1>4, <1>a, <2>1 DEF Settle
<1>5. ASSUME NEW c \in Clients, Insert(c) PROVE Stands
  <2>1. PICK k \in Free : rows' = [rows EXCEPT ![k] = NewRow(parked[c])]
    BY <1>5 DEF Insert
  <2>2. NewRow(parked[c]).owner = NoOwner
    BY DEF NewRow
  <2> QED BY <1>0, <1>a, <2>1, <2>2
<1>6. ASSUME NEW k \in Jobs, LeaseExpires(k) PROVE Stands
  BY <1>0, <1>6 DEF LeaseExpires, RowSet
<1>7. CASE ~TableWrites
  BY <1>7, <1>a, OtherStepsKeepTable DEF table
<1> QED BY <1>1, <1>2, <1>3, <1>4, <1>5, <1>6, <1>7 DEF TableWrites, Complete, Cancel, ClientCancel

LEMMA OwnHolder ==
  ASSUME IInv, TypeOK', ReportInv, [QueueNext]_vars, NEW w \in Workers, WorkerStep(w) \/ Crash(w)
  PROVE  HolderOK(w)'
<1> USE DEF IInv
<1>0. /\ pc \in [Workers -> WorkerPcs] /\ job \in [Workers -> Jobs \cup {NoJob}]
      /\ held \in [Workers -> RowSet] /\ rows \in [Jobs -> RowSet] /\ HolderOK(w)
  BY DEF TypeOK, WorkerTypeOK, TableTypeOK, ReportInv
<1>1. CASE pc'[w] \notin {"dispatch", "start", "run"}
  BY <1>1 DEF HolderOK
<1>2. CASE ClaimJob(w)
  <2>1. pc'[w] = "dispatch" /\ held'[w].owner = IdOf(w)
    BY <1>0, <1>2 DEF ClaimJob, Hold, Leased
  <2> QED BY <2>1 DEF HolderOK
<1>3. CASE Dispatch(w)
  <2>1. pc[w] = "dispatch" /\ pc'[w] \in {"start", "cancel"} /\ held'[w] = held[w]
    BY <1>0, <1>3 DEF Dispatch, Goto
  <2> QED BY <1>0, <2>1 DEF HolderOK
<1>4. CASE StartRunning(w)
  <2>1. job[w] \in Jobs /\ pc'[w] = "run" /\ job'[w] = job[w] /\ held[w].owner = IdOf(w)
    BY <1>0, <1>4, StartFinds DEF StartRunning, Goto, HolderOK
  <2>2. held'[w] = Started(held[w], held[w]) /\ rows'[job[w]] = Started(rows[job[w]], held[w])
    BY <1>0, <1>4, <2>1 DEF StartRunning, Hold
  <2>3. /\ held'[w].owner = IdOf(w) /\ rows'[job'[w]].status = "running"
        /\ rows'[job'[w]].stage = held'[w].stage
    BY <2>1, <2>2 DEF Started
  <2> QED BY <2>1, <2>3 DEF HolderOK
<1>5. CASE Report(w)
  <2>1. /\ job[w] \in Jobs /\ pc'[w] = "run" /\ job'[w] = job[w] /\ held[w].owner = IdOf(w)
        /\ rows[job[w]].status = "running"
    BY <1>5, ReportFinds DEF Report
  <2>2. held'[w] = Reported(held[w], held[w]) /\ rows'[job[w]] = Reported(rows[job[w]], held[w])
    BY <1>0, <1>5, <2>1 DEF Report, Hold
  <2>3. /\ held'[w].owner = IdOf(w) /\ rows'[job'[w]].status = "running"
        /\ rows'[job'[w]].stage = held'[w].stage
    BY <2>1, <2>2 DEF Reported
  <2> QED BY <2>1, <2>3 DEF HolderOK
<1>6. CASE ReportRefused(w)
  <2>1. held'[w] = NoRow /\ pc'[w] = "run"
    BY <1>0, <1>6 DEF ReportRefused, Hold
  <2> QED BY <2>1 DEF HolderOK, LeaseLost
<1>7. BackToPoll(w) => pc'[w] = "recover"
  BY <1>0 DEF BackToPoll
<1>8. CASE Recover(w) \/ Snapshot(w) \/ LockBatch(w) \/ HandlerEnds(w) \/ PublishRead(w)
           \/ Revalidate(w) \/ CancelRead(w) \/ Abort(w) \/ Crash(w)
  <2>1. pc'[w] \notin {"dispatch", "start", "run"}
    BY <1>0, <1>8
    DEF Recover, Snapshot, LockBatch, HandlerEnds, PublishRead, Revalidate, CancelRead, Abort,
        Crash, Goto
  <2> QED BY <1>1, <2>1
<1>9. CASE ClaimNone(w) \/ StartLost(w) \/ HandlerStops(w) \/ PublishMoot(w) \/ Complete(w)
           \/ CompleteLost(w) \/ Cancel(w) \/ CancelLost(w) \/ Restart(w)
  BY <1>1, <1>7, <1>9
  DEF ClaimNone, StartLost, HandlerStops, PublishMoot, Complete, CompleteLost, Cancel,
      CancelLost, Restart
<1> QED BY <1>2, <1>3, <1>4, <1>5, <1>6, <1>8, <1>9 DEF WorkerStep

LEMMA StandingHolder ==
  ASSUME IInv, ReportInv, DistinctIds, [QueueNext]_vars, NEW w \in Workers,
         ~(WorkerStep(w) \/ Crash(w)) \/ UNCHANGED table,
         pc'[w] = pc[w], job'[w] = job[w], held'[w] = held[w]
  PROVE  HolderOK(w)'
<1>1. HolderOK(w)
  BY DEF ReportInv
<1>2. ASSUME pc[w] = "run", rows'[job[w]].owner = IdOf(w)
      PROVE  /\ rows[job[w]].owner = IdOf(w) /\ rows'[job[w]].status = rows[job[w]].status
             /\ rows'[job[w]].stage = rows[job[w]].stage
  <2>1. job[w] \in Jobs
    BY <1>2 DEF IInv, TypeOK, WorkerTypeOK, BusyPcs
  <2> QED BY <1>2, <2>1, OwnedRowStands
<1> QED BY <1>1, <1>2 DEF HolderOK, LeaseLost

LEMMA ReportInvStep == IInv /\ TypeOK' /\ ReportInv /\ DistinctIds /\ [QueueNext]_vars => ReportInv'
<1> SUFFICES ASSUME IInv, TypeOK', ReportInv, DistinctIds, [QueueNext]_vars PROVE ReportInv'
  OBVIOUS
<1>0. TypeOK
  BY DEF IInv
<1>1. ASSUME NEW w \in Workers PROVE HolderOK(w)'
  <2>1. CASE WorkerStep(w) \/ Crash(w)
    BY <2>1, OwnHolder
  <2>2. ASSUME ~(WorkerStep(w) \/ Crash(w)), NEW v \in Workers, WorkerStep(v) \/ Crash(v)
        PROVE  HolderOK(w)'
    <3>1. v # w
      BY <2>2
    <3> QED BY <1>0, <2>2, <3>1, OthersStand, StandingHolder
  <2>3. CASE ~(WorkerStep(w) \/ Crash(w)) /\ UNCHANGED worker
    BY <2>3, StandingHolder DEF worker
  <2> QED BY <2>1, <2>2, <2>3, WorkersStand DEF QueueNext, vars, LeaseExpires, ToggleAuthorization
<1>2. ASSUME NEW j \in Jobs, rows'[j].status = "absent" PROVE rows'[j].stage = 0
  <2>1. PhaseOf(rows'[j]) = "none"
    BY <1>2, PhaseFacts
  <2>2. rows[j].status = "absent"
    <3>1. rows[j] \in RowSet
      BY <1>0 DEF TypeOK, TableTypeOK
    <3>2. PhaseOf(rows[j]) = "none"
      BY <2>1, StepKeepsPromise DEF Promise
    <3> QED BY <3>1, <3>2, PhaseFacts, RowStatuses
  <2> QED BY <2>2, StageStep DEF ReportInv, StageKept
<1> QED BY <1>1, <1>2 DEF ReportInv

(* record_progress writes a whole payload without comparing revisions.     *)
(* With identities that no two processes share, its owner guard is enough: *)
(* no accepted report is ever overwritten by an older payload, whatever    *)
(* expires, crashes or is claimed again in between.                        *)
THEOREM NoReportIsLostAlways ==
  ASSUME DistinctIds
  PROVE  QueueSpec => NoReportIsLost
<1>1. IInv => TypeOK
  BY DEF IInv
<1>2. QueueInit => ReportInv
  BY DEF QueueInit, ReportInv, HolderOK, NoRow
<1>3. IInv /\ TypeOK' /\ ReportInv /\ [QueueNext]_vars => ReportInv'
  BY ReportInvStep
<1>4. IInv /\ ReportInv /\ [QueueNext]_vars =>
        [\A j \in Jobs :
           rows'[j].stage = IF /\ rows[j].status = "running" /\ rows'[j].status = "running"
                               /\ rows'[j].revision # rows[j].revision
                            THEN rows[j].stage + 1 ELSE rows[j].stage]_vars
  BY StageStep DEF StageKept
<1> QED BY <1>1, <1>2, <1>3, <1>4, InductiveInvariant, PTL DEF QueueSpec, NoReportIsLost
=============================================================================
