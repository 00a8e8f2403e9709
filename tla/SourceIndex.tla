----------------------------- MODULE SourceIndex -----------------------------
(***************************************************************************)
(* The index of one source version: its generations, one per embedding     *)
(* space, and the builds that fill and swap them (application/indexing.py, *)
(* adapters/indexing, workers/indexing_handler.py).                        *)
(*                                                                         *)
(* A build is a durable job: it is handed out again when its lease is      *)
(* lost, while the first worker may go on.  Chunk rows and every single    *)
(* embedding are transactions of their own.                                *)
(***************************************************************************)
EXTENDS Naturals, FiniteSets

CONSTANTS
  Generations,    \* embedding spaces: model, dimension and chunker profile
  Document,       \* how many chunks the chunker makes of the document
  Builders,       \* workers
  EmbedSize,      \* embedding.batch_size
  MaxBuilds,      \* max_attempts of the job
  MaxBuildFaults  \* bound: deaths, lost leases, exceptions, cancellations

ASSUME SourceIndexAssumption ==
  /\ Generations # {}
  /\ Document \in Nat /\ EmbedSize \in Nat \ {0}
  /\ MaxBuilds \in Nat /\ MaxBuildFaults \in Nat

VARIABLES
  gen,        \* index_generations, each with its index_chunks
  buildJob,   \* the ingestion.index job of each generation
  build,      \* what each worker does
  indexFaults \* what befell the builds

indexVars == <<gen, buildJob, build, indexFaults>>

-----------------------------------------------------------------------------
Chunks == 1..Document

FirstOf(S, n) == {c \in S : Cardinality({d \in S : d < c}) < n}

NoGeneration == [status |-> "absent", rows |-> {}, embedded |-> {}]

IdleBuild == [pc |-> "idle", g |-> CHOOSE g \in Generations : TRUE, delivery |-> 0,
              pending |-> {}, vectors |-> {}]

BuildFault == indexFaults < MaxBuildFaults /\ indexFaults' = indexFaults + 1

AtBuild(b, at) == build' = [build EXCEPT ![b].pc = at]

-----------------------------------------------------------------------------
(* BuildSourceIndex.run, by the handler of ingestion.index.                *)

ClaimBuild(b) ==
  /\ build[b].pc = "idle"
  /\ \E g \in Generations :
       /\ buildJob[g].state = "queued"
       /\ buildJob' = [buildJob EXCEPT ![g].state = "claimed", ![g].deliveries = @ + 1]
       /\ build' = [build EXCEPT ![b] =
            [IdleBuild EXCEPT !.pc = "status", !.g = g, !.delivery = buildJob[g].deliveries + 1]]
  /\ UNCHANGED <<gen, indexFaults>>

OwnBuild(b) == /\ buildJob[build[b].g].state = "claimed"
               /\ build[b].delivery = buildJob[build[b].g].deliveries

(* recover_expired: queued again, or failed after the last attempt.        *)
AfterBuildLease(g) == IF buildJob[g].deliveries < MaxBuilds THEN "queued" ELSE "settled"

(* The lease runs out while the worker goes on.                            *)
BuildLeaseLost(g) ==
  /\ buildJob[g].state = "claimed" /\ BuildFault
  /\ buildJob' = [buildJob EXCEPT ![g].state = AfterBuildLease(g)]
  /\ UNCHANGED <<gen, build>>

(* POST /jobs/{id}/cancel; nobody tells the worker.                        *)
CancelBuild(g) ==
  /\ buildJob[g].state \in {"queued", "claimed"} /\ BuildFault
  /\ buildJob' = [buildJob EXCEPT ![g].state = "settled",
                                  ![g].stranded = @ \/ buildJob[g].state = "queued"]
  /\ UNCHANGED <<gen, build>>

(* A generation that is ready is not built again.                          *)
UnderWay(status) == status \in {"building", "ready"}      \* mutated form
BuiltAlready(status) == status = "ready"

ReadStatus(b) ==
  /\ build[b].pc = "status"
  /\ AtBuild(b, CASE BuiltAlready(gen[build[b].g].status)          -> "done"
                  [] gen[build[b].g].status \in {"absent", "failed"} -> "create"
                  [] OTHER                                         -> "existing")
  /\ UNCHANGED <<gen, buildJob, indexFaults>>

(* create: insert unless it is there, then take failed back to building.   *)
CreateGeneration(b) ==
  /\ build[b].pc = "create"
  /\ gen' = [gen EXCEPT ![build[b].g].status = IF @ \in {"absent", "failed"} THEN "building" ELSE @]
  /\ AtBuild(b, "existing")
  /\ UNCHANGED <<buildJob, indexFaults>>

(* Only the chunks that have no row yet are pending.                       *)
ReadExisting(b) ==
  /\ build[b].pc = "existing"
  /\ build' = [build EXCEPT ![b].pc = "insert", ![b].pending = Chunks \ gen[build[b].g].rows]
  /\ UNCHANGED <<gen, buildJob, indexFaults>>

(* A row another worker put there meanwhile is skipped.                    *)
WithPending(b) == gen[build[b].g].rows \cup build[b].pending

InsertChunks(b) ==
  /\ build[b].pc = "insert"
  /\ gen' = [gen EXCEPT ![build[b].g].rows = WithPending(b)]
  /\ AtBuild(b, "embed")
  /\ UNCHANGED <<buildJob, indexFaults>>

(* One batch goes to the embedding server; with none left comes the swap.  *)
EmbedBatch(b) ==
  /\ build[b].pc = "embed" /\ build[b].vectors = {}
  /\ IF build[b].pending = {} THEN AtBuild(b, "swap")
     ELSE LET batch == FirstOf(build[b].pending, EmbedSize)
          IN  build' = [build EXCEPT ![b].vectors = batch, ![b].pending = @ \ batch]
  /\ UNCHANGED <<gen, buildJob, indexFaults>>

SetEmbedding(b) ==
  /\ build[b].pc = "embed"
  /\ \E c \in FirstOf(build[b].vectors, 1) :
       /\ gen' = [gen EXCEPT ![build[b].g].embedded = @ \cup {c}]
       /\ build' = [build EXCEPT ![b].vectors = @ \ {c}]
  /\ UNCHANGED <<buildJob, indexFaults>>

(* swap_ready: the other ready generation is superseded, then this one is  *)
(* promoted if it is still building, in one transaction.                   *)
SwapWithoutDemotion(g) == [gen EXCEPT ![g].status = IF @ = "building" THEN "ready" ELSE @]  \* mutated form
Swapped(g) ==
  [h \in Generations |->
     IF h # g /\ gen[h].status = "ready" THEN [gen[h] EXCEPT !.status = "superseded"]
     ELSE IF h = g /\ gen[h].status = "building" THEN [gen[h] EXCEPT !.status = "ready"]
     ELSE gen[h]]

SwapReady(b) ==
  /\ build[b].pc = "swap"
  /\ gen' = Swapped(build[b].g)
  /\ AtBuild(b, "done")
  /\ UNCHANGED <<buildJob, indexFaults>>

(* A delivery is over, with an outcome of the generation or without one,   *)
(* and leaves its job in a state.  Without an outcome the generation is    *)
(* built by the next delivery or by none, and a queued job that is settled *)
(* has no next delivery.                                                   *)
LeaveBuild(b, state, outcome) ==
  /\ buildJob' = [buildJob EXCEPT ![build[b].g].state = state,
       ![build[b].g].stranded =
         @ \/ (state # "queued" /\ (~outcome \/ buildJob[build[b].g].state = "queued"))]
  /\ build' = [build EXCEPT ![b] = IdleBuild]
  /\ UNCHANGED gen

(* The loop reads the job again and settles it, whoever holds it by now, a *)
(* queued one only to cancel it for a user who lost the right to it.  Else *)
(* the result is refused: the job has ended, is queued again, or its new   *)
(* holder has not set it running.                                          *)
BuildEnds(b) ==
  (IF buildJob[build[b].g].state \in {"queued", "claimed"} THEN {"settled"} ELSE {})
    \cup (IF OwnBuild(b) THEN {} ELSE {buildJob[build[b].g].state})

EndJob(b) ==
  /\ build[b].pc = "done"
  /\ \E state \in BuildEnds(b) : LeaveBuild(b, state, TRUE)
  /\ UNCHANGED indexFaults

(* The job is cancelled at dispatch, or has moved, or the failure could    *)
(* not be recorded.                                                        *)
BuildAbandoned(b) ==
  /\ build[b].pc \in {"status", "failing"} /\ BuildFault
  /\ \E state \in BuildEnds(b) : LeaveBuild(b, state, FALSE)

(* An exception on the way: the document, the database, the embedding      *)
(* server or its dimension.                                                *)
BuildRaises(b) ==
  /\ build[b].pc \notin {"idle", "done", "failing"}
  /\ BuildFault
  /\ AtBuild(b, "failing")
  /\ UNCHANGED <<gen, buildJob>>

(* mark_failed looks at no status; the exception then leaves the handler.  *)
FailEverySpace(g) == {h \in Generations : gen[h].status \in {"building", "ready"}}  \* mutated form
FailedBy(g) == {g}

MarkGenerationFailed(b) ==
  /\ build[b].pc = "failing"
  /\ gen' = [h \in Generations |-> IF h \in FailedBy(build[b].g) /\ gen[h].status # "absent"
                                   THEN [gen[h] EXCEPT !.status = "failed"] ELSE gen[h]]
  /\ AtBuild(b, "done")
  /\ UNCHANGED <<buildJob, indexFaults>>

(* A worker dies; the lease runs out.                                      *)
BuilderDies(b) ==
  /\ build[b].pc # "idle" /\ BuildFault
  /\ LeaveBuild(b, IF OwnBuild(b) THEN AfterBuildLease(build[b].g) ELSE buildJob[build[b].g].state, FALSE)

-----------------------------------------------------------------------------
IndexInit ==
  /\ gen = [g \in Generations |-> NoGeneration]
  /\ buildJob = [g \in Generations |-> [state |-> "queued", deliveries |-> 0, stranded |-> FALSE]]
  /\ build = [b \in Builders |-> IdleBuild]
  /\ indexFaults = 0

BuildStep(b) ==
  \/ ClaimBuild(b) \/ ReadStatus(b) \/ CreateGeneration(b) \/ ReadExisting(b) \/ InsertChunks(b)
  \/ EmbedBatch(b) \/ SetEmbedding(b) \/ SwapReady(b) \/ MarkGenerationFailed(b) \/ EndJob(b)

IndexNext ==
  \/ \E b \in Builders : BuildStep(b) \/ BuildRaises(b) \/ BuildAbandoned(b) \/ BuilderDies(b)
  \/ \E g \in Generations : BuildLeaseLost(g) \/ CancelBuild(g)

(* Workers go on unless they die, and jobs are handed out again.           *)
IndexSpec ==
  /\ IndexInit /\ [][IndexNext]_indexVars
  /\ \A b \in Builders : WF_indexVars(BuildStep(b))

-----------------------------------------------------------------------------
(* Properties.                                                             *)

(* Types of the generations and the builds.                                *)
IndexTypeOK ==
  /\ \A g \in Generations :
       /\ gen[g].status \in {"absent", "building", "ready", "superseded", "failed"}
       /\ gen[g].embedded \subseteq gen[g].rows /\ gen[g].rows \subseteq Chunks
       /\ buildJob[g].deliveries \in 0..MaxBuilds
  /\ \A b \in Builders : build[b].pending \cup build[b].vectors \subseteq Chunks

Ready == {g \in Generations : gen[g].status = "ready"}

(* Retrieval never sees two ready generations, nor one that lacks a chunk  *)
(* of the document, whichever builds overlapped, failed or were resumed.   *)
OneReadyAndComplete ==
  Cardinality(Ready) <= 1 /\ \A g \in Ready : gen[g].rows = Chunks

(* What is served is taken away only for the next ready generation, or by  *)
(* a failing build of its own: never by a build of another embedding       *)
(* space.  Only the swap of a job handed out twice may promote nothing.    *)
SwapKeepsServing ==
  [][\A g \in Generations :
       gen[g].status = "ready" /\ gen'[g].status # "ready"
         => \/ \E h \in Generations : gen'[h].status = "ready" /\ gen[h].status = "building"
            \/ \E b \in Builders :
                 \/ build[b].g = g /\ build[b].pc = "failing"
                 \/ build[b].pc = "swap" /\ buildJob[build[b].g].deliveries > 1]_indexVars

(* A generation that is building is left for ready or failed, unless its   *)
(* job is cancelled while it is queued, or a delivery ends without an      *)
(* outcome - it died, was not let run or could not record its failure -    *)
(* when the job will not be handed out again: it was the last attempt, the *)
(* job was cancelled under it, or another delivery has settled it or holds *)
(* it.                                                                     *)
InBuild(g) == gen[g].status = "building" /\ ~buildJob[g].stranded

BuildsEnd == \A g \in Generations : InBuild(g) ~> ~InBuild(g)

(* What retrieval may rely on, together: one ready and complete            *)
(* generation, which is taken away only for the next one or by its own     *)
(* failing build.                                                          *)
IndexSafe ==
  /\ []OneReadyAndComplete
  /\ SwapKeepsServing
=============================================================================
