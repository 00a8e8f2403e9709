------------------------------- MODULE Execution -------------------------------
(***************************************************************************)
(* Code execution: each worker that offers execution.run serves a broker   *)
(* on a Unix socket, is its client, runs the sandbox and publishes the     *)
(* outputs (workers/execution_handler.py, adapters/execution).             *)
(*                                                                         *)
(* The workers share the execution root: by default it is a directory of   *)
(* the blob root.  So they share broker.sock, the images and the           *)
(* quarantine, while keys, nonces and records of outputs are in memory.    *)
(***************************************************************************)
EXTENDS Naturals, FiniteSets

CONSTANTS
  ExecWorkers,      \* worker processes
  ExecJobs,         \* execution.run jobs
  Outputs,          \* the outputs each job declares
  NoWorker,
  MaxExecutions,    \* bound: sandbox executions
  MaxStarts,        \* bound: starts of workers
  MaxExecFaults,    \* bound: deaths, lost leases, I/O errors
  MaxGrantChanges   \* bound: changes of the actor's access, cancelled jobs

ASSUME ExecutionAssumption == NoWorker \notin ExecWorkers /\ ExecJobs # {}

VARIABLES
  workerOf,     \* each process and its handler
  broker,     \* what the broker of each process does, and its backlog
  socketOf,   \* whose socket broker.sock names
  installed,  \* the runtime image is in place
  quarantine, \* executions with a directory in quarantine
  execJob,    \* each job, the outputs that refer to it, its result
  granted,    \* the actor may still run the job and publish into the notebook
  execution,  \* executions so far, each with its fate (history)
  execUsed    \* how much of each bound is used up

execVars == <<workerOf, broker, socketOf, installed, quarantine, execJob, granted, execution, execUsed>>

-----------------------------------------------------------------------------
NoTask == [pc |-> "idle", job |-> CHOOSE j \in ExecJobs : TRUE, current |-> FALSE,
           x |-> 0, checked |-> {}, put |-> {}]

DownWorker == [status |-> "down", task |-> NoTask]

IdleBroker == [pc |-> "accept", caller |-> NoWorker, x |-> 0, backlog |-> {}]

Up(w) == workerOf[w].status = "up"

TaskTo(w, at) == workerOf' = [workerOf EXCEPT ![w].task.pc = at]

BrokerTo(b, at) == broker' = [broker EXCEPT ![b].pc = at]

-----------------------------------------------------------------------------
(* open_execution_stack and the end of a worker.                           *)

StartExecWorker(w) ==
  /\ workerOf[w].status = "down" /\ execUsed.starts < MaxStarts
  /\ execUsed' = [execUsed EXCEPT !.starts = @ + 1]
  /\ workerOf' = [workerOf EXCEPT ![w] =
       [DownWorker EXCEPT !.status = IF installed THEN "listen" ELSE "rename"]]
  /\ UNCHANGED <<broker, socketOf, installed, quarantine, execJob, granted, execution>>

(* install: the staged copy becomes the image by a rename, which fails if  *)
(* another worker has put it there since the check; then the worker exits. *)
RenameImage(w) ==
  /\ workerOf[w].status = "rename"
  /\ installed' = TRUE
  /\ workerOf' = [workerOf EXCEPT ![w].status = IF installed THEN "down" ELSE "listen"]
  /\ UNCHANGED <<broker, socketOf, quarantine, execJob, granted, execution, execUsed>>

(* listen removes a socket that is there and binds its own.                *)
Listen(w) ==
  /\ workerOf[w].status = "listen"
  /\ workerOf' = [workerOf EXCEPT ![w].status = "up"]
  /\ broker' = [broker EXCEPT ![w] = IdleBroker]
  /\ socketOf' = w
  /\ UNCHANGED <<installed, quarantine, execJob, granted, execution, execUsed>>

(* The process ends: connections to its broker break.                      *)
NothingBreaks(w) == workerOf                                \* mutated form
Broken(w) ==
  [v \in ExecWorkers |->
     IF v # w /\ workerOf[v].task.pc = "waiting" /\ (v \in broker[w].backlog \/ broker[w].caller = v)
     THEN [workerOf[v] EXCEPT !.task.pc = "refused"] ELSE workerOf[v]]

(* A stop between two jobs closes the broker and removes broker.sock.      *)
StopExecWorker(w) ==
  /\ Up(w) /\ workerOf[w].task.pc = "idle"
  /\ workerOf' = [Broken(w) EXCEPT ![w] = DownWorker]
  /\ broker' = [broker EXCEPT ![w] = IdleBroker]
  /\ socketOf' = NoWorker
  /\ UNCHANGED <<installed, quarantine, execJob, granted, execution, execUsed>>

(* current: the lease of the job was handed to this worker and was not     *)
(* taken from it.  A job that was settled by another is nobody's.          *)
HoldsLease(w) ==
  /\ workerOf[w].task.pc # "idle" /\ workerOf[w].task.current
  /\ execJob[workerOf[w].task.job].status = "running"

SetJob(j, status) == execJob' = [execJob EXCEPT ![j].status = status]

(* recover_expired: queued for another attempt, or failed after the last.  *)
ReapExecJob(w) == \E status \in {"queued", "failed"} : SetJob(workerOf[w].task.job, status)

(* A crash leaves the socket file and the quarantine; the job's lease      *)
(* expires and the job is reaped.  A request the worker had sent to        *)
(* another's broker would be refused there, with nobody to answer.         *)
KillExecWorker(w) ==
  /\ Up(w) /\ execUsed.faults < MaxExecFaults
  /\ execUsed' = [execUsed EXCEPT !.faults = @ + 1]
  /\ workerOf' = [Broken(w) EXCEPT ![w] = DownWorker]
  /\ broker' = [b \in ExecWorkers |->
       IF b = w THEN IdleBroker ELSE [broker[b] EXCEPT !.backlog = @ \ {w}]]
  /\ IF HoldsLease(w) THEN ReapExecJob(w) ELSE UNCHANGED execJob
  /\ execution' = [x \in DOMAIN execution |->
       IF x \in {broker[w].x, workerOf[w].task.x} THEN [execution[x] EXCEPT !.spoiled = TRUE]
       ELSE execution[x]]
  /\ UNCHANGED <<socketOf, installed, quarantine, granted>>

(* The lease is lost while the handler goes on: it asks for no signal.     *)
LoseLease(w) ==
  /\ HoldsLease(w)
  /\ execUsed.faults < MaxExecFaults
  /\ execUsed' = [execUsed EXCEPT !.faults = @ + 1]
  /\ ReapExecJob(w)
  /\ workerOf' = [workerOf EXCEPT ![w].task.current = FALSE]
  /\ UNCHANGED <<broker, socketOf, installed, quarantine, granted, execution>>

-----------------------------------------------------------------------------
(* ExecutionRunHandler.run, up to the answer of the broker.                *)

(* The claim, and at once the check of the actor: without it the job is    *)
(* cancelled.                                                              *)
TakeJob(w) ==
  /\ Up(w) /\ workerOf[w].task.pc = "idle"
  /\ \E j \in ExecJobs :
       /\ execJob[j].status = "queued"
       /\ \/ /\ granted /\ SetJob(j, "running")
             /\ workerOf' = [workerOf EXCEPT ![w].task =
                  [NoTask EXCEPT !.pc = "connect", !.job = j, !.current = TRUE]]
          \/ ~granted /\ SetJob(j, "cancelled") /\ UNCHANGED workerOf
  /\ UNCHANGED <<broker, socketOf, installed, quarantine, granted, execution, execUsed>>

(* POST /jobs/{id}/cancel; nobody tells the worker.                        *)
CancelExecJob(j) ==
  /\ execJob[j].status \in {"queued", "running"}
  /\ execUsed.grants < MaxGrantChanges
  /\ execUsed' = [execUsed EXCEPT !.grants = @ + 1]
  /\ SetJob(j, "cancelled")
  /\ UNCHANGED <<workerOf, broker, socketOf, installed, quarantine, granted, execution>>

(* A payload that does not parse, or code that cannot be stored.           *)
PayloadInvalid(w) ==
  /\ workerOf[w].task.pc = "connect"
  /\ TaskTo(w, "refused")
  /\ UNCHANGED <<broker, socketOf, installed, quarantine, execJob, granted, execution, execUsed>>

(* The client connects to whatever broker.sock names.                      *)
ConnectBroker(w) ==
  /\ workerOf[w].task.pc = "connect"
  /\ IF socketOf # NoWorker /\ Up(socketOf)
     THEN /\ broker' = [broker EXCEPT ![socketOf].backlog = @ \cup {w}]
          /\ TaskTo(w, "waiting")
     ELSE /\ TaskTo(w, "refused")
          /\ UNCHANGED broker
  /\ UNCHANGED <<socketOf, installed, quarantine, execJob, granted, execution, execUsed>>

-----------------------------------------------------------------------------
(* The broker: one connection after the other.                             *)

(* The envelope must verify with the key made when this broker was opened, *)
(* so that only the client of the same process is served.                  *)
Verifies(b, w) == b = w

AcceptConnection(b) ==
  /\ Up(b) /\ broker[b].pc = "accept"
  /\ \E w \in broker[b].backlog :
       IF Verifies(b, w) /\ Cardinality(DOMAIN execution) < MaxExecutions
       THEN LET x == Cardinality(DOMAIN execution) + 1 IN
              /\ broker' = [broker EXCEPT ![b].pc = "sandbox", ![b].caller = w, ![b].x = x,
                                          ![b].backlog = @ \ {w}]
              /\ execution' = [y \in 1..x |->
                   IF y = x THEN [status |-> "running", denied |-> FALSE, spoiled |-> FALSE]
                   ELSE execution[y]]
              /\ UNCHANGED workerOf
       ELSE /\ broker' = [broker EXCEPT ![b].backlog = @ \ {w}]
            /\ TaskTo(w, "refused")
            /\ UNCHANGED execution
  /\ UNCHANGED <<socketOf, installed, quarantine, execJob, granted, execUsed>>

(* The spec, the image or an input is refused before anything runs.        *)
SpecRefused(b) ==
  /\ broker[b].pc = "sandbox"
  /\ execution' = [execution EXCEPT ![broker[b].x].status = "refused"]
  /\ BrokerTo(b, "respond")
  /\ UNCHANGED <<workerOf, socketOf, installed, quarantine, execJob, granted, execUsed>>

(* The sandbox ends by itself, or its control group is killed in time; what*)
(* it ran out of is left out.                                              *)
SandboxOutcomes == {"succeeded", "failed", "killed"}

SandboxEnds(b) ==
  /\ broker[b].pc = "sandbox"
  /\ \E status \in SandboxOutcomes :
       /\ execution' = [execution EXCEPT ![broker[b].x].status = status]
       /\ BrokerTo(b, IF status = "succeeded" THEN "collect" ELSE "respond")
  /\ UNCHANGED <<workerOf, socketOf, installed, quarantine, execJob, granted, execUsed>>

(* collect copies the outputs into quarantine; an output outside the       *)
(* policy removes them again and the execution counts as a violation.      *)
CollectOutputs(b) ==
  /\ broker[b].pc = "collect"
  /\ \/ /\ quarantine' = quarantine \cup {broker[b].x}
        /\ UNCHANGED execution
     \/ /\ execution' = [execution EXCEPT ![broker[b].x].status = "violation"]
        /\ UNCHANGED quarantine
  /\ BrokerTo(b, "respond")
  /\ UNCHANGED <<workerOf, socketOf, installed, execJob, granted, execUsed>>

(* An I/O error on the way leaves the directory there.                     *)
CollectRaises(b) ==
  /\ broker[b].pc = "collect" /\ execUsed.faults < MaxExecFaults
  /\ execUsed' = [execUsed EXCEPT !.faults = @ + 1]
  /\ quarantine' = quarantine \cup {broker[b].x}
  /\ execution' = [execution EXCEPT ![broker[b].x].status = "error", ![broker[b].x].spoiled = TRUE]
  /\ BrokerTo(b, "respond")
  /\ UNCHANGED <<workerOf, socketOf, installed, execJob, granted>>

Respond(b) ==
  /\ broker[b].pc = "respond"
  /\ LET w == broker[b].caller
         ok == execution[broker[b].x].status = "succeeded" IN
       workerOf' = [workerOf EXCEPT ![w].task.pc = IF ok THEN "authorize" ELSE "refused",
                                ![w].task.x  = IF ok THEN broker[b].x ELSE 0]
  /\ broker' = [broker EXCEPT ![b].pc = "accept", ![b].caller = NoWorker, ![b].x = 0]
  /\ UNCHANGED <<socketOf, installed, quarantine, execJob, granted, execution, execUsed>>

-----------------------------------------------------------------------------
(* publish: access is revalidated for every output, then they are put.     *)

PutAsChecked(w) == workerOf[w].task.checked # {}            \* mutated form
AllChecked(w) == workerOf[w].task.checked = Outputs

AuthorizeOutput(w) ==
  /\ workerOf[w].task.pc = "authorize"
  /\ \E o \in Outputs \ workerOf[w].task.checked :
       IF granted
       THEN /\ workerOf' = [workerOf EXCEPT ![w].task.checked = @ \cup {o}]
            /\ UNCHANGED execution
       ELSE /\ TaskTo(w, "discard")
            /\ execution' = [execution EXCEPT ![workerOf[w].task.x].denied = TRUE]
  /\ UNCHANGED <<broker, socketOf, installed, quarantine, execJob, granted, execUsed>>

(* One blob transaction, with a reference of the job.                      *)
PutOutput(w) ==
  /\ workerOf[w].task.pc = "authorize" /\ AllChecked(w)
  /\ \E o \in workerOf[w].task.checked \ workerOf[w].task.put :
       /\ workerOf' = [workerOf EXCEPT ![w].task.put = @ \cup {o}]
       /\ execJob' = [execJob EXCEPT ![workerOf[w].task.job].refs = @ \cup {<<workerOf[w].task.x, o>>}]
  /\ UNCHANGED <<broker, socketOf, installed, quarantine, granted, execution, execUsed>>

(* The blob store fails: what was put before stays.                        *)
PutRaises(w) ==
  /\ workerOf[w].task.pc = "authorize" /\ AllChecked(w) /\ workerOf[w].task.put # Outputs
  /\ execUsed.faults < MaxExecFaults
  /\ execUsed' = [execUsed EXCEPT !.faults = @ + 1]
  /\ TaskTo(w, "discard")
  /\ UNCHANGED <<broker, socketOf, installed, quarantine, execJob, granted, execution>>

PublishedSome(w) == workerOf[w].task.put # {}               \* mutated form
Published(w) == workerOf[w].task.put = Outputs

(* Whatever came of it, the quarantine of the execution is removed.        *)
KeepRefused(w) == IF Published(w) THEN {workerOf[w].task.x} ELSE {}  \* mutated form
Discarded(w) == {workerOf[w].task.x}

DiscardOutputs(w) ==
  /\ \/ workerOf[w].task.pc = "discard"
     \/ workerOf[w].task.pc = "authorize" /\ Published(w)
  /\ quarantine' = quarantine \ Discarded(w)
  /\ TaskTo(w, IF Published(w) THEN "complete" ELSE "refused")
  /\ UNCHANGED <<broker, socketOf, installed, execJob, granted, execution, execUsed>>

(* The loop reads the job again and settles it, whoever holds it by now.   *)
(* A result without the grant cancels it, even queued; else a job that is  *)
(* queued again, or whose new holder has not set it running yet, takes no  *)
(* result and the worker ends (StopExecWorker).                            *)
Verdict(w) ==
  IF workerOf[w].task.pc = "refused" THEN "failed" ELSE IF granted THEN "done" ELSE "cancelled"

SettleExecJob(w) ==
  /\ workerOf[w].task.pc \in {"complete", "refused"}
  /\ LET j == workerOf[w].task.job IN
       \/ /\ execJob[j].status \in {"running"} \cup (IF Verdict(w) = "cancelled" THEN {"queued"} ELSE {})
          /\ execJob' = [execJob EXCEPT ![j].status = Verdict(w), ![j].result = workerOf[w].task.x]
       \/ ~HoldsLease(w) /\ UNCHANGED execJob
  /\ workerOf' = [workerOf EXCEPT ![w].task = NoTask]
  /\ UNCHANGED <<broker, socketOf, installed, quarantine, granted, execution, execUsed>>

ChangeGrant ==
  /\ execUsed.grants < MaxGrantChanges
  /\ execUsed' = [execUsed EXCEPT !.grants = @ + 1]
  /\ granted' = ~granted
  /\ UNCHANGED <<workerOf, broker, socketOf, installed, quarantine, execJob, execution>>

-----------------------------------------------------------------------------
ExecInit ==
  /\ workerOf = [w \in ExecWorkers |-> DownWorker]
  /\ broker = [w \in ExecWorkers |-> IdleBroker]
  /\ socketOf = NoWorker /\ installed = FALSE /\ quarantine = {}
  /\ execJob = [j \in ExecJobs |-> [status |-> "queued", refs |-> {}, result |-> 0]]
  /\ granted = TRUE
  /\ execution = [x \in {} |-> 0]
  /\ execUsed = [starts |-> 0, faults |-> 0, grants |-> 0]

BrokerStep(b) ==
  AcceptConnection(b) \/ SpecRefused(b) \/ SandboxEnds(b) \/ CollectOutputs(b) \/ Respond(b)

ExecStep(w) ==
  \/ RenameImage(w) \/ Listen(w) \/ TakeJob(w) \/ PayloadInvalid(w) \/ ConnectBroker(w)
  \/ AuthorizeOutput(w) \/ PutOutput(w) \/ DiscardOutputs(w) \/ SettleExecJob(w)

ExecNext ==
  \/ \E w \in ExecWorkers :
       \/ StartExecWorker(w) \/ StopExecWorker(w) \/ KillExecWorker(w) \/ LoseLease(w)
       \/ ExecStep(w) \/ BrokerStep(w) \/ CollectRaises(w) \/ PutRaises(w)
  \/ ChangeGrant
  \/ \E j \in ExecJobs : CancelExecJob(j)

(* The thread of the broker goes on while its worker lives.                *)
ExecSpec ==
  /\ ExecInit /\ [][ExecNext]_execVars
  /\ \A w \in ExecWorkers : WF_execVars(BrokerStep(w))

-----------------------------------------------------------------------------
(* Properties.                                                             *)

(* Types of the workers, the brokers and the executions.                   *)
ExecTypeOK ==
  /\ \A w \in ExecWorkers :
       /\ workerOf[w].status \in {"down", "rename", "listen", "up"}
       /\ workerOf[w].task.put \subseteq workerOf[w].task.checked
       /\ workerOf[w].task.checked \subseteq Outputs
       /\ broker[w].backlog \subseteq ExecWorkers /\ broker[w].caller \in ExecWorkers \cup {NoWorker}
       /\ (broker[w].x # 0) = (broker[w].pc # "accept")
  /\ socketOf \in ExecWorkers \cup {NoWorker}
  /\ quarantine \subseteq DOMAIN execution

(* A refused publication writes nothing, even if access is withdrawn half  *)
(* way through its checks, and no output of an execution that did not      *)
(* succeed is ever referred to, whichever workers and brokers overlapped.  *)
DeniedWritesNothing ==
  \A j \in ExecJobs : \A r \in execJob[j].refs :
    execution[r[1]].status = "succeeded" /\ ~execution[r[1]].denied

(* A job that is done names an execution with every output stored, also    *)
(* when an earlier delivery of it had stored some of its own, or settled   *)
(* it while a later one held it.                                           *)
ResultIsStored ==
  \A j \in ExecJobs : execJob[j].status = "done" =>
    execJob[j].result # 0 /\ {execJob[j].result} \X Outputs \subseteq execJob[j].refs

InProgress == {broker[w].x : w \in ExecWorkers} \cup {workerOf[w].task.x : w \in ExecWorkers}

(* Quarantine holds only outputs of executions in progress; what is left   *)
(* behind was left by a crash or an I/O error, never by a refusal, a       *)
(* denial or a lost lease.                                                 *)
QuarantineDrains ==
  \A x \in quarantine : x \in InProgress \/ execution[x].spoiled

(* A client that waits for a broker is answered, by an outcome, a refusal  *)
(* or a broken connection, though the socket may have become another's.    *)
Asking(w) == workerOf[w].task.pc = "waiting"

CallerAnswered == \A w \in ExecWorkers : Asking(w) ~> ~Asking(w)

(* What a job may refer to and what it may leave behind, together: nothing *)
(* of an execution that failed or was denied, every output of the one it   *)
(* names, and no file in quarantine but what a crash left.  The types come *)
(* with it.                                                                *)
ExecSafe ==
  /\ ExecTypeOK
  /\ DeniedWritesNothing
  /\ ResultIsStored
  /\ QuarantineDrains
=============================================================================
