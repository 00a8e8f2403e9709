------------------------------ MODULE Inference -----------------------------
(***************************************************************************)
(* The local inference process manager: sessions of one event loop that    *)
(* pass the GPU gate, boot a model once, infer in turn and let go of it.   *)
(* A step is what a session does between two awaits.                       *)
(***************************************************************************)
EXTENDS Integers, FiniteSets

CONSTANTS HotModels,          \* embedding, reranker and chat models
          MediaModels,        \* every other local model
          Sessions,
          MaxSerialSessions,  \* bound on sessions opened
          MaxInferenceFaults  \* bound on crashes, failed starts and cancellations

ASSUME InferenceAssumption == /\ HotModels \cap MediaModels = {}
                              /\ HotModels \cup MediaModels # {}
                              /\ IsFiniteSet(Sessions) /\ "free" \notin Sessions
                              /\ MaxSerialSessions \in Nat
                              /\ MaxInferenceFaults \in Nat

VARIABLES references,  \* model -> references held, leaked ones included
          entry,       \* model -> what the process table says of it
          alive,       \* model -> processes started and neither stopped nor dead
          gate,        \* the session that holds the GPU condition's lock
          modelLock,   \* model -> the session that holds its lock
          serial,      \* model -> the session whose turn it is
          session,     \* session -> phase and model
          leaked,      \* a reference or a notification was lost to a fault
          opened, inferenceFaults

inferenceVars == <<references, entry, alive, gate, modelLock, serial, session, leaked,
                   opened, inferenceFaults>>

Models == HotModels \cup MediaModels
Unheld == "free"

Phases == {"out", "gate", "waiting", "evicting", "boot", "starting", "queued",
           "inferring", "unload", "stopping", "notify"}

Running(m) == entry[m] = "live"

In(s, phase) == session[s].phase = phase

Move(s, phase) == session' = [session EXCEPT ![s].phase = phase]

-----------------------------------------------------------------------------
\* load: the gate.

OpenSession(s, m) ==
    /\ In(s, "out")
    /\ opened < MaxSerialSessions
    /\ opened' = opened + 1
    /\ session' = [session EXCEPT ![s] = [phase |-> "gate", model |-> m]]
    /\ UNCHANGED <<references, entry, alive, gate, modelLock, serial, leaked, inferenceFaults>>

Referenced(ms) == \E m \in ms : references[m] > 0

ActiveConflict(m) == Referenced(IF m \in MediaModels THEN HotModels ELSE MediaModels)

NoneIdle == {}                                              \* mutated form
IdleHot == {h \in HotModels : references[h] = 0 /\ Running(h)}

Reserve(s) ==
    /\ references' = [references EXCEPT ![session[s].model] = @ + 1]
    /\ Move(s, "boot")

\* Without a conflict a media session first evicts the idle hot models, one
\* stop at a time and with the gate held; then the reference is taken before
\* the slow start.
PassGate(s) ==
    LET m == session[s].model IN
    /\ \/ In(s, "gate") /\ gate = Unheld
       \/ In(s, "evicting") /\ gate = s
    /\ \/ /\ In(s, "gate")
          /\ ActiveConflict(m)
          /\ Move(s, "waiting")
          /\ UNCHANGED <<references, entry, alive, gate>>
       \/ /\ In(s, "evicting") \/ ~ActiveConflict(m)
          /\ m \in MediaModels
          /\ \E h \in IdleHot :
                /\ entry' = [entry EXCEPT ![h] = "none"]
                /\ alive' = [alive EXCEPT ![h] = @ - 1]
          /\ gate' = s
          /\ Move(s, "evicting")
          /\ UNCHANGED references
       \/ /\ In(s, "evicting") \/ ~ActiveConflict(m)
          /\ m \in HotModels \/ IdleHot = {}
          /\ Reserve(s)
          /\ gate' = Unheld
          /\ UNCHANGED <<entry, alive>>
    /\ UNCHANGED <<modelLock, serial, leaked, opened, inferenceFaults>>

\* load: the start, at most one at a time for a model, behind a second check.
StartAnyway(m) == FALSE                                     \* mutated form
StartedMeanwhile(m) == Running(m)

Boot(s) ==
    LET m == session[s].model IN
    /\ In(s, "boot")
    /\ \/ Running(m) /\ Move(s, "queued") /\ UNCHANGED modelLock
       \/ /\ modelLock[m] = Unheld
          /\ \/ StartedMeanwhile(m) /\ Move(s, "queued") /\ UNCHANGED modelLock
             \/ /\ ~StartedMeanwhile(m)
                /\ Move(s, "starting")
                /\ modelLock' = [modelLock EXCEPT ![m] = s]
    /\ UNCHANGED <<references, entry, alive, gate, serial, leaked, opened, inferenceFaults>>

HasStarted(s) ==
    LET m == session[s].model IN
    /\ In(s, "starting")
    /\ entry' = [entry EXCEPT ![m] = "live"]
    /\ alive' = [alive EXCEPT ![m] = @ + 1]
    /\ modelLock' = [modelLock EXCEPT ![m] = Unheld]
    /\ Move(s, "queued")
    /\ UNCHANGED <<references, gate, serial, leaked, opened, inferenceFaults>>

\* serial_session: one inference of a model at a time.
TakeTurn(s) ==
    /\ In(s, "queued")
    /\ serial[session[s].model] = Unheld
    /\ serial' = [serial EXCEPT ![session[s].model] = s]
    /\ Move(s, "inferring")
    /\ UNCHANGED <<references, entry, alive, gate, modelLock, leaked, opened, inferenceFaults>>

EndTurn(s) ==
    /\ In(s, "inferring")
    /\ serial' = [serial EXCEPT ![session[s].model] = Unheld]
    /\ Move(s, "unload")
    /\ UNCHANGED <<references, entry, alive, gate, modelLock, leaked, opened, inferenceFaults>>

-----------------------------------------------------------------------------
\* unload

AnyRelease(m) == TRUE                                       \* mutated form
LastReference(m) == references[m] = 1

StillHeld(m) == references[m]                               \* mutated form
LetGo(m) == references[m] - 1

\* A cold model leaves the table and is told to end in the same step in which
\* its last reference goes. A process that died before may refuse the signal:
\* the error skips the notification.
Release(s) ==
    LET m == session[s].model IN
    /\ In(s, "unload")
    /\ modelLock[m] = Unheld
    /\ references' = [references EXCEPT ![m] = LetGo(m)]
    /\ \/ /\ m \in HotModels \/ ~LastReference(m)
          /\ Move(s, "notify")
          /\ UNCHANGED <<entry, alive, modelLock, leaked>>
       \/ /\ m \in MediaModels /\ LastReference(m)
          /\ entry[m] # "none"
          /\ entry' = [entry EXCEPT ![m] = "none"]
          /\ alive' = [alive EXCEPT ![m] = IF Running(m) THEN @ - 1 ELSE @]
          /\ modelLock' = [modelLock EXCEPT ![m] = s]
          /\ Move(s, "stopping")
          /\ UNCHANGED leaked
       \/ /\ m \in MediaModels /\ LastReference(m)
          /\ ~Running(m)
          /\ entry' = [entry EXCEPT ![m] = "none"]
          /\ Move(s, "out")
          /\ leaked' = TRUE
          /\ UNCHANGED <<alive, modelLock>>
    /\ UNCHANGED <<gate, serial, opened, inferenceFaults>>

Reaped(s) ==
    /\ In(s, "stopping")
    /\ modelLock' = [modelLock EXCEPT ![session[s].model] = Unheld]
    /\ Move(s, "notify")
    /\ UNCHANGED <<references, entry, alive, gate, serial, leaked, opened, inferenceFaults>>

NobodyWoken(t) == FALSE                                     \* mutated form
Woken(t) == In(t, "waiting")

\* notify_all: every waiter goes back to the gate and checks again.
NotifyWaiters(s) ==
    /\ In(s, "notify")
    /\ gate = Unheld
    /\ session' = [t \in Sessions |->
                      IF t = s THEN [session[s] EXCEPT !.phase = "out"]
                      ELSE IF Woken(t) THEN [session[t] EXCEPT !.phase = "gate"] ELSE session[t]]
    /\ UNCHANGED <<references, entry, alive, gate, modelLock, serial, leaked, opened, inferenceFaults>>

-----------------------------------------------------------------------------
\* Faults. A start that fails, or a session cancelled where it awaits: the
\* locks it holds are released, a reference it took is not.

Abandon(s) ==
    LET m == session[s].model
        LeaksReference == session[s].phase \in {"boot", "starting", "queued", "inferring", "unload"}
    IN
    /\ ~In(s, "out")
    /\ inferenceFaults < MaxInferenceFaults
    /\ inferenceFaults' = inferenceFaults + 1
    /\ gate' = IF gate = s THEN Unheld ELSE gate
    /\ modelLock' = [modelLock EXCEPT ![m] = IF @ = s THEN Unheld ELSE @]
    /\ serial' = [serial EXCEPT ![m] = IF @ = s THEN Unheld ELSE @]
    /\ leaked' = (leaked \/ LeaksReference \/ session[s].phase \in {"stopping", "notify"})
    /\ Move(s, "out")
    /\ UNCHANGED <<references, entry, alive, opened>>

ProcessDies(m) ==
    /\ Running(m)
    /\ inferenceFaults < MaxInferenceFaults
    /\ inferenceFaults' = inferenceFaults + 1
    /\ entry' = [entry EXCEPT ![m] = "dead"]
    /\ alive' = [alive EXCEPT ![m] = @ - 1]
    /\ UNCHANGED <<references, gate, modelLock, serial, session, leaked, opened>>

-----------------------------------------------------------------------------
InferenceInit ==
    /\ references = [m \in Models |-> 0]
    /\ entry = [m \in Models |-> "none"]
    /\ alive = [m \in Models |-> 0]
    /\ gate = Unheld
    /\ modelLock = [m \in Models |-> Unheld]
    /\ serial = [m \in Models |-> Unheld]
    /\ session = [s \in Sessions |-> [phase |-> "out", model |-> CHOOSE m \in Models : TRUE]]
    /\ leaked = FALSE
    /\ opened = 0 /\ inferenceFaults = 0

SessionStep(s) == \/ PassGate(s) \/ Boot(s) \/ HasStarted(s) \/ TakeTurn(s) \/ EndTurn(s)
                  \/ Release(s) \/ Reaped(s) \/ NotifyWaiters(s)

InferenceNext == \/ \E s \in Sessions : SessionStep(s) \/ Abandon(s) \/ \E m \in Models : OpenSession(s, m)
                 \/ \E m \in Models : ProcessDies(m)

InferenceSpec == /\ InferenceInit /\ [][InferenceNext]_inferenceVars
                 /\ \A s \in Sessions : WF_inferenceVars(SessionStep(s))

-----------------------------------------------------------------------------
\* A session has one phase, a lock one holder that is at the point where the
\* code holds it, and a model that nobody leaked has exactly the references of
\* its sessions.
InferenceTypeOK ==
    /\ references \in [Models -> 0 .. MaxSerialSessions]
    /\ entry \in [Models -> {"none", "live", "dead"}]
    /\ alive \in [Models -> 0 .. MaxSerialSessions]
    /\ gate \in Sessions \cup {Unheld}
    /\ modelLock \in [Models -> Sessions \cup {Unheld}]
    /\ serial \in [Models -> Sessions \cup {Unheld}]
    /\ session \in [Sessions -> [phase : Phases, model : Models]]
    /\ leaked \in BOOLEAN
    /\ ~leaked => \A m \in Models :
          references[m] = Cardinality({s \in Sessions :
              /\ session[s].model = m
              /\ session[s].phase \in {"boot", "starting", "queued", "inferring", "unload"}})

\* While a media model is referenced no hot model is, and no process of a hot
\* model that was neither stopped nor died is left (_has_active_conflict,
\* _evict_idle_hot_models): sessions pass the gate while others boot, infer
\* and let go, and after any crash, failed start or cancellation.
GpuIsExclusive ==
    Referenced(MediaModels) => \A h \in HotModels : references[h] = 0 /\ alive[h] = 0

\* However many sessions load a model at once, and whenever it crashes, one
\* process of it is started (load's double check under the model's lock).
SingleFlight == \A m \in Models : alive[m] = (IF Running(m) THEN 1 ELSE 0)

\* The manager never stops a process while a session infers on it; only a
\* crash takes the process from a session (unload, eviction).
ServedWhileHeld ==
    [][\A m \in Models : entry[m] = "live" /\ entry'[m] = "none" =>
          ~\E s \in Sessions : session[s] = [phase |-> "inferring", model |-> m]]_inferenceVars

\* A session that waits for the GPU is let in once the conflicting sessions
\* have ended, unless a fault lost a reference or a notification.
Queues(s) == In(s, "waiting") /\ ~leaked

WaiterAdmitted == \A s \in Sessions : Queues(s) ~> ~Queues(s)

\* Who may use the GPU, together: kinds of models exclude each other, a model
\* has one process, and a process that serves a session is not stopped.
InferenceSafe ==
    /\ []GpuIsExclusive
    /\ []SingleFlight
    /\ ServedWhileHeld
=============================================================================
