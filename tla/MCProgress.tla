----------------------------- MODULE MCProgress -----------------------------
(***************************************************************************)
(* What must eventually happen, for the components whose code is driven on *)
(* by workers, requests or threads.  As in MCNotebook, a behaviour takes   *)
(* the steps of the component in focus; each is fair as in its own Spec.   *)
(***************************************************************************)
EXTENDS SourceIngest, SourceIndex, ResearchRun, Artifacts, Execution, Inference, Credentials

CONSTANTS a1, a2, a3

VARIABLE focus

vars == <<focus, ingestVars, indexVars, researchVars, artifactVars, execVars, inferenceVars,
          credentialVars>>

-----------------------------------------------------------------------------
SmallConfigs == {[planner |-> "discovery", tools |-> {"search"}, approved |-> {},
                  steps |-> 1, calls |-> 1, imports |-> 0]}

IngestOnly(A) ==
  /\ focus = "ingest" /\ A
  /\ UNCHANGED <<focus, indexVars, researchVars, artifactVars, execVars, inferenceVars, credentialVars>>

IndexOnly(A) ==
  /\ focus = "index" /\ A
  /\ UNCHANGED <<focus, ingestVars, researchVars, artifactVars, execVars, inferenceVars, credentialVars>>

ResearchOnly(A) ==
  /\ focus = "research" /\ A
  /\ UNCHANGED <<focus, ingestVars, indexVars, artifactVars, execVars, inferenceVars, credentialVars>>

ArtifactsOnly(A) ==
  /\ focus = "artifacts" /\ A
  /\ UNCHANGED <<focus, ingestVars, indexVars, researchVars, execVars, inferenceVars, credentialVars>>

ExecutionOnly(A) ==
  /\ focus = "execution" /\ A
  /\ UNCHANGED <<focus, ingestVars, indexVars, researchVars, artifactVars, inferenceVars, credentialVars>>

InferenceOnly(A) ==
  /\ focus = "inference" /\ A
  /\ UNCHANGED <<focus, ingestVars, indexVars, researchVars, artifactVars, execVars, credentialVars>>

CredentialsOnly(A) ==
  /\ focus = "credentials" /\ A
  /\ UNCHANGED <<focus, ingestVars, indexVars, researchVars, artifactVars, execVars, inferenceVars>>

Init ==
  /\ focus \in {"ingest", "index", "research", "artifacts", "execution", "inference", "credentials"}
  /\ IngestInit /\ IndexInit /\ ResearchInit /\ ArtifactInit /\ ExecInit /\ InferenceInit
  /\ CredentialsInit

Next ==
  \/ IngestOnly(IngestNext) \/ IndexOnly(IndexNext) \/ ResearchOnly(ResearchNext)
  \/ ArtifactsOnly(ArtifactNext) \/ ExecutionOnly(ExecNext) \/ InferenceOnly(InferenceNext)
  \/ CredentialsOnly(CredentialsNext)

(* Weak fairness of every actor, in the role it has in the component in    *)
(* focus: in one behaviour only one of these roles can ever be enabled.    *)
ActorStep(a) ==
  \/ a \in Parsers /\ IngestOnly(ParserStep(a))
  \/ a \in Builders /\ IndexOnly(BuildStep(a))
  \/ a \in Executors /\ ResearchOnly(ExecutorStep(a))
  \/ a \in ArtifactRequests /\ ArtifactsOnly(PassStep(a))
  \/ a \in ExecWorkers /\ ExecutionOnly(BrokerStep(a))
  \/ a \in Sessions /\ InferenceOnly(SessionStep(a))
  \/ a \in Commands /\ CredentialsOnly(CommandStep(a))

Fairness ==
  /\ \A a \in {a1, a2, a3} : WF_vars(ActorStep(a))
  /\ \A c \in Controllers : WF_vars(ResearchOnly(ControlStep(c)))

LiveSpec == Init /\ [][Next]_vars /\ Fairness

-----------------------------------------------------------------------------
(* What a user asked for ends: accepted bytes are parsed, a build is left  *)
(* for ready or failed, a run ends or pauses, a generation settles.        *)
UserWorkEnds ==
  /\ AcceptedIsParsed
  /\ BuildsEnd
  /\ RunningIsLeft
  /\ GenerationSettles

(* Who waits for a shared service is served: a client of the broker, a     *)
(* session at the GPU's gate, a rotation of the keys.                      *)
ServicesAnswer ==
  /\ CallerAnswered
  /\ WaiterAdmitted
  /\ RotationEnds
=============================================================================
