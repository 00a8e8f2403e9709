------------------------------ MODULE Artifacts ------------------------------
(***************************************************************************)
(* One studio artifact: its logical row, its immutable versions, and the   *)
(* requests that generate, edit, regenerate, cancel or mark it             *)
(* (application/artifact_lifecycle.py, adapters/artifact_store.py,         *)
(* api/artifact_routes.py).                                                *)
(*                                                                         *)
(* Every action is one transaction of a request, with the decisions taken  *)
(* from what it read.  A generation runs inside the request, so a request  *)
(* that raises or dies leaves the row where it is.                         *)
(***************************************************************************)
EXTENDS Naturals, Sequences, FiniteSets

CONSTANTS
  ArtifactRequests,    \* requests in progress at a time
  MaxArtifactRequests, \* bound: requests accepted
  MaxArtifactDeaths    \* bound: requests that die or raise

VARIABLES
  artifact,       \* the artifacts row
  versions,       \* artifact_versions, in version_number order
  pass,           \* what each request has read and where it stands
  abandoned,      \* a generation ended without settling the row
  artifactUsed    \* how much of each bound is used up

artifactVars == <<artifact, versions, pass, abandoned, artifactUsed>>

-----------------------------------------------------------------------------
ArtifactStatuses ==
  {"draft", "generating", "validating", "ready", "failed", "cancelled", "out_of_date"}

EndedArtifactStates == {"failed", "cancelled"}

ArtifactTransitions ==
  ({"draft"} \X {"generating", "cancelled"})
  \cup ({"generating"} \X {"validating", "failed", "cancelled"})
  \cup ({"validating"} \X {"ready", "failed", "cancelled"})
  \cup ({"ready"} \X {"generating", "out_of_date"})
  \cup {<<"out_of_date", "generating">>}

FailureOfGenerating(from, to) ==                          \* mutated form
  <<from, to>> \in ArtifactTransitions \ {<<"validating", "failed">>}
ArtifactTransitionAllowed(from, to) == <<from, to>> \in ArtifactTransitions

(* A request: what it does, the row it read, the version it builds on, the *)
(* number it gives to the version it publishes.                            *)
IdlePass == [pc |-> "idle", op |-> "none", status |-> "none", base |-> 0, n |-> 0]

GeneratingOps == {"generate", "edit", "regenerate"}

(* Between the step to generating and the step to ready.                   *)
InPass(r) ==
  pass[r].pc \in {"freeze", "validate", "produce", "render", "number", "insert", "ready"}

(* cas_status: one UPDATE guarded by the expected status; every success    *)
(* moves the revision, and the etag with it.                               *)
CasArtifactUnguarded(expected, target, current) ==        \* mutated form
  artifact' = [status |-> target, current |-> current, revision |-> artifact.revision + 1]
CasArtifact(expected, target, current) ==
  artifact' = IF artifact.status = expected
              THEN [status |-> target, current |-> current, revision |-> artifact.revision + 1]
              ELSE artifact

Proceed(r, at) == pass' = [pass EXCEPT ![r].pc = at]

Answer(r) == pass' = [pass EXCEPT ![r] = IdlePass]

-----------------------------------------------------------------------------
(* The routes: the row is read, the request is checked against it.         *)

(* What a request may ask of the row it finds, and the version it names:   *)
(* an edit the current one, under an etag that must be the row's; a        *)
(* regeneration any number, also one that does not exist.                  *)
AdmitsAlsoCancelled(op, base) ==                          \* mutated form
  IF op = "regenerate" THEN artifact.status \in {"ready", "cancelled"} /\ base > 0
  ELSE artifact.status = (IF op = "generate" THEN "draft" ELSE "generating") /\ base = 0
Admits(op, base) ==
  \/ op = "generate" /\ artifact.status = "draft" /\ base = 0
  \/ op = "edit" /\ artifact.status \in {"ready", "out_of_date"} /\ base = artifact.current
  \/ op = "regenerate" /\ artifact.status \in {"ready", "out_of_date"} /\ base > 0
  \/ op = "cancel" /\ ArtifactTransitionAllowed(artifact.status, "cancelled") /\ base = 0
  \/ op = "outdate" /\ ArtifactTransitionAllowed(artifact.status, "out_of_date") /\ base = 0

BeginArtifactRequest(r) ==
  /\ pass[r].pc = "idle"
  /\ artifactUsed.requests < MaxArtifactRequests
  /\ artifactUsed' = [artifactUsed EXCEPT !.requests = @ + 1]
  /\ \E op \in GeneratingOps \cup {"cancel", "outdate"}, base \in 0..(Len(versions) + 1) :
       /\ Admits(op, base)
       /\ pass' = [pass EXCEPT ![r] =
            [pc |-> IF op \in GeneratingOps THEN "enter" ELSE "mark",
             op |-> op, status |-> artifact.status, base |-> base, n |-> 0]]
  /\ UNCHANGED <<artifact, versions, abandoned>>

(* GenerateArtifact, EditArtifact, RegenerateArtifact: the swap compares   *)
(* the status that was read, not the etag.                                 *)
EnterRegardless(r) ==                                     \* mutated form
  /\ pass[r].pc = "enter"
  /\ CasArtifact(pass[r].status, "generating", artifact.current)
  /\ Proceed(r, "freeze")
  /\ UNCHANGED <<versions, abandoned, artifactUsed>>
EnterGenerating(r) ==
  /\ pass[r].pc = "enter"
  /\ CasArtifact(pass[r].status, "generating", artifact.current)
  /\ IF artifact.status = pass[r].status THEN Proceed(r, "freeze") ELSE Answer(r)
  /\ UNCHANGED <<versions, abandoned, artifactUsed>>

(* CancelArtifact and MarkOutOfDate.                                       *)
MarkArtifact(r) ==
  /\ pass[r].pc = "mark"
  /\ CasArtifact(pass[r].status, IF pass[r].op = "cancel" THEN "cancelled" ELSE "out_of_date",
                 artifact.current)
  /\ Answer(r)
  /\ UNCHANGED <<versions, abandoned, artifactUsed>>

-----------------------------------------------------------------------------
(* _GenerationPipeline.run.                                                *)

(* The parent manifest is that of the base version; a base that does not   *)
(* exist raises, and nothing takes the row out of generating.              *)
BaseExists(r) == pass[r].base <= Len(versions)

FreezeInputs(r) ==
  /\ pass[r].pc = "freeze"
  /\ IF BaseExists(r)
     THEN Proceed(r, "validate") /\ UNCHANGED abandoned
     ELSE Answer(r) /\ abandoned' = TRUE
  /\ UNCHANGED <<artifact, versions, artifactUsed>>

(* The result of this swap is not looked at.                               *)
EnterValidating(r) ==
  /\ pass[r].pc = "validate"
  /\ CasArtifact("generating", "validating", artifact.current)
  /\ Proceed(r, "produce")
  /\ UNCHANGED <<versions, abandoned, artifactUsed>>

(* The recipe: content, or problems that refuse it.                        *)
ProduceContent(r) ==
  /\ pass[r].pc = "produce"
  /\ Proceed(r, "render") \/ Proceed(r, "settle")
  /\ UNCHANGED <<artifact, versions, abandoned, artifactUsed>>

StoreRenditions(r) ==
  /\ pass[r].pc = "render"
  /\ Proceed(r, "number")
  /\ UNCHANGED <<artifact, versions, abandoned, artifactUsed>>

NextVersionNumber == Len(versions) + 1

NumberVersion(r) ==
  /\ pass[r].pc = "number"
  /\ pass' = [pass EXCEPT ![r].pc = "insert", ![r].n = NextVersionNumber]
  /\ UNCHANGED <<artifact, versions, abandoned, artifactUsed>>

(* create_version; a number that is taken violates the unique constraint.  *)
InsertVersion(r) ==
  /\ pass[r].pc = "insert"
  /\ IF pass[r].n = Len(versions) + 1
     THEN /\ versions' = Append(versions, [op |-> pass[r].op, base |-> pass[r].base])
          /\ Proceed(r, "ready") /\ UNCHANGED abandoned
     ELSE /\ Answer(r) /\ abandoned' = TRUE /\ UNCHANGED versions
  /\ UNCHANGED <<artifact, artifactUsed>>

EnterReadyKeeping(r) ==                                   \* mutated form
  /\ pass[r].pc = "ready"
  /\ CasArtifact("validating", "ready", artifact.current)
  /\ IF artifact.status = "validating" THEN Answer(r) ELSE Proceed(r, "settle")
  /\ UNCHANGED <<versions, abandoned, artifactUsed>>
EnterReady(r) ==
  /\ pass[r].pc = "ready"
  /\ CasArtifact("validating", "ready", pass[r].n)
  /\ IF artifact.status = "validating" THEN Answer(r) ELSE Proceed(r, "settle")
  /\ UNCHANGED <<versions, abandoned, artifactUsed>>

(* _mark_failed: read the row, then one swap from the status it found.     *)
ReadForFailure(r) ==
  /\ pass[r].pc = "settle"
  /\ IF ArtifactTransitionAllowed(artifact.status, "failed")
     THEN pass' = [pass EXCEPT ![r].pc = "fail", ![r].status = artifact.status]
     ELSE Answer(r)
  /\ UNCHANGED <<artifact, versions, abandoned, artifactUsed>>

MarkFailed(r) ==
  /\ pass[r].pc = "fail"
  /\ CasArtifact(pass[r].status, "failed", artifact.current)
  /\ Answer(r)
  /\ UNCHANGED <<versions, abandoned, artifactUsed>>

(* The process dies, or a step raises what no handler names: a blob that   *)
(* cannot be stored, a lost connection.                                    *)
RequestBreaks(r) ==
  /\ pass[r].pc # "idle"
  /\ artifactUsed.deaths < MaxArtifactDeaths
  /\ artifactUsed' = [artifactUsed EXCEPT !.deaths = @ + 1]
  /\ Answer(r)
  /\ abandoned' = (abandoned \/ InPass(r) \/ pass[r].pc \in {"settle", "fail"})
  /\ UNCHANGED <<artifact, versions>>

-----------------------------------------------------------------------------
ArtifactInit ==
  /\ artifact = [status |-> "draft", current |-> 0, revision |-> 0]
  /\ versions = <<>>
  /\ pass = [r \in ArtifactRequests |-> IdlePass]
  /\ abandoned = FALSE
  /\ artifactUsed = [requests |-> 0, deaths |-> 0]

PassStep(r) ==
  \/ EnterGenerating(r) \/ MarkArtifact(r) \/ FreezeInputs(r) \/ EnterValidating(r)
  \/ ProduceContent(r) \/ StoreRenditions(r) \/ NumberVersion(r) \/ InsertVersion(r)
  \/ EnterReady(r) \/ ReadForFailure(r) \/ MarkFailed(r)

ArtifactNext == \E r \in ArtifactRequests : BeginArtifactRequest(r) \/ PassStep(r) \/ RequestBreaks(r)

(* A request goes on unless it breaks.                                     *)
ArtifactSpec ==
  /\ ArtifactInit /\ [][ArtifactNext]_artifactVars
  /\ \A r \in ArtifactRequests : WF_artifactVars(PassStep(r))

-----------------------------------------------------------------------------
(* Properties.                                                             *)

(* Types of the row, the versions and the requests; the version that one   *)
(* builds on is older than it.                                             *)
ArtifactTypeOK ==
  /\ artifact.status \in ArtifactStatuses
  /\ artifact.current \in 0..Len(versions) /\ artifact.revision \in Nat
  /\ \A i \in DOMAIN versions : versions[i].base < i
  /\ \A r \in ArtifactRequests : pass[r].status \in ArtifactStatuses \cup {"none"}

(* The status is the only lock there is: two generations of one artifact   *)
(* never run at the same time, so none reads a version number the other    *)
(* is about to take.                                                       *)
OnePassAtATime ==
  \A r, q \in ArtifactRequests : InPass(r) /\ InPass(q) => r = q

(* An artifact that can be shown shows the last version published: none    *)
(* that a broken or cancelled generation left behind is skipped over.      *)
ReadyShowsNewest ==
  artifact.status \in {"ready", "out_of_date"} => artifact.current = Len(versions)

(* A failed or cancelled artifact stays as it is, against generations that *)
(* still run and whose own failure is marked from a row read before.       *)
EndedArtifactIsFinal ==
  [][artifact.status \in EndedArtifactStates => artifact' = artifact]_artifact

(* What a cancel does not stop: the generation that was under way may      *)
(* publish its version, and then no other does.                            *)
CancelledGainsOne ==
  [][artifact.status = "cancelled" /\ versions' # versions
       => artifact.current + 1 = Len(versions')]_versions

(* A generation ends with a row that is not generating or validating,      *)
(* unless the request broke or the base version did not exist.             *)
Unsettled == artifact.status \in {"generating", "validating"} /\ ~abandoned

GenerationSettles == Unsettled ~> ~Unsettled

(* One generation at a time, and what can be shown is the newest version.  *)
ArtifactSafe ==
  /\ OnePassAtATime
  /\ ReadyShowsNewest

(* How a generation that is over stays over, together: the row of an ended *)
(* artifact is final, and a cancelled one gains one version at most.       *)
ArtifactEnds ==
  /\ EndedArtifactIsFinal
  /\ CancelledGainsOne
=============================================================================
