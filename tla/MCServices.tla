----------------------------- MODULE MCServices -----------------------------
(***************************************************************************)
(* Small instances of the services behind a notebook.  As in MCNotebook, a *)
(* behaviour takes the steps of the component in focus.                    *)
(***************************************************************************)
EXTENDS TLC, JobQueue, SourceIndex, Chunking, WebFetch, WebSearch, ResearchRun, Artifacts, Execution,
        Inference, Credentials, BrowserSession

(* Two of whatever acts: requests, workers, fetches, commands.             *)
CONSTANTS a1, a2

VARIABLE focus

servicesVars == <<focus, vars, indexVars, chunkingVars, fetchVars, searchVars, researchVars, artifactVars,
                  execVars, inferenceVars, credentialVars, browserVars>>

ActorSymmetry == Permutations({a1, a2})

-----------------------------------------------------------------------------
(* The job queue where two users share an idempotency key and compete for  *)
(* one slot and two workers, one of which may die holding it (MCJobQueue   *)
(* has one job, and all that happens to it).                               *)
OwnId(w) == w

Request(u, b) == [user |-> u, key |-> "k", body |-> b, priority |-> 0]

Keyed == {Request("u1", "a"), Request("u1", "b"), Request("u2", "a")}

(* A section of two leaves, the second in a list, and a leaf after it;     *)
(* texts of up to six characters.                                          *)
SmallTexts == {<<>>, <<"w">>, <<"w", "_", "w">>, <<"w", "w", "w">>, <<"_", "w", "w", "_">>,
               <<"w", "_", "w", "_", "w", "_">>}

Container(kind, children) == [kind |-> kind, text |-> <<>>, children |-> children]
Leaf(kind, text)          == [kind |-> kind, text |-> text, children |-> <<>>]

SmallLeaves == {Leaf(kind, text) : kind \in Leaves, text \in SmallTexts}

SmallDocuments ==
  {[roots |-> <<1>>,
    nodes |-> <<Container("section", <<2, 6>>), Container("section", <<3, 4>>), l[1],
                Container("list", <<5>>), l[2], l[3]>>] : l \in SmallLeaves \X SmallLeaves \X SmallLeaves}

EmptyDocument == [roots |-> <<>>, nodes |-> <<>>]

(* A host that is admitted and one that is not; answers of one or two      *)
(* addresses, public, private, or one that embeds a private one.           *)
Url(host, admitted, path) == [host |-> host, admitted |-> admitted, path |-> path]

SmallUrls == {Url("a", TRUE, 1), Url("b", TRUE, 1), Url("b", FALSE, 2)}

Public   == [form |-> "plain", blocked |-> FALSE]
Private  == [form |-> "plain", blocked |-> TRUE]
Embedded == [form |-> "embedding", blocked |-> FALSE, innerBlocked |-> TRUE]

SmallAnswers == {<<Public>>, <<Private, Public>>, <<Public, Embedded>>, <<>>}

(* An arbitrary planner that may open no page before a fetch has failed    *)
(* and has no import to spend, the discovery program with one, and a mode  *)
(* the worker has no planner for.                                          *)
Cfg(p, t, a, s, c, i) ==
  [planner |-> p, tools |-> t, approved |-> a, steps |-> s, calls |-> c, imports |-> i]

SmallConfigs == {Cfg("any", {"fetch", "import", "browser"}, {"import"}, 2, 2, 0),
                 Cfg("discovery", {"search", "fetch", "import"}, {"import"}, 5, 3, 1),
                 Cfg("none", {"search"}, {}, 2, 1, 0)}

-----------------------------------------------------------------------------
ServicesInit ==
  /\ focus \in {"queue", "index", "chunking", "fetch", "search", "research", "artifacts",
                 "execution", "inference", "credentials", "browser"}
  /\ QueueInit /\ IndexInit /\ WebFetchInit /\ WebSearchInit /\ ResearchInit /\ ArtifactInit /\ ExecInit
  /\ InferenceInit /\ CredentialsInit /\ BrowserInit
  /\ focus # "fetch" => dns = [h \in Hosts |-> <<>>]
  /\ document \in IF focus = "chunking" THEN Documents ELSE {EmptyDocument}
  /\ NothingDone

ServicesNext ==
  \/ /\ focus = "index" /\ IndexNext
     /\ UNCHANGED <<focus, vars, chunkingVars, fetchVars, searchVars, researchVars,
                  artifactVars, execVars, inferenceVars, credentialVars, browserVars>>
  \/ /\ focus = "research" /\ ResearchNext
     /\ UNCHANGED <<focus, vars, indexVars, chunkingVars, fetchVars, searchVars,
                  artifactVars, execVars, inferenceVars, credentialVars, browserVars>>
  \/ /\ focus = "artifacts" /\ ArtifactNext
     /\ UNCHANGED <<focus, vars, indexVars, chunkingVars, fetchVars, searchVars,
                  researchVars, execVars, inferenceVars, credentialVars, browserVars>>
  \/ /\ focus = "execution" /\ ExecNext
     /\ UNCHANGED <<focus, vars, indexVars, chunkingVars, fetchVars, searchVars,
                  researchVars, artifactVars, inferenceVars, credentialVars, browserVars>>
  \/ /\ focus = "inference" /\ InferenceNext
     /\ UNCHANGED <<focus, vars, indexVars, chunkingVars, fetchVars, searchVars,
                  researchVars, artifactVars, execVars, credentialVars, browserVars>>
  \/ /\ focus = "credentials" /\ CredentialsNext
     /\ UNCHANGED <<focus, vars, indexVars, chunkingVars, fetchVars, searchVars,
                  researchVars, artifactVars, execVars, inferenceVars, browserVars>>
  \/ /\ focus = "chunking" /\ ChunkingNext
     /\ UNCHANGED <<focus, vars, indexVars, fetchVars, searchVars, researchVars,
                  artifactVars, execVars, inferenceVars, credentialVars, browserVars>>
  \/ /\ focus = "fetch" /\ WebFetchNext
     /\ UNCHANGED <<focus, vars, indexVars, chunkingVars, searchVars, researchVars,
                  artifactVars, execVars, inferenceVars, credentialVars, browserVars>>
  \/ /\ focus = "search" /\ WebSearchNext
     /\ UNCHANGED <<focus, vars, indexVars, chunkingVars, fetchVars, researchVars,
                  artifactVars, execVars, inferenceVars, credentialVars, browserVars>>
  \/ /\ focus = "browser" /\ BrowserNext
     /\ UNCHANGED <<focus, vars, indexVars, chunkingVars, fetchVars, searchVars,
                  researchVars, artifactVars, execVars, inferenceVars, credentialVars>>
  \/ /\ focus = "queue" /\ QueueNext
     /\ UNCHANGED <<focus, indexVars, chunkingVars, fetchVars, searchVars, researchVars,
                  artifactVars, execVars, inferenceVars, credentialVars, browserVars>>

ServicesSpec == ServicesInit /\ [][ServicesNext]_servicesVars
=============================================================================
