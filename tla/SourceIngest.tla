---------------------------- MODULE SourceIngest ----------------------------
(***************************************************************************)
(* One source of a notebook: acquired from bytes or from a URL, refreshed, *)
(* parsed by the workers, activated, renamed, removed and selected again   *)
(* (application/source_acquisition.py, web_fetch.py and public_video.py,   *)
(* adapters/sources/pg_sources.py and pg_source_activation.py,             *)
(* adapters/parsers/pg_canonical.py, workers/handlers.py,                  *)
(* api/source_*_routes.py).                                                *)
(*                                                                         *)
(* Every action is one transaction.  A fetch, a parse and the enqueueing   *)
(* of a job lie between two of them.  A parse job is handed out again when *)
(* its lease is lost (JobQueue), so two workers may parse one version.     *)
(***************************************************************************)
EXTENDS Naturals, Sequences, FiniteSets

CONSTANTS
  Clients,          \* API requests in progress at a time
  Parsers,          \* workers
  MaxVersions,      \* bound: versions the source may get
  MaxParses,        \* max_attempts of a parse job
  MaxSourceRequests,  \* bound: requests
  MaxIngestFaults     \* bound: deaths, lost leases, exceptions

VARIABLES
  source,      \* the sources row
  sv,          \* source_versions, by version_number, each with its document
  parseJob,    \* the ingestion.parse job of each version
  parser,      \* what each worker does
  client,      \* what each request has read and where it stands
  indexJobs,   \* the ingestion.index jobs: a version and a document
  ingestUsed   \* how much of each bound is used up

ingestVars == <<source, sv, parseJob, parser, client, indexJobs, ingestUsed>>

-----------------------------------------------------------------------------
Availabilities == {"active", "stale", "deleted_tombstoned"}

VersionStatuses == {"activating", "parsing", "parsed", "parse_failed", "active", "inactive"}

NoSource == [exists |-> FALSE, origin |-> "none", availability |-> "active", current |-> 0,
             title |-> 0, revision |-> 0]

IdleParser == [pc |-> "idle", v |-> 0, delivery |-> 0]

IdleClient == [pc |-> "idle", op |-> "none", v |-> 0, title |-> 0, etag |-> 0]

NewVersion(status) == [status |-> status, doc |-> "none"]

(* stranded: nobody will parse the version any more, see Unparsed.         *)
NoJob == [state |-> "none", deliveries |-> 0, stranded |-> FALSE]

Latest == Len(sv)

EligibleForRetrieval == source.exists /\ source.availability \in {"active", "stale"}

(* What changes a source through the API moves its revision, and the etag. *)
Touch(row) == [row EXCEPT !.revision = @ + 1]

Step(c, at) == client' = [client EXCEPT ![c].pc = at]

IngestFault == /\ ingestUsed.faults < MaxIngestFaults
               /\ ingestUsed' = [ingestUsed EXCEPT !.faults = @ + 1]

Reply(c) == client' = [client EXCEPT ![c] = IdleClient]

-----------------------------------------------------------------------------
(* Requests.                                                               *)

Begin(c, op, at) ==
  /\ client[c].pc = "idle"
  /\ ingestUsed.requests < MaxSourceRequests
  /\ ingestUsed' = [ingestUsed EXCEPT !.requests = @ + 1]
  /\ client' = [client EXCEPT ![c] = [IdleClient EXCEPT
       !.pc = at, !.op = op, !.title = source.title, !.etag = source.revision]]
  /\ UNCHANGED <<source, sv, parseJob, parser, indexJobs>>

(* Upload, paste, URL: the bytes went through quarantine and blob store.   *)
BeginAcquire(c) == Begin(c, "acquire", "catalog")

(* The remote address is read, and fetched without any lock.               *)
BeginRefresh(c) == source.exists /\ source.origin = "web" /\ Begin(c, "refresh", "fetch")

BeginRename(c) == source.exists /\ Begin(c, "rename", "rename")

(* PgSourceCatalog.acquire: one origin is one source, by an advisory lock. *)
CatalogAcquire(c) ==
  /\ client[c].pc = "catalog" /\ client[c].op = "acquire"
  /\ IF source.exists
     THEN UNCHANGED <<source, sv, parseJob>>
     ELSE /\ \E origin \in {"web", "bytes"} :
               source' = [NoSource EXCEPT !.exists = TRUE, !.origin = origin]
          /\ sv' = <<NewVersion("activating")>> /\ parseJob' = <<NoJob>>
  /\ client' = [client EXCEPT ![c].pc = "enqueue", ![c].v = Len(sv')]
  /\ UNCHANGED <<parser, indexJobs, ingestUsed>>

(* A public video has no transcript: a version that failed, and no job.    *)
CatalogUnavailable(c) ==
  /\ client[c].pc = "catalog" /\ client[c].op = "acquire" /\ ~source.exists
  /\ source' = [NoSource EXCEPT !.exists = TRUE, !.origin = "video"]
  /\ sv' = <<NewVersion("parse_failed")>> /\ parseJob' = <<NoJob>>
  /\ Reply(c)
  /\ UNCHANGED <<parser, indexJobs, ingestUsed>>

SourceFetched(c) ==
  /\ client[c].pc = "fetch"
  /\ Step(c, "catalog") \/ Step(c, "refused")
  /\ UNCHANGED <<source, sv, parseJob, parser, indexJobs, ingestUsed>>

(* mark_refresh_failed: the availability, whatever it is.                  *)
MarkRefreshFailed(c) ==
  /\ client[c].pc = "refused"
  /\ source' = [source EXCEPT !.availability = "stale"]
  /\ Reply(c)
  /\ UNCHANGED <<sv, parseJob, parser, indexJobs, ingestUsed>>

(* _acquire_refresh, under the lock of the source row.                     *)
CatalogRefresh(c) ==
  /\ client[c].pc = "catalog" /\ client[c].op = "refresh"
  /\ Latest < MaxVersions
  /\ IF source.availability = "deleted_tombstoned"
     THEN Reply(c) /\ UNCHANGED <<sv, parseJob>>
     ELSE /\ sv' = Append(sv, NewVersion("activating")) /\ parseJob' = Append(parseJob, NoJob)
          /\ client' = [client EXCEPT ![c].pc = "enqueue", ![c].v = Len(sv')]
  /\ UNCHANGED <<source, parser, indexJobs, ingestUsed>>

(* _publish_job: the key names the version, so there is one job for it.    *)
PublishJob(c) ==
  /\ client[c].pc = "enqueue"
  /\ parseJob' = [parseJob EXCEPT ![client[c].v].state = IF @ = "none" THEN "queued" ELSE @]
  /\ Reply(c)
  /\ UNCHANGED <<source, sv, parser, indexJobs, ingestUsed>>

RenameUnguarded(c) == TRUE                                \* mutated form
EtagMatches(c) == client[c].etag = source.revision

Rename(c) ==
  /\ client[c].pc = "rename"
  /\ source' = IF EtagMatches(c) THEN Touch([source EXCEPT !.title = @ + 1]) ELSE source
  /\ Reply(c)
  /\ UNCHANGED <<sv, parseJob, parser, indexJobs, ingestUsed>>

SetSelected ==
  /\ source.exists
  /\ ingestUsed.requests < MaxSourceRequests
  /\ ingestUsed' = [ingestUsed EXCEPT !.requests = @ + 1]
  /\ \E availability \in {"active", "deleted_tombstoned"} :
       source' = Touch([source EXCEPT !.availability = availability])
  /\ UNCHANGED <<sv, parseJob, parser, client, indexJobs>>

(* POST /jobs/{id}/cancel of a parse job; nobody tells the worker.         *)
CancelParse(v) ==
  /\ parseJob[v].state \in {"queued", "claimed"}
  /\ ingestUsed.requests < MaxSourceRequests
  /\ ingestUsed' = [ingestUsed EXCEPT !.requests = @ + 1]
  /\ parseJob' = [parseJob EXCEPT ![v].state = "settled",
                                  ![v].stranded = @ \/ parseJob[v].state = "queued"]
  /\ UNCHANGED <<source, sv, parser, client, indexJobs>>

(* A request dies between two transactions.                                *)
ClientDies(c) ==
  /\ client[c].pc # "idle"
  /\ IngestFault
  /\ Reply(c)
  /\ UNCHANGED <<source, sv, parseJob, parser, indexJobs>>

-----------------------------------------------------------------------------
(* Activation: one transaction under the lock of the source row.           *)

KeepPrior(versions, v) == versions                        \* mutated form
DemotePrior(versions, v) ==
  [i \in DOMAIN versions |->
     IF i # v /\ versions[i].status = "active" THEN [versions[i] EXCEPT !.status = "inactive"]
     ELSE versions[i]]

Activatable(v) == v > 0 /\ sv[v].status = "parsed" /\ sv[v].doc # "none"

Activate(c) ==
  /\ client[c].pc = "idle"
  /\ ingestUsed.requests < MaxSourceRequests
  /\ Activatable(Latest)
  /\ ingestUsed' = [ingestUsed EXCEPT !.requests = @ + 1]
  /\ sv' = [DemotePrior(sv, Latest) EXCEPT ![Latest] = [status |-> "active", doc |-> "active"]]
  /\ source' = Touch([source EXCEPT !.current = Latest, !.availability = "active"])
  /\ client' = [client EXCEPT ![c] = [IdleClient EXCEPT !.pc = "view", !.op = "activate"]]
  /\ UNCHANGED <<parseJob, parser, indexJobs>>

(* The route reads the source again: the view is of the latest version.    *)
ViewActivated(c) ==
  /\ client[c].pc = "view"
  /\ client' = [client EXCEPT ![c].pc = "index", ![c].v = Latest]
  /\ UNCHANGED <<source, sv, parseJob, parser, indexJobs, ingestUsed>>

(* active_document_id: an active document of any version of the source,    *)
(* and an index job for it and the version in view, unless that version    *)
(* has one: the key of the job names the version.                          *)
EnqueueIndexJob(c) ==
  /\ client[c].pc = "index"
  /\ \E d \in 1..Latest :
       /\ sv[d].doc = "active"
       /\ indexJobs' = IF \E j \in indexJobs : j.version = client[c].v THEN indexJobs
                        ELSE indexJobs \cup {[version |-> client[c].v, document |-> d]}
  /\ Reply(c)
  /\ UNCHANGED <<source, sv, parseJob, parser, ingestUsed>>

-----------------------------------------------------------------------------
(* The ingestion.parse handler.                                            *)

DeliveredFirst(v) == parseJob[v].state = "queued" /\ parseJob[v].deliveries = 0   \* mutated form
Unfinished(v) == parseJob[v].state = "queued"

(* The claim, the first one or one after a lost lease.                     *)
ClaimParse(p) ==
  /\ parser[p].pc = "idle"
  /\ \E v \in 1..Latest :
       /\ Unfinished(v)
       /\ parseJob' = [parseJob EXCEPT ![v].state = "claimed", ![v].deliveries = @ + 1]
       /\ parser' = [parser EXCEPT ![p] = [pc |-> "mark", v |-> v, delivery |-> parseJob[v].deliveries + 1]]
  /\ UNCHANGED <<source, sv, client, indexJobs, ingestUsed>>

OwnJob(p) == /\ parseJob[parser[p].v].state = "claimed"
             /\ parser[p].delivery = parseJob[parser[p].v].deliveries

(* recover_expired: queued again, or failed after the last attempt.        *)
AfterLease(v) == IF parseJob[v].deliveries < MaxParses THEN "queued" ELSE "settled"

(* The lease runs out while the worker goes on.                            *)
ParseLeaseLost(v) ==
  /\ parseJob[v].state = "claimed" /\ IngestFault
  /\ parseJob' = [parseJob EXCEPT ![v].state = AfterLease(v)]
  /\ UNCHANGED <<source, sv, parser, client, indexJobs>>

MarkParsing(p) ==
  /\ parser[p].pc = "mark"
  /\ sv' = [sv EXCEPT ![parser[p].v].status = "parsing"]
  /\ parser' = [parser EXCEPT ![p].pc = "parse"]
  /\ UNCHANGED <<source, parseJob, client, indexJobs, ingestUsed>>

(* The isolated child returns a document, or fails by content, limit or    *)
(* time.  A document that is there already, even active, stays as it is.   *)
DocumentOnce(doc) == IF doc = "none" THEN "inactive" ELSE doc

Persist(p) ==
  /\ parser[p].pc = "parse"
  /\ sv' = [sv EXCEPT ![parser[p].v] = [status |-> "parsed", doc |-> DocumentOnce(@.doc)]]
  /\ parser' = [parser EXCEPT ![p].pc = "finish"]
  /\ UNCHANGED <<source, parseJob, client, indexJobs, ingestUsed>>

(* persist_failure: a source that serves another version becomes stale.    *)
FailServedVersion(versions, v) ==                         \* mutated form
  [i \in DOMAIN versions |-> IF i = v \/ versions[i].status = "active"
                             THEN [versions[i] EXCEPT !.status = "parse_failed"] ELSE versions[i]]
FailedOutright(versions, v) == [versions EXCEPT ![v].status = "failed"]  \* mutated form
FailVersion(versions, v) == [versions EXCEPT ![v].status = "parse_failed"]

PersistFailure(p) ==
  /\ parser[p].pc = "parse"
  /\ sv' = FailVersion(sv, parser[p].v)
  /\ source' = IF source.current \notin {0, parser[p].v}
               THEN [source EXCEPT !.availability = "stale"] ELSE source
  /\ parser' = [parser EXCEPT ![p].pc = "finish"]
  /\ UNCHANGED <<parseJob, client, indexJobs, ingestUsed>>

(* A delivery is over, with an outcome of the version or without one, and  *)
(* leaves the job in a state.  Without an outcome the version is parsed by *)
(* the next delivery or by none, and a queued job that is settled has no   *)
(* next delivery.                                                          *)
LeaveParse(p, state, outcome) ==
  /\ parseJob' = [parseJob EXCEPT ![parser[p].v].state = state,
       ![parser[p].v].stranded =
         @ \/ (state # "queued" /\ (~outcome \/ parseJob[parser[p].v].state = "queued"))]
  /\ parser' = [parser EXCEPT ![p] = IdleParser]
  /\ UNCHANGED <<source, sv, client, indexJobs>>

(* The loop reads the job again and settles it, whoever holds it by now, a *)
(* queued one only to cancel it for a user who lost the right to it.  Else *)
(* the result is refused: the job has ended, is queued again, or its new   *)
(* holder has not set it running.                                          *)
ParseEnds(p) ==
  (IF parseJob[parser[p].v].state \in {"queued", "claimed"} THEN {"settled"} ELSE {})
    \cup (IF OwnJob(p) THEN {} ELSE {parseJob[parser[p].v].state})

FinishParse(p) ==
  /\ parser[p].pc = "finish"
  /\ \E state \in ParseEnds(p) : LeaveParse(p, state, TRUE)
  /\ UNCHANGED ingestUsed

(* The job is cancelled at dispatch, or has moved, or an exception that no *)
(* handler expects ends it.                                                *)
ParseAbandoned(p) ==
  /\ parser[p].pc \in {"mark", "parse"} /\ IngestFault
  /\ \E state \in ParseEnds(p) : LeaveParse(p, state, FALSE)

(* A worker dies; the lease runs out.                                      *)
ParserDies(p) ==
  /\ parser[p].pc # "idle" /\ IngestFault
  /\ LeaveParse(p, IF OwnJob(p) THEN AfterLease(parser[p].v) ELSE parseJob[parser[p].v].state, FALSE)

-----------------------------------------------------------------------------
IngestInit ==
  /\ source = NoSource /\ sv = <<>> /\ parseJob = <<>>
  /\ parser = [p \in Parsers |-> IdleParser] /\ client = [c \in Clients |-> IdleClient]
  /\ indexJobs = {}
  /\ ingestUsed = [requests |-> 0, faults |-> 0]

ClientStep(c) ==
  \/ CatalogAcquire(c) \/ CatalogUnavailable(c) \/ SourceFetched(c) \/ MarkRefreshFailed(c)
  \/ CatalogRefresh(c) \/ PublishJob(c) \/ Rename(c) \/ ViewActivated(c) \/ EnqueueIndexJob(c)

ParserStep(p) ==
  \/ ClaimParse(p) \/ MarkParsing(p) \/ Persist(p) \/ PersistFailure(p) \/ FinishParse(p)

IngestNext ==
  \/ \E c \in Clients :
       \/ BeginAcquire(c) \/ BeginRefresh(c) \/ BeginRename(c) \/ Activate(c)
       \/ ClientStep(c) \/ ClientDies(c)
  \/ SetSelected
  \/ \E p \in Parsers : ParserStep(p) \/ ParseAbandoned(p) \/ ParserDies(p)
  \/ \E v \in 1..Latest : ParseLeaseLost(v) \/ CancelParse(v)

(* Workers go on unless they die, and jobs are handed out again.           *)
IngestSpec ==
  /\ IngestInit /\ [][IngestNext]_ingestVars
  /\ \A p \in Parsers : WF_ingestVars(ParserStep(p))

-----------------------------------------------------------------------------
(* Properties.                                                             *)

(* Types of the row, its versions and the jobs.                            *)
IngestTypeOK ==
  /\ source.availability \in Availabilities /\ source.current \in 0..Latest
  /\ sv \in Seq([status : VersionStatuses, doc : {"none", "inactive", "active"}])
  /\ DOMAIN parseJob = DOMAIN sv
  /\ \A j \in indexJobs : j.version \in DOMAIN sv /\ j.document \in DOMAIN sv

(* What retrieval serves is the version the source points to, with the     *)
(* document that was activated with it: never two, never an older one      *)
(* ("retrieval uses only the atomic active version").                      *)
ServedIsCurrent ==
  \A v \in DOMAIN sv : sv[v].status = "active" => v = source.current /\ sv[v].doc = "active"

(* A refresh that fails, or is still being parsed, takes nothing away: the *)
(* served version stays until another one is activated, or until its own   *)
(* parse job is handed out again, which the handler does not look at.      *)
RefreshKeepsServing ==
  [][\A v \in DOMAIN sv :
       sv[v].status = "active" /\ sv'[v].status # "active" /\ parseJob[v].deliveries = 1
         => sv'[v].status = "inactive" /\ sv'[source'.current].status = "active"]_ingestVars

(* A rename replaces the title its author saw (If-Match), whatever was     *)
(* done to the source in between.                                          *)
RenameSeesTitle ==
  [][\A c \in Clients :
       client[c].pc = "rename" /\ source'.title # source.title /\ client'[c].pc = "idle"
         => client[c].title = source.title]_ingestVars

(* Bytes that were accepted are parsed to an outcome, once their job is    *)
(* enqueued, unless the job is cancelled while it is queued, or a delivery *)
(* ends without an outcome - it died, raised or was not let run - when its *)
(* job will not be handed out again: it was the last attempt, the job was  *)
(* cancelled under it, or another delivery has settled it or holds it.     *)
Unparsed(v) ==
  /\ Latest >= v /\ sv[v].status \in {"activating", "parsing"}
  /\ parseJob[v].state # "none" /\ ~parseJob[v].stranded

AcceptedIsParsed == \A v \in 1..MaxVersions : Unparsed(v) ~> ~Unparsed(v)

(* What a refresh, a rename and a removal may not do to a source,          *)
(* together: a version of no further use is never served, the served one   *)
(* is taken away by nothing that fails, and no title is replaced unseen.   *)
IngestSafe ==
  /\ []ServedIsCurrent
  /\ RefreshKeepsServing
  /\ RenameSeesTitle
=============================================================================
