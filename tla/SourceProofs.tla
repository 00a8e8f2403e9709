---------------------------- MODULE SourceProofs -----------------------------
(***************************************************************************)
(* One source keeps what IngestSafe promises, for any number of versions,  *)
(* requests, workers and deaths of either, the builds of one of its        *)
(* versions what IndexSafe promises to retrieval, for any number of        *)
(* embedding spaces, workers and chunks, and the chunks of one of its      *)
(* documents what ChunkingSafe promises, for any document and budget.      *)
(***************************************************************************)
EXTENDS SourceIngest, SourceIndex, Chunking, FiniteSetTheorems, SequenceTheorems, WellFoundedInduction, TLAPS

Rows     == [exists : BOOLEAN, origin : {"none", "web", "bytes", "video"}, availability : Availabilities,
             current : Nat, title : Nat, revision : Nat]
Versions == [status : VersionStatuses, doc : {"none", "inactive", "active"}]
Jobs     == [state : {"none", "queued", "claimed", "settled"}, deliveries : Nat, stranded : BOOLEAN]
Parsings == [pc : {"idle", "mark", "parse", "finish"}, v : Nat, delivery : Nat]
Requests == [pc : {"idle", "catalog", "enqueue", "fetch", "refused", "rename", "view", "index"},
             op : {"none", "acquire", "refresh", "rename", "activate"}, v : Nat, title : Nat, etag : Nat]

IngestTypes ==
  /\ source \in Rows
  /\ sv \in Seq(Versions) /\ parseJob \in Seq(Jobs) /\ Len(parseJob) = Len(sv)
  /\ parser \in [Parsers -> Parsings]
  /\ client \in [Clients -> Requests]

(* A source that is not there yet has no version, was never touched, and   *)
(* is refreshed by nobody.                                                 *)
NothingYet ==
  ~source.exists => /\ Len(sv) = 0 /\ source.title = 0 /\ source.revision = 0
                    /\ \A c \in Clients : client[c].op # "refresh"

Parsing(p) == parser[p].pc # "idle"

(* A worker parses a version that is there, by a delivery of its own.      *)
OwnParses ==
  /\ \A p \in Parsers : Parsing(p) =>
       parser[p].v \in 1..Len(sv) /\ parser[p].delivery \in 1..parseJob[parser[p].v].deliveries
  /\ \A p, q \in Parsers :
       Parsing(p) /\ Parsing(q) /\ parser[p].v = parser[q].v /\ parser[p].delivery = parser[q].delivery => p = q

(* No document comes before the first delivery has persisted one.          *)
DocumentsAreParsed ==
  /\ \A v \in 1..Len(sv) : parseJob[v].deliveries = 0 => sv[v].doc = "none"
  /\ \A p \in Parsers :
       parser[p].pc \in {"mark", "parse"} /\ parseJob[parser[p].v].deliveries = 1 => sv[parser[p].v].doc = "none"

(* A title changes with the revision, so an ETag that is current saw it.   *)
EtagsSawTitles ==
  \A c \in Clients : client[c].pc = "rename" =>
    source.exists /\ client[c].etag <= source.revision
    /\ (client[c].etag = source.revision => client[c].title = source.title)

IngestInv ==
  IngestTypes /\ NothingYet /\ OwnParses /\ DocumentsAreParsed /\ ServedIsCurrent /\ EtagsSawTitles

-----------------------------------------------------------------------------
LEMMA IngestInitInv == IngestInit => IngestInv
<1> SUFFICES ASSUME IngestInit PROVE IngestInv
  OBVIOUS
<1>1. IngestTypes
  BY DEF IngestInit, IngestTypes, Rows, Parsings, Requests, NoSource, IdleParser, IdleClient, Availabilities
<1>2. NothingYet /\ OwnParses /\ DocumentsAreParsed /\ ServedIsCurrent /\ EtagsSawTitles
  BY DEF IngestInit, NothingYet, OwnParses, Parsing, DocumentsAreParsed, ServedIsCurrent, EtagsSawTitles,
         NoSource, IdleParser, IdleClient
<1> QED BY <1>1, <1>2 DEF IngestInv

(* What the requests do to the row: the title stays, or the revision moves *)
(* past every ETag; and the clients: none, or one that has read just now.  *)
RowMoves ==
  /\ source' \in Rows
  /\ source.exists => source'.exists
  /\ \/ source'.revision = source.revision /\ source'.title = source.title
     \/ source'.revision = source.revision + 1

ClientsMove ==
  /\ client' \in [Clients -> Requests]
  /\ \A c \in Clients : client'[c].op = "refresh" => client[c].op = "refresh" \/ source.exists
  /\ \A c \in Clients : client'[c].pc = "rename" =>
       \/ /\ client[c].pc = "rename" /\ client'[c].etag = client[c].etag /\ client'[c].title = client[c].title
       \/ /\ source.exists /\ client'[c].etag = source.revision /\ client'[c].title = source.title
          /\ source'.revision = source.revision /\ source'.title = source.title

LEMMA EtagsKept ==
  ASSUME IngestInv, RowMoves, ClientsMove
  PROVE  EtagsSawTitles'
<1>1. source.revision \in Nat /\ source'.revision \in Nat
  BY DEF IngestInv, IngestTypes, RowMoves, Rows
<1> SUFFICES ASSUME NEW c \in Clients, client'[c].pc = "rename"
             PROVE  /\ source'.exists /\ client'[c].etag <= source'.revision
                    /\ (client'[c].etag = source'.revision => client'[c].title = source'.title)
  BY DEF EtagsSawTitles
<1>2. client'[c].etag \in Nat
  BY DEF ClientsMove, Requests
<1> QED BY <1>1, <1>2 DEF IngestInv, EtagsSawTitles, RowMoves, ClientsMove

(* One request moves on, with an ETag it had or has just read.             *)
LEMMA ClientMoves ==
  ASSUME IngestInv, NEW c \in Clients, NEW new \in Requests, client' = [client EXCEPT ![c] = new],
         new.op = "refresh" => client[c].op = "refresh" \/ source.exists,
         new.pc = "rename" =>
           \/ /\ client[c].pc = "rename" /\ new.etag = client[c].etag /\ new.title = client[c].title
           \/ /\ source.exists /\ new.etag = source.revision /\ new.title = source.title
              /\ source'.revision = source.revision /\ source'.title = source.title
  PROVE  ClientsMove
<1>1. client'[c] = new /\ (\A d \in Clients : d # c => client'[d] = client[d]) /\ client' \in [Clients -> Requests]
  BY DEF IngestInv, IngestTypes
<1> QED BY <1>1 DEF ClientsMove

LEMMA IdleRequest == IdleClient \in Requests /\ IdleClient.pc = "idle" /\ IdleClient.op = "none"
BY DEF IdleClient, Requests

LEMMA ReplyMoves ==
  ASSUME IngestInv, NEW c \in Clients, Reply(c)
  PROVE  ClientsMove
BY IdleRequest, ClientMoves DEF Reply

LEMMA StepMoves ==
  ASSUME IngestInv, NEW c \in Clients, NEW at \in {"catalog", "refused", "enqueue", "index"},
         NEW v \in Nat, client' = [client EXCEPT ![c].pc = at, ![c].v = v]
  PROVE  ClientsMove
<1> DEFINE new == [client[c] EXCEPT !.pc = at, !.v = v]
<1>1. client \in [Clients -> Requests] /\ client[c] \in Requests
  BY DEF IngestInv, IngestTypes
<1>2. client' = [client EXCEPT ![c] = new]
  BY <1>1
<1>3. new \in Requests /\ new.pc # "rename" /\ new.op = client[c].op
  BY <1>1 DEF Requests
<1> HIDE DEF new
<1> QED BY <1>2, <1>3, ClientMoves

(* The requests that leave the versions, the jobs and the workers alone.   *)
LEMMA RowKeepsInv ==
  ASSUME IngestInv, UNCHANGED <<sv, parseJob, parser>>, RowMoves, ClientsMove,
         source'.current = source.current,
         ~source'.exists => source'.title = 0 /\ source'.revision = 0
  PROVE  IngestInv'
<1>1. IngestTypes'
  BY DEF IngestInv, IngestTypes, RowMoves, ClientsMove
<1>2. NothingYet'
  BY DEF IngestInv, NothingYet, RowMoves, ClientsMove
<1>3. OwnParses' /\ DocumentsAreParsed' /\ ServedIsCurrent'
  BY DEF IngestInv, OwnParses, Parsing, DocumentsAreParsed, ServedIsCurrent
<1> QED BY <1>1, <1>2, <1>3, EtagsKept DEF IngestInv

LEMMA SameRow ==
  ASSUME IngestInv, UNCHANGED source
  PROVE  RowMoves /\ source'.current = source.current
         /\ (~source'.exists => source'.title = 0 /\ source'.revision = 0)
BY DEF IngestInv, IngestTypes, RowMoves, NothingYet

LEMMA RequestsKeepInv ==
  ASSUME IngestInv, NEW c \in Clients,
         \/ BeginAcquire(c) \/ BeginRefresh(c) \/ BeginRename(c) \/ SourceFetched(c) \/ MarkRefreshFailed(c)
         \/ Rename(c) \/ ViewActivated(c) \/ EnqueueIndexJob(c) \/ ClientDies(c)
  PROVE  IngestInv'
<1>0. /\ source \in Rows /\ client \in [Clients -> Requests] /\ client[c] \in Requests
      /\ sv \in Seq(Versions) /\ Len(sv) \in Nat
  BY DEF IngestInv, IngestTypes
<1>1. ASSUME NEW op \in {"acquire", "refresh", "rename"}, NEW at \in {"catalog", "fetch", "rename"}, Begin(c, op, at),
             at = "rename" \/ op = "refresh" => source.exists
      PROVE  IngestInv'
  <2> DEFINE new == [IdleClient EXCEPT !.pc = at, !.op = op, !.title = source.title, !.etag = source.revision]
  <2>1. client' = [client EXCEPT ![c] = new] /\ UNCHANGED <<source, sv, parseJob, parser>>
    BY <1>1 DEF Begin
  <2>2. new \in Requests /\ new.pc = at /\ new.op = op /\ new.etag = source.revision /\ new.title = source.title
    BY <1>0 DEF Requests, IdleClient, Rows
  <2> HIDE DEF new
  <2>3. ClientsMove
    BY <1>1, <2>1, <2>2, ClientMoves
  <2> QED BY <2>1, <2>3, SameRow, RowKeepsInv
<1>2. CASE SourceFetched(c)
  <2>1. PICK at \in {"catalog", "refused"} : client' = [client EXCEPT ![c].pc = at]
    BY <1>2 DEF SourceFetched, Step
  <2>2. client' = [client EXCEPT ![c].pc = at, ![c].v = client[c].v] /\ client[c].v \in Nat
    BY <1>0, <2>1 DEF Requests
  <2>3. ClientsMove
    BY <2>2, StepMoves
  <2> QED BY <1>2, <2>3, SameRow, RowKeepsInv DEF SourceFetched
<1>3. CASE MarkRefreshFailed(c)
  <2>1. source' = [source EXCEPT !.availability = "stale"] /\ UNCHANGED <<sv, parseJob, parser>> /\ Reply(c)
    BY <1>3 DEF MarkRefreshFailed
  <2>2. /\ source' \in Rows /\ source'.exists = source.exists /\ source'.current = source.current
        /\ source'.title = source.title /\ source'.revision = source.revision
    BY <1>0, <2>1 DEF Rows, Availabilities
  <2>3. RowMoves /\ (~source'.exists => source'.title = 0 /\ source'.revision = 0)
    BY <2>2 DEF RowMoves, IngestInv, NothingYet
  <2> QED BY <2>1, <2>2, <2>3, ReplyMoves, RowKeepsInv
<1>4. CASE Rename(c)
  <2>1. UNCHANGED <<sv, parseJob, parser>> /\ Reply(c)
    BY <1>4 DEF Rename
  <2>2. CASE UNCHANGED source
    BY <2>1, <2>2, ReplyMoves, SameRow, RowKeepsInv
  <2>3. CASE ~UNCHANGED source
    <3> DEFINE named == [source EXCEPT !.title = @ + 1]
    <3>1. source' = [named EXCEPT !.revision = @ + 1]
      BY <1>4, <2>3 DEF Rename, Touch
    <3>a. /\ named \in Rows /\ named.exists = source.exists /\ named.current = source.current
          /\ named.revision = source.revision
      BY <1>0 DEF Rows
    <3> HIDE DEF named
    <3>2. /\ source' \in Rows /\ source'.exists = source.exists /\ source'.current = source.current
          /\ source'.revision = source.revision + 1
      BY <3>1, <3>a DEF Rows
    <3>3. client[c].pc = "rename"
      BY <1>4 DEF Rename
    <3>4. source.exists
      BY <3>3 DEF IngestInv, EtagsSawTitles
    <3>5. RowMoves
      BY <3>2, <3>4 DEF RowMoves
    <3> QED BY <2>1, <3>2, <3>4, <3>5, ReplyMoves, RowKeepsInv
  <2> QED BY <2>2, <2>3
<1>5. CASE ViewActivated(c)
  <2>1. client' = [client EXCEPT ![c].pc = "index", ![c].v = Len(sv)] /\ UNCHANGED <<source, sv, parseJob, parser>>
    BY <1>5 DEF ViewActivated, Latest
  <2> QED BY <1>0, <2>1, StepMoves, SameRow, RowKeepsInv
<1>6. CASE EnqueueIndexJob(c) \/ ClientDies(c)
  <2>1. Reply(c) /\ UNCHANGED <<source, sv, parseJob, parser>>
    BY <1>6 DEF EnqueueIndexJob, ClientDies
  <2> QED BY <2>1, ReplyMoves, SameRow, RowKeepsInv
<1> QED BY <1>1, <1>2, <1>3, <1>4, <1>5, <1>6 DEF BeginAcquire, BeginRefresh, BeginRename

-----------------------------------------------------------------------------
LEMMA TouchedRow ==
  ASSUME NEW row \in Rows
  PROVE  /\ Touch(row) \in Rows /\ Touch(row).exists = row.exists /\ Touch(row).current = row.current
         /\ Touch(row).title = row.title /\ Touch(row).revision = row.revision + 1
BY DEF Touch, Rows

LEMMA SelectKeepsInv ==
  ASSUME IngestInv, SetSelected
  PROVE  IngestInv'
<1>0. source \in Rows /\ source.exists /\ UNCHANGED <<sv, parseJob, parser, client>>
  BY DEF SetSelected, IngestInv, IngestTypes
<1>1. PICK a \in {"active", "deleted_tombstoned"} : source' = Touch([source EXCEPT !.availability = a])
  BY DEF SetSelected
<1> DEFINE row == [source EXCEPT !.availability = a]
<1>2. row \in Rows /\ row.exists = source.exists /\ row.current = source.current /\ row.revision = source.revision
  BY <1>0 DEF Rows, Availabilities
<1> HIDE DEF row
<1>3. source' \in Rows /\ source'.exists /\ source'.current = source.current
      /\ source'.revision = source.revision + 1
  BY <1>0, <1>1, <1>2, TouchedRow DEF row
<1>4. RowMoves /\ ClientsMove
  BY <1>0, <1>3 DEF RowMoves, ClientsMove, IngestInv, IngestTypes
<1> QED BY <1>0, <1>3, <1>4, RowKeepsInv

(* A new version, behind those that are there.                             *)
LEMMA AppendedKeepsInv ==
  ASSUME IngestInv, NEW status \in VersionStatuses \ {"active"}, RowMoves, ClientsMove,
         source'.current = source.current, source'.exists,
         sv' = Append(sv, NewVersion(status)), parseJob' = Append(parseJob, NoJob), UNCHANGED parser
  PROVE  IngestInv'
<1>0. sv \in Seq(Versions) /\ parseJob \in Seq(Jobs) /\ Len(parseJob) = Len(sv) /\ Len(sv) \in Nat
  BY DEF IngestInv, IngestTypes
<1>1. NewVersion(status) \in Versions /\ NewVersion(status).status # "active" /\ NewVersion(status).doc = "none"
      /\ NoJob \in Jobs
  BY DEF NewVersion, Versions, NoJob, Jobs
<1>2. /\ sv' \in Seq(Versions) /\ parseJob' \in Seq(Jobs) /\ Len(sv') = Len(sv) + 1 /\ Len(parseJob') = Len(sv')
      /\ \A v \in 1..Len(sv) : sv'[v] = sv[v] /\ parseJob'[v] = parseJob[v]
      /\ sv'[Len(sv) + 1] = NewVersion(status)
  BY <1>0, <1>1
<1>3. IngestTypes' /\ NothingYet'
  BY <1>2 DEF IngestInv, IngestTypes, RowMoves, ClientsMove, NothingYet
<1>4. OwnParses'
  BY <1>0, <1>2 DEF IngestInv, OwnParses, Parsing
<1>5. DocumentsAreParsed'
  <2>1. \A v \in 1..Len(sv') : parseJob'[v].deliveries = 0 => sv'[v].doc = "none"
    BY <1>0, <1>1, <1>2 DEF IngestInv, DocumentsAreParsed
  <2>2. \A p \in Parsers : parser[p].pc \in {"mark", "parse"} => parser[p].v \in 1..Len(sv)
    BY DEF IngestInv, OwnParses, Parsing
  <2> QED BY <1>2, <2>1, <2>2 DEF IngestInv, DocumentsAreParsed
<1>6. ServedIsCurrent'
  BY <1>0, <1>1, <1>2 DEF IngestInv, ServedIsCurrent
<1> QED BY <1>3, <1>4, <1>5, <1>6, EtagsKept DEF IngestInv

LEMMA CatalogKeepsInv ==
  ASSUME IngestInv, NEW c \in Clients, CatalogAcquire(c) \/ CatalogUnavailable(c) \/ CatalogRefresh(c)
  PROVE  IngestInv'
<1>0. /\ source \in Rows /\ client \in [Clients -> Requests] /\ client[c] \in Requests
      /\ sv \in Seq(Versions) /\ parseJob \in Seq(Jobs) /\ Len(parseJob) = Len(sv)
  BY DEF IngestInv, IngestTypes
<1>1. ASSUME ~source.exists, NEW origin \in {"web", "bytes", "video"},
             source' = [NoSource EXCEPT !.exists = TRUE, !.origin = origin]
      PROVE  /\ RowMoves /\ source'.exists
             /\ source'.current = source.current \/ Len(sv) = 0
             /\ source'.current \in Nat
  BY <1>0, <1>1 DEF RowMoves, Rows, NoSource, Availabilities, IngestInv, NothingYet
<1>2. ASSUME ~source.exists
      PROVE  sv = <<>> /\ parseJob = <<>> /\ \A p \in Parsers : ~Parsing(p)
  BY <1>0, <1>2 DEF IngestInv, NothingYet, OwnParses
<1>3. ASSUME ~source.exists, NEW origin \in {"web", "bytes", "video"}, NEW status \in VersionStatuses \ {"active"},
             source' = [NoSource EXCEPT !.exists = TRUE, !.origin = origin], ClientsMove,
             sv' = <<NewVersion(status)>>, parseJob' = <<NoJob>>, UNCHANGED parser
      PROVE  IngestInv'
  <2>1. NewVersion(status) \in Versions /\ NewVersion(status).status # "active" /\ NewVersion(status).doc = "none"
        /\ NoJob \in Jobs
    BY DEF NewVersion, Versions, NoJob, Jobs
  <2>2. RowMoves /\ source'.exists /\ sv = <<>> /\ \A p \in Parsers : ~Parsing(p)
    BY <1>1, <1>2, <1>3
  <2>3. IngestTypes' /\ NothingYet'
    BY <1>0, <1>3, <2>1, <2>2 DEF IngestInv, IngestTypes, RowMoves, ClientsMove, NothingYet
  <2>4. OwnParses' /\ DocumentsAreParsed'
    BY <1>3, <2>1, <2>2 DEF OwnParses, Parsing, DocumentsAreParsed
  <2>5. ServedIsCurrent'
    BY <1>3, <2>1 DEF ServedIsCurrent
  <2> QED BY <1>3, <2>2, <2>3, <2>4, <2>5, EtagsKept DEF IngestInv
<1>4. CASE CatalogAcquire(c)
  <2>1. client' = [client EXCEPT ![c].pc = "enqueue", ![c].v = Len(sv')] /\ UNCHANGED parser
    BY <1>4 DEF CatalogAcquire
  <2>2. CASE source.exists
    <3>1. UNCHANGED <<source, sv, parseJob>>
      BY <1>4, <2>2 DEF CatalogAcquire
    <3>2. Len(sv') \in Nat
      BY <1>0, <3>1
    <3>3. ClientsMove
      BY <2>1, <3>2, StepMoves
    <3> QED BY <2>1, <3>1, <3>3, SameRow, RowKeepsInv
  <2>3. CASE ~source.exists
    <3>1. /\ \E origin \in {"web", "bytes"} : source' = [NoSource EXCEPT !.exists = TRUE, !.origin = origin]
          /\ sv' = <<NewVersion("activating")>> /\ parseJob' = <<NoJob>>
      BY <1>4, <2>3 DEF CatalogAcquire
    <3>2. Len(sv') \in Nat
      BY <3>1
    <3>3. ClientsMove
      BY <2>1, <3>2, StepMoves
    <3> QED BY <1>3, <2>1, <2>3, <3>1, <3>3 DEF VersionStatuses
  <2> QED BY <2>2, <2>3
<1>5. CASE CatalogUnavailable(c)
  <2>1. /\ ~source.exists /\ source' = [NoSource EXCEPT !.exists = TRUE, !.origin = "video"]
        /\ sv' = <<NewVersion("parse_failed")>> /\ parseJob' = <<NoJob>> /\ Reply(c) /\ UNCHANGED parser
    BY <1>5 DEF CatalogUnavailable
  <2> QED BY <1>3, <2>1, ReplyMoves DEF VersionStatuses
<1>6. CASE CatalogRefresh(c)
  <2>1. UNCHANGED <<source, parser>>
    BY <1>6 DEF CatalogRefresh
  <2>2. CASE Reply(c) /\ UNCHANGED <<sv, parseJob>>
    BY <2>1, <2>2, ReplyMoves, SameRow, RowKeepsInv
  <2>3. CASE /\ sv' = Append(sv, NewVersion("activating")) /\ parseJob' = Append(parseJob, NoJob)
             /\ client' = [client EXCEPT ![c].pc = "enqueue", ![c].v = Len(sv')]
    <3>1. Len(sv') \in Nat
      BY <1>0, <2>3
    <3>2. ClientsMove
      BY <2>3, <3>1, StepMoves
    <3>3. CASE source.exists
      BY <2>1, <2>3, <3>2, <3>3, SameRow, AppendedKeepsInv DEF VersionStatuses
    <3>4. CASE ~source.exists
      BY <1>6, <3>4 DEF CatalogRefresh, IngestInv, NothingYet
    <3> QED BY <3>3, <3>4
  <2> QED BY <1>6, <2>2, <2>3 DEF CatalogRefresh
<1> QED BY <1>4, <1>5, <1>6

-----------------------------------------------------------------------------
LEMMA ActivateKeepsInv ==
  ASSUME IngestInv, NEW c \in Clients, Activate(c)
  PROVE  IngestInv'
<1>0. /\ source \in Rows /\ client \in [Clients -> Requests] /\ client[c] \in Requests
      /\ sv \in Seq(Versions) /\ Len(sv) \in Nat /\ parseJob \in Seq(Jobs) /\ Len(parseJob) = Len(sv)
      /\ UNCHANGED <<parseJob, parser>>
  BY DEF IngestInv, IngestTypes, Activate
<1> DEFINE L == Len(sv)
<1>1. /\ L \in 1..Len(sv) /\ sv[L].status = "parsed" /\ sv[L].doc # "none"
      /\ sv' = [DemotePrior(sv, L) EXCEPT ![L] = [status |-> "active", doc |-> "active"]]
  BY <1>0 DEF Activate, Activatable, Latest
<1>2. /\ DOMAIN DemotePrior(sv, L) = 1..L
      /\ \A v \in 1..L : /\ DemotePrior(sv, L)[v] \in Versions /\ DemotePrior(sv, L)[v].doc = sv[v].doc
                         /\ v # L => DemotePrior(sv, L)[v].status # "active"
  <2>1. DOMAIN sv = 1..L /\ \A v \in 1..L : sv[v] \in Versions
    BY <1>0
  <2>2. ASSUME NEW v \in 1..L
        PROVE  /\ DemotePrior(sv, L)[v] \in Versions /\ DemotePrior(sv, L)[v].doc = sv[v].doc
               /\ v # L => DemotePrior(sv, L)[v].status # "active"
    <3>1. CASE v # L /\ sv[v].status = "active"
      <4>1. DemotePrior(sv, L)[v] = [sv[v] EXCEPT !.status = "inactive"]
        BY <2>1, <3>1 DEF DemotePrior
      <4> QED BY <2>1, <4>1 DEF Versions, VersionStatuses
    <3>2. CASE ~(v # L /\ sv[v].status = "active")
      <4>1. DemotePrior(sv, L)[v] = sv[v]
        BY <2>1, <3>2 DEF DemotePrior
      <4> QED BY <2>1, <3>2, <4>1
    <3> QED BY <3>1, <3>2
  <2> QED BY <2>1, <2>2 DEF DemotePrior
<1>3. /\ sv' \in Seq(Versions) /\ Len(sv') = L /\ sv'[L] = [status |-> "active", doc |-> "active"]
      /\ \A v \in 1..L : v # L => sv'[v].doc = sv[v].doc /\ sv'[v].status # "active"
  <2>1. [status |-> "active", doc |-> "active"] \in Versions
    BY DEF Versions, VersionStatuses
  <2>2. sv' \in [1..L -> Versions]
    BY <1>1, <1>2, <2>1
  <2>3. sv' \in Seq(Versions) /\ Len(sv') = L
    BY <1>0, <2>2
  <2>4. sv'[L] = [status |-> "active", doc |-> "active"] /\ \A v \in 1..L : v # L => sv'[v] = DemotePrior(sv, L)[v]
    BY <1>1, <1>2
  <2> QED BY <1>2, <2>3, <2>4
<1>4. source' = Touch([source EXCEPT !.current = L, !.availability = "active"])
  BY DEF Activate, Latest
<1>5. source' \in Rows /\ source'.exists = source.exists /\ source'.current = L /\ source'.title = source.title
      /\ source'.revision = source.revision + 1
  <2> DEFINE row == [source EXCEPT !.current = L, !.availability = "active"]
  <2>1. row \in Rows /\ row.exists = source.exists /\ row.current = L /\ row.title = source.title
        /\ row.revision = source.revision
    BY <1>0 DEF Rows, Availabilities
  <2> HIDE DEF row
  <2> QED BY <1>4, <2>1, TouchedRow DEF row
<1>6. ClientsMove
  <2> DEFINE new == [IdleClient EXCEPT !.pc = "view", !.op = "activate"]
  <2>1. client' = [client EXCEPT ![c] = new]
    BY DEF Activate
  <2>2. new \in Requests /\ new.pc = "view" /\ new.op = "activate"
    BY DEF IdleClient, Requests
  <2> HIDE DEF new
  <2> QED BY <2>1, <2>2, ClientMoves
<1>7. RowMoves
  BY <1>5 DEF RowMoves
<1>8. source.exists
  BY <1>1 DEF IngestInv, NothingYet
<1>9. IngestTypes' /\ NothingYet'
  BY <1>0, <1>3, <1>5, <1>6, <1>8 DEF IngestInv, IngestTypes, NothingYet, ClientsMove
<1>10. OwnParses'
  BY <1>0, <1>3 DEF IngestInv, OwnParses, Parsing
<1>11. DocumentsAreParsed'
  <2>1. parseJob[L].deliveries # 0
    BY <1>1 DEF IngestInv, DocumentsAreParsed
  <2>2. ASSUME NEW p \in Parsers, parser[p].pc \in {"mark", "parse"}, parseJob[parser[p].v].deliveries = 1
        PROVE  parser[p].v \in 1..L /\ parser[p].v # L /\ sv[parser[p].v].doc = "none"
    BY <1>1, <2>2 DEF IngestInv, DocumentsAreParsed, OwnParses, Parsing
  <2> QED BY <1>0, <1>3, <2>1, <2>2 DEF IngestInv, DocumentsAreParsed
<1>12. ServedIsCurrent'
  BY <1>3, <1>5 DEF ServedIsCurrent
<1> QED BY <1>6, <1>7, <1>9, <1>10, <1>11, <1>12, EtagsKept DEF IngestInv

(* The row of one job is written.                                          *)
LEMMA JobWritten ==
  ASSUME NEW jobs \in Seq(Jobs), NEW v, NEW job, v \in 1..Len(jobs) => job \in Jobs
  PROVE  /\ [jobs EXCEPT ![v] = job] \in Seq(Jobs) /\ Len([jobs EXCEPT ![v] = job]) = Len(jobs)
         /\ \A w \in 1..Len(jobs) : [jobs EXCEPT ![v] = job][w] = IF w = v THEN job ELSE jobs[w]
<1> DEFINE new == [jobs EXCEPT ![v] = job]
<1>1. Len(jobs) \in Nat /\ DOMAIN jobs = 1..Len(jobs) /\ \A w \in 1..Len(jobs) : jobs[w] \in Jobs
  OBVIOUS
<1> DEFINE n == Len(jobs)
<1>2. DOMAIN new = 1..n /\ \A w \in 1..n : new[w] = IF w = v THEN job ELSE jobs[w]
  BY <1>1
<1>3. new = [w \in 1..n |-> new[w]]
  BY <1>1
<1> HIDE DEF new
<1>4. new \in [1..n -> Jobs]
  BY <1>1, <1>2, <1>3
<1>5. new \in Seq(Jobs) /\ Len(new) = n
  BY <1>1, <1>4
<1> QED BY <1>2, <1>5 DEF new

(* A job that moves without a new delivery: the rest stays.                *)
JobsMove ==
  /\ parseJob' \in Seq(Jobs) /\ Len(parseJob') = Len(sv)
  /\ \A v \in 1..Len(sv) : parseJob'[v].deliveries = parseJob[v].deliveries

LEMMA OneJobMoves ==
  ASSUME IngestInv, NEW v, NEW job,
         v \in 1..Len(sv) => job \in Jobs /\ job.deliveries = parseJob[v].deliveries,
         parseJob' = [parseJob EXCEPT ![v] = job]
  PROVE  JobsMove
<1>1. parseJob \in Seq(Jobs) /\ Len(parseJob) = Len(sv)
  BY DEF IngestInv, IngestTypes
<1> QED BY <1>1, JobWritten DEF JobsMove

LEMMA JobsMoveKeepsInv ==
  ASSUME IngestInv, JobsMove, ClientsMove, UNCHANGED <<source, sv, parser>>
  PROVE  IngestInv'
<1>1. Len(sv) \in Nat
  BY DEF IngestInv, IngestTypes
<1>2. IngestTypes' /\ NothingYet'
  BY DEF IngestInv, IngestTypes, NothingYet, ClientsMove, JobsMove
<1>3. OwnParses'
  BY <1>1 DEF IngestInv, OwnParses, Parsing, JobsMove
<1>4. DocumentsAreParsed'
  <2>1. \A p \in Parsers : parser[p].pc \in {"mark", "parse"} => parser[p].v \in 1..Len(sv)
    BY DEF IngestInv, OwnParses, Parsing
  <2> QED BY <1>1, <2>1 DEF IngestInv, DocumentsAreParsed, JobsMove
<1>5. ServedIsCurrent'
  BY DEF IngestInv, ServedIsCurrent
<1> QED BY <1>2, <1>3, <1>4, <1>5, SameRow, EtagsKept DEF IngestInv

LEMMA PublishKeepsInv ==
  ASSUME IngestInv, NEW c \in Clients, PublishJob(c)
  PROVE  IngestInv'
<1> DEFINE v == client[c].v
           state == IF parseJob[v].state = "none" THEN "queued" ELSE parseJob[v].state
           job == [parseJob[v] EXCEPT !.state = state]
<1>1. UNCHANGED <<source, sv, parser>> /\ Reply(c) /\ parseJob' = [parseJob EXCEPT ![v] = job]
  BY DEF PublishJob
<1>2. v \in 1..Len(sv) => parseJob[v] \in Jobs
  BY DEF IngestInv, IngestTypes
<1>3. v \in 1..Len(sv) => job \in Jobs /\ job.deliveries = parseJob[v].deliveries
  BY <1>2 DEF Jobs
<1> HIDE DEF v, job
<1> QED BY <1>1, <1>3, OneJobMoves, ReplyMoves, JobsMoveKeepsInv

(* A lease that runs out, and a cancellation, leave the worker as it is.   *)
LEMMA JobTakenKeepsInv ==
  ASSUME IngestInv, NEW v \in 1..Len(sv), ParseLeaseLost(v) \/ CancelParse(v)
  PROVE  IngestInv'
<1>1. /\ parseJob \in Seq(Jobs) /\ parseJob[v] \in Jobs /\ client \in [Clients -> Requests]
      /\ UNCHANGED <<source, sv, parser, client>>
  BY DEF IngestInv, IngestTypes, ParseLeaseLost, CancelParse
<1>2. PICK job \in Jobs : /\ parseJob' = [parseJob EXCEPT ![v] = job]
                          /\ job.deliveries = parseJob[v].deliveries
  <2>1. CASE ParseLeaseLost(v)
    <3> DEFINE job == [parseJob[v] EXCEPT !.state = AfterLease(v)]
    <3>1. parseJob' = [parseJob EXCEPT ![v] = job]
      BY <2>1 DEF ParseLeaseLost
    <3>2. job \in Jobs /\ job.deliveries = parseJob[v].deliveries
      BY <1>1 DEF Jobs, AfterLease
    <3> QED BY <3>1, <3>2
  <2>2. CASE CancelParse(v)
    <3> DEFINE stranded == parseJob[v].stranded \/ parseJob[v].state = "queued"
               job == [parseJob[v] EXCEPT !.state = "settled", !.stranded = stranded]
    <3>1. parseJob' = [parseJob EXCEPT ![v] = job]
      BY <1>1, <2>2 DEF CancelParse
    <3>2. job \in Jobs /\ job.deliveries = parseJob[v].deliveries
      BY <1>1 DEF Jobs
    <3> QED BY <3>1, <3>2
  <2> QED BY <2>1, <2>2
<1>3. ClientsMove
  BY <1>1 DEF ClientsMove
<1> QED BY <1>1, <1>2, <1>3, OneJobMoves, JobsMoveKeepsInv

-----------------------------------------------------------------------------
(* The workers.                                                            *)
LEMMA OnlyParser ==
  ASSUME IngestInv, NEW p \in Parsers, NEW q \in Parsers, Parsing(p), Parsing(q),
         parser[p].v = parser[q].v, parseJob[parser[p].v].deliveries <= 1
  PROVE  p = q
<1>1. /\ parser[p].v \in 1..Len(sv) /\ parser[p].delivery \in 1..parseJob[parser[p].v].deliveries
      /\ parser[q].delivery \in 1..parseJob[parser[p].v].deliveries
  BY DEF IngestInv, OwnParses
<1>2. parseJob[parser[p].v].deliveries \in Nat
  <2>1. \A w \in 1..Len(sv) : parseJob[w] \in Jobs
    BY DEF IngestInv, IngestTypes
  <2> QED BY <1>1, <2>1 DEF Jobs
<1>3. parser[p].delivery = parser[q].delivery
  BY <1>1, <1>2
<1> QED BY <1>3 DEF IngestInv, OwnParses

LEMMA ClaimKeepsInv ==
  ASSUME IngestInv, NEW p \in Parsers, ClaimParse(p)
  PROVE  IngestInv'
<1>0. /\ sv \in Seq(Versions) /\ parseJob \in Seq(Jobs) /\ Len(parseJob) = Len(sv) /\ Len(sv) \in Nat
      /\ parser \in [Parsers -> Parsings] /\ parser[p].pc = "idle" /\ UNCHANGED <<source, sv, client>>
  BY DEF IngestInv, IngestTypes, ClaimParse
<1>1. PICK v \in 1..Len(sv) :
        /\ parseJob' = [parseJob EXCEPT ![v].state = "claimed", ![v].deliveries = @ + 1]
        /\ parser' = [parser EXCEPT ![p] = [pc |-> "mark", v |-> v, delivery |-> parseJob[v].deliveries + 1]]
  BY DEF ClaimParse, Latest
<1>2. /\ parseJob[v].deliveries \in Nat /\ parseJob'[v].deliveries = parseJob[v].deliveries + 1
      /\ \A w \in 1..Len(sv) : w # v => parseJob'[w] = parseJob[w]
      /\ parseJob' \in Seq(Jobs) /\ Len(parseJob') = Len(sv)
  <2> DEFINE n == parseJob[v].deliveries + 1
             job == [parseJob[v] EXCEPT !.state = "claimed", !.deliveries = n]
  <2>1. parseJob[v] \in Jobs
    BY <1>0
  <2>2. parseJob' = [parseJob EXCEPT ![v] = job]
    BY <1>0, <1>1
  <2>3. n \in Nat /\ parseJob[v].deliveries \in Nat
    BY <2>1 DEF Jobs
  <2> HIDE DEF n
  <2>4. job \in Jobs /\ job.deliveries = n
    BY <2>1, <2>3 DEF Jobs
  <2> HIDE DEF job
  <2> QED BY <1>0, <2>2, <2>3, <2>4, JobWritten DEF n
<1>3. /\ parser'[p] = [pc |-> "mark", v |-> v, delivery |-> parseJob[v].deliveries + 1]
      /\ \A q \in Parsers : q # p => parser'[q] = parser[q]
      /\ parser' \in [Parsers -> Parsings]
  BY <1>0, <1>1, <1>2 DEF Parsings
<1>4. IngestTypes' /\ NothingYet' /\ ServedIsCurrent' /\ EtagsSawTitles'
  BY <1>0, <1>2, <1>3 DEF IngestInv, IngestTypes, NothingYet, ServedIsCurrent, EtagsSawTitles
<1>5. ASSUME NEW q \in Parsers, q # p, Parsing(q)
      PROVE  /\ parser[q].v \in 1..Len(sv) /\ parser[q].delivery \in 1..parseJob[parser[q].v].deliveries
             /\ parser[q].v = v => parser[q].delivery # parseJob[v].deliveries + 1
             /\ parser[q].delivery \in 1..parseJob'[parser[q].v].deliveries
  <2>1. parser[q].v \in 1..Len(sv) /\ parser[q].delivery \in 1..parseJob[parser[q].v].deliveries
    BY <1>5 DEF IngestInv, OwnParses
  <2> QED BY <1>2, <2>1
<1>6. OwnParses'
  <2>1. \A q \in Parsers : Parsing(q)' =>
          parser'[q].v \in 1..Len(sv) /\ parser'[q].delivery \in 1..parseJob'[parser'[q].v].deliveries
    BY <1>2, <1>3, <1>5 DEF Parsing
  <2>2. ASSUME NEW q \in Parsers, NEW r \in Parsers, Parsing(q)', Parsing(r)',
               parser'[q].v = parser'[r].v, parser'[q].delivery = parser'[r].delivery
        PROVE  q = r
    <3>1. CASE q # p /\ r # p
      BY <1>3, <2>2, <3>1 DEF IngestInv, OwnParses, Parsing
    <3>2. CASE q = p \/ r = p
      BY <1>3, <1>5, <2>2, <3>2 DEF Parsing
    <3> QED BY <3>1, <3>2
  <2> QED BY <1>0, <2>1, <2>2 DEF OwnParses
<1>7. DocumentsAreParsed'
  <2>1. \A w \in 1..Len(sv) : parseJob'[w].deliveries = 0 => sv[w].doc = "none"
    BY <1>2 DEF IngestInv, DocumentsAreParsed
  <2>2. ASSUME NEW q \in Parsers, parser'[q].pc \in {"mark", "parse"}, parseJob'[parser'[q].v].deliveries = 1
        PROVE  sv[parser'[q].v].doc = "none"
    <3>1. CASE q = p
      BY <1>2, <1>3, <2>2, <3>1 DEF IngestInv, DocumentsAreParsed
    <3>2. CASE q # p
      <4>1. parser'[q] = parser[q] /\ Parsing(q)
        BY <1>3, <2>2, <3>2 DEF Parsing
      <4>2. parser[q].v # v
        BY <1>2, <1>5, <2>2, <3>2, <4>1
      <4> QED BY <1>2, <1>5, <2>2, <3>2, <4>1, <4>2 DEF IngestInv, DocumentsAreParsed
    <3> QED BY <3>1, <3>2
  <2> QED BY <1>0, <2>1, <2>2 DEF DocumentsAreParsed
<1> QED BY <1>4, <1>6, <1>7 DEF IngestInv

(* A worker writes the version it parses, and never makes it the active    *)
(* one.                                                                    *)
LEMMA ParsedKeepsInv ==
  ASSUME IngestInv, NEW p \in Parsers, Parsing(p), NEW new \in Parsings, parser' = [parser EXCEPT ![p] = new],
         new.pc # "idle" => new.v = parser[p].v /\ new.delivery = parser[p].delivery,
         new.pc \in {"mark", "parse"} => parser[p].pc \in {"mark", "parse"},
         UNCHANGED client, RowMoves, source'.current = source.current, source'.exists = source.exists,
         NEW row \in Versions, sv' = [sv EXCEPT ![parser[p].v] = row],
         row.status = "active" => sv[parser[p].v] = row,
         row.doc = sv[parser[p].v].doc \/ new.pc \notin {"mark", "parse"},
         row.doc = "none" \/ parseJob[parser[p].v].deliveries # 0,
         parseJob' \in Seq(Jobs), Len(parseJob') = Len(sv),
         \A v \in 1..Len(sv) : parseJob'[v].deliveries = parseJob[v].deliveries,
         ~source'.exists => source'.title = 0 /\ source'.revision = 0
  PROVE  IngestInv'
<1> DEFINE v == parser[p].v
<1>0. /\ sv \in Seq(Versions) /\ parseJob \in Seq(Jobs) /\ Len(parseJob) = Len(sv) /\ Len(sv) \in Nat
      /\ parser \in [Parsers -> Parsings] /\ client \in [Clients -> Requests] /\ v \in 1..Len(sv)
  BY DEF IngestInv, IngestTypes, OwnParses
<1>1. /\ sv' \in Seq(Versions) /\ Len(sv') = Len(sv) /\ sv'[v] = row
      /\ \A w \in 1..Len(sv) : w # v => sv'[w] = sv[w]
  BY <1>0
<1>2. /\ parser'[p] = new /\ parser' \in [Parsers -> Parsings]
      /\ \A q \in Parsers : q # p => parser'[q] = parser[q]
  BY <1>0
<1>3. ClientsMove
  BY <1>0 DEF ClientsMove
<1>4. IngestTypes' /\ NothingYet'
  BY <1>0, <1>1, <1>2, <1>3 DEF IngestInv, IngestTypes, NothingYet, RowMoves
<1>5. OwnParses'
  <2>1. \A q \in Parsers : Parsing(q)' =>
          /\ Parsing(q) /\ parser'[q].v = parser[q].v /\ parser'[q].delivery = parser[q].delivery
          /\ parser[q].v \in 1..Len(sv)
    BY <1>2 DEF Parsing, IngestInv, OwnParses
  <2> QED BY <1>1, <2>1 DEF IngestInv, OwnParses
<1>6. DocumentsAreParsed'
  <2>1. \A w \in 1..Len(sv) : parseJob'[w].deliveries = 0 => sv'[w].doc = "none"
    BY <1>0, <1>1 DEF IngestInv, DocumentsAreParsed
  <2>2. ASSUME NEW q \in Parsers, parser'[q].pc \in {"mark", "parse"}, parseJob'[parser'[q].v].deliveries = 1
        PROVE  sv'[parser'[q].v].doc = "none"
    <3>1. CASE q = p
      <4>1. /\ parser'[q].v = v /\ parser[p].pc \in {"mark", "parse"} /\ row.doc = sv[v].doc
            /\ parseJob[v].deliveries = 1
        BY <1>0, <1>2, <2>2, <3>1
      <4> QED BY <1>1, <4>1 DEF IngestInv, DocumentsAreParsed
    <3>2. CASE q # p
      <4>1. parser'[q] = parser[q] /\ Parsing(q) /\ parser[q].v \in 1..Len(sv)
        BY <1>2, <2>2, <3>2 DEF Parsing, IngestInv, OwnParses
      <4>2. parseJob[parser[q].v].deliveries = 1
        BY <2>2, <4>1
      <4>3. parser[q].v # v
        BY <3>2, <4>1, <4>2, OnlyParser
      <4> QED BY <1>1, <2>2, <4>1, <4>2, <4>3 DEF IngestInv, DocumentsAreParsed
    <3> QED BY <3>1, <3>2
  <2> QED BY <1>1, <2>1, <2>2 DEF DocumentsAreParsed
<1>7. ServedIsCurrent'
  BY <1>0, <1>1 DEF IngestInv, ServedIsCurrent
<1> QED BY <1>3, <1>4, <1>5, <1>6, <1>7, EtagsKept DEF IngestInv

LEMMA WorkersKeepInv ==
  ASSUME IngestInv, NEW p \in Parsers,
         MarkParsing(p) \/ Persist(p) \/ PersistFailure(p) \/ FinishParse(p) \/ ParseAbandoned(p) \/ ParserDies(p)
  PROVE  IngestInv'
<1> DEFINE v == parser[p].v
<1>0. /\ source \in Rows /\ sv \in Seq(Versions) /\ parseJob \in Seq(Jobs) /\ Len(parseJob) = Len(sv)
      /\ Len(sv) \in Nat /\ parser \in [Parsers -> Parsings] /\ parser[p] \in Parsings
      /\ Parsing(p) /\ v \in 1..Len(sv) /\ sv[v] \in Versions /\ parseJob[v] \in Jobs
      /\ parseJob[v].deliveries # 0 /\ UNCHANGED client
      /\ ~source.exists => source.title = 0 /\ source.revision = 0
  <2>1. Parsing(p) /\ UNCHANGED client
    BY DEF MarkParsing, Persist, PersistFailure, FinishParse, ParseAbandoned, ParserDies, LeaveParse, Parsing
  <2>2. v \in 1..Len(sv) /\ parser[p].delivery \in 1..parseJob[v].deliveries
    BY <2>1 DEF IngestInv, OwnParses
  <2>3. parseJob[v].deliveries # 0
    BY <2>2
  <2> QED BY <2>1, <2>2, <2>3 DEF IngestInv, IngestTypes, NothingYet
<1>a. ASSUME NEW pc \in {"parse", "finish"}, parser' = [parser EXCEPT ![p].pc = pc]
      PROVE  \E new \in Parsings : /\ parser' = [parser EXCEPT ![p] = new] /\ new.pc = pc
                                   /\ new.v = v /\ new.delivery = parser[p].delivery
  <2> DEFINE new == [parser[p] EXCEPT !.pc = pc]
  <2>1. new \in Parsings /\ new.pc = pc /\ new.v = v /\ new.delivery = parser[p].delivery
    BY <1>0 DEF Parsings
  <2>2. parser' = [parser EXCEPT ![p] = new]
    BY <1>0, <1>a
  <2> HIDE DEF new
  <2> QED BY <2>1, <2>2
<1>b. ASSUME UNCHANGED sv
      PROVE  sv' = [sv EXCEPT ![v] = sv[v]]
  BY <1>0, <1>b
<1>1. CASE MarkParsing(p)
  <2> DEFINE row == [sv[v] EXCEPT !.status = "parsing"]
  <2>1. UNCHANGED <<source, parseJob>> /\ sv' = [sv EXCEPT ![v] = row] /\ parser[p].pc = "mark"
    BY <1>0, <1>1 DEF MarkParsing
  <2>2. row \in Versions /\ row.status = "parsing" /\ row.doc = sv[v].doc
    BY <1>0 DEF Versions, VersionStatuses
  <2>3. PICK new \in Parsings : /\ parser' = [parser EXCEPT ![p] = new] /\ new.pc = "parse"
                                /\ new.v = v /\ new.delivery = parser[p].delivery
    BY <1>1, <1>a DEF MarkParsing
  <2> HIDE DEF row, v
  <2> QED BY <1>0, <2>1, <2>2, <2>3, SameRow, ParsedKeepsInv DEF v
<1>2. CASE Persist(p)
  <2> DEFINE row == [status |-> "parsed", doc |-> DocumentOnce(sv[v].doc)]
  <2>1. UNCHANGED <<source, parseJob>> /\ sv' = [sv EXCEPT ![v] = row]
    BY <1>0, <1>2 DEF Persist
  <2>2. row \in Versions /\ row.status = "parsed"
    BY <1>0 DEF Versions, VersionStatuses, DocumentOnce
  <2>3. PICK new \in Parsings : /\ parser' = [parser EXCEPT ![p] = new] /\ new.pc = "finish"
                                /\ new.v = v /\ new.delivery = parser[p].delivery
    BY <1>2, <1>a DEF Persist
  <2> HIDE DEF row, v
  <2> QED BY <1>0, <2>1, <2>2, <2>3, SameRow, ParsedKeepsInv DEF v
<1>3. CASE PersistFailure(p)
  <2> DEFINE row == [sv[v] EXCEPT !.status = "parse_failed"]
  <2>1. /\ UNCHANGED parseJob /\ sv' = [sv EXCEPT ![v] = row]
        /\ (source' = source \/ source' = [source EXCEPT !.availability = "stale"])
    BY <1>0, <1>3 DEF PersistFailure, FailVersion
  <2>2. row \in Versions /\ row.status = "parse_failed" /\ row.doc = sv[v].doc
    BY <1>0 DEF Versions, VersionStatuses
  <2>3. PICK new \in Parsings : /\ parser' = [parser EXCEPT ![p] = new] /\ new.pc = "finish"
                                /\ new.v = v /\ new.delivery = parser[p].delivery
    BY <1>3, <1>a DEF PersistFailure
  <2>4. /\ source' \in Rows /\ source'.exists = source.exists /\ source'.current = source.current
        /\ source'.title = source.title /\ source'.revision = source.revision
    BY <1>0, <2>1 DEF Rows, Availabilities
  <2>5. RowMoves /\ (~source'.exists => source'.title = 0 /\ source'.revision = 0)
    BY <1>0, <2>4 DEF RowMoves
  <2> HIDE DEF row, v
  <2> QED BY <1>0, <2>1, <2>2, <2>3, <2>4, <2>5, ParsedKeepsInv DEF v
<1>c. IdleParser \in Parsings /\ IdleParser.pc = "idle"
  BY DEF IdleParser, Parsings
<1>4. CASE FinishParse(p) \/ ParseAbandoned(p) \/ ParserDies(p)
  <2>1. PICK state \in {"none", "queued", "claimed", "settled"}, outcome \in BOOLEAN : LeaveParse(p, state, outcome)
    <3>1. ParseEnds(p) \subseteq {"none", "queued", "claimed", "settled"}
      BY <1>0 DEF ParseEnds, Jobs
    <3>2. AfterLease(v) \in {"queued", "settled"} /\ parseJob[v].state \in {"none", "queued", "claimed", "settled"}
      BY <1>0 DEF AfterLease, Jobs
    <3> QED BY <1>4, <3>1, <3>2 DEF FinishParse, ParseAbandoned, ParserDies
  <2> DEFINE stranded == \/ parseJob[v].stranded
                         \/ state # "queued" /\ (~outcome \/ parseJob[v].state = "queued")
             job == [parseJob[v] EXCEPT !.state = state, !.stranded = stranded]
  <2>2. /\ UNCHANGED <<source, sv>> /\ parser' = [parser EXCEPT ![p] = IdleParser]
        /\ parseJob' = [parseJob EXCEPT ![v] = job]
    BY <1>0, <2>1 DEF LeaveParse
  <2>3. job \in Jobs /\ job.deliveries = parseJob[v].deliveries
    BY <1>0 DEF Jobs
  <2> HIDE DEF job, v
  <2>4. JobsMove
    BY <2>2, <2>3, OneJobMoves
  <2> QED BY <1>0, <1>b, <1>c, <2>2, <2>4, SameRow, ParsedKeepsInv DEF v, JobsMove
<1> QED BY <1>1, <1>2, <1>3, <1>4

-----------------------------------------------------------------------------
LEMMA IngestStepInv ==
  ASSUME IngestInv, [IngestNext]_ingestVars
  PROVE  IngestInv'
<1>1. CASE UNCHANGED ingestVars
  <2>1. UNCHANGED <<source, sv, parseJob, parser, client>>
    BY <1>1 DEF ingestVars
  <2>2. IngestTypes' /\ NothingYet' /\ OwnParses'
    BY <2>1 DEF IngestInv, IngestTypes, NothingYet, OwnParses, Parsing
  <2>3. DocumentsAreParsed' /\ ServedIsCurrent' /\ EtagsSawTitles'
    BY <2>1 DEF IngestInv, DocumentsAreParsed, ServedIsCurrent, EtagsSawTitles
  <2> QED BY <2>2, <2>3 DEF IngestInv
<1>2. CASE SetSelected
  BY <1>2, SelectKeepsInv
<1>3. ASSUME NEW c \in Clients,
             BeginAcquire(c) \/ BeginRefresh(c) \/ BeginRename(c) \/ Activate(c) \/ ClientStep(c) \/ ClientDies(c)
      PROVE  IngestInv'
  BY <1>3, RequestsKeepInv, CatalogKeepsInv, ActivateKeepsInv, PublishKeepsInv DEF ClientStep
<1>4. ASSUME NEW p \in Parsers, ParserStep(p) \/ ParseAbandoned(p) \/ ParserDies(p)
      PROVE  IngestInv'
  BY <1>4, ClaimKeepsInv, WorkersKeepInv DEF ParserStep
<1>5. ASSUME NEW v \in 1..Latest, ParseLeaseLost(v) \/ CancelParse(v)
      PROVE  IngestInv'
  BY <1>5, JobTakenKeepsInv DEF Latest
<1> QED BY <1>1, <1>2, <1>3, <1>4, <1>5 DEF IngestNext

LEMMA IngestInvariant == IngestSpec => []IngestInv
<1>1. IngestInit => IngestInv
  BY IngestInitInv
<1>2. IngestInv /\ [IngestNext]_ingestVars => IngestInv'
  BY IngestStepInv
<1> QED BY <1>1, <1>2, PTL DEF IngestSpec

(* The served version is written by a worker only in a second delivery of  *)
(* its job; else by the activation of another one.                         *)
LEMMA ServedOrReplaced ==
  ASSUME IngestInv, [IngestNext]_ingestVars, NEW v \in DOMAIN sv, sv[v].status = "active",
         sv'[v].status # "active", parseJob[v].deliveries = 1
  PROVE  sv'[v].status = "inactive" /\ sv'[source'.current].status = "active"
<1>0. /\ sv \in Seq(Versions) /\ Len(sv) \in Nat /\ v \in 1..Len(sv) /\ sv[v].doc = "active" /\ source.exists
      /\ DOMAIN sv = 1..Len(sv)
  BY DEF IngestInv, IngestTypes, ServedIsCurrent, NothingYet
<1>1. sv' # sv
  OBVIOUS
<1>2. ASSUME NEW p \in Parsers, ParserStep(p) \/ ParseAbandoned(p) \/ ParserDies(p)
      PROVE  FALSE
  <2> DEFINE w == parser[p].v
  <2>1. /\ parser[p].pc \in {"mark", "parse"}
        /\ \E row : sv' = [sv EXCEPT ![w] = row]
    <3>1. MarkParsing(p) \/ Persist(p) \/ PersistFailure(p)
      BY <1>1, <1>2 DEF ParserStep, ClaimParse, FinishParse, ParseAbandoned, ParserDies, LeaveParse
    <3>2. CASE MarkParsing(p)
      BY <3>2 DEF MarkParsing
    <3>3. CASE Persist(p)
      BY <3>3 DEF Persist
    <3>4. CASE PersistFailure(p)
      BY <3>4 DEF PersistFailure, FailVersion
    <3> QED BY <3>1, <3>2, <3>3, <3>4
  <2>2. w = v
    BY <1>0, <2>1
  <2> QED BY <1>0, <2>1, <2>2 DEF IngestInv, DocumentsAreParsed
<1>3. ASSUME NEW c \in Clients, CatalogRefresh(c)
      PROVE  FALSE
  <2>1. sv' = Append(sv, NewVersion("activating"))
    BY <1>1, <1>3 DEF CatalogRefresh
  <2> QED BY <1>0, <2>1
<1>4. ASSUME NEW c \in Clients, Activate(c)
      PROVE  sv'[v].status = "inactive" /\ sv'[source'.current].status = "active"
  <2> DEFINE L == Len(sv)
  <2>1. /\ L \in 1..Len(sv) /\ sv[L].status = "parsed"
        /\ sv' = [DemotePrior(sv, L) EXCEPT ![L] = [status |-> "active", doc |-> "active"]]
        /\ source' = Touch([source EXCEPT !.current = L, !.availability = "active"])
    BY <1>0, <1>4 DEF Activate, Activatable, Latest
  <2>2. v # L
    BY <2>1
  <2>3. DOMAIN DemotePrior(sv, L) = 1..L /\ DemotePrior(sv, L)[v] = [sv[v] EXCEPT !.status = "inactive"]
    BY <1>0, <2>2 DEF DemotePrior
  <2>4. sv'[v] = [sv[v] EXCEPT !.status = "inactive"] /\ sv'[L].status = "active"
    BY <1>0, <2>1, <2>2, <2>3
  <2>5. source'.current = L
    <3> DEFINE row == [source EXCEPT !.current = L, !.availability = "active"]
    <3>1. source \in Rows
      BY DEF IngestInv, IngestTypes
    <3>2. row \in Rows /\ row.current = L
      BY <1>0, <3>1 DEF Rows, Availabilities
    <3> HIDE DEF row
    <3> QED BY <2>1, <3>2, TouchedRow DEF row
  <2>6. sv[v] \in Versions
    BY <1>0
  <2> QED BY <2>4, <2>5, <2>6 DEF Versions
<1>5. \/ \E c \in Clients : CatalogRefresh(c) \/ Activate(c)
      \/ \E p \in Parsers : ParserStep(p) \/ ParseAbandoned(p) \/ ParserDies(p)
  BY <1>0, <1>1 DEF IngestNext, ClientStep, ingestVars, BeginAcquire, BeginRefresh, BeginRename, Begin, SetSelected,
     CatalogAcquire, CatalogUnavailable, SourceFetched, MarkRefreshFailed, PublishJob, Rename, ViewActivated,
     EnqueueIndexJob, ClientDies, ParseLeaseLost, CancelParse
<1> QED BY <1>2, <1>3, <1>4, <1>5

(* A title is written by a request whose ETag is current.                  *)
LEMMA RenamedAsSeen ==
  ASSUME IngestInv, [IngestNext]_ingestVars, NEW c \in Clients, client[c].pc = "rename",
         source'.title # source.title, client'[c].pc = "idle"
  PROVE  client[c].title = source.title
<1>0. source \in Rows /\ client \in [Clients -> Requests] /\ source.exists
  BY DEF IngestInv, IngestTypes, EtagsSawTitles
<1>1. source' # source
  OBVIOUS
<1>2. ASSUME NEW a, NEW cur
      PROVE  /\ [source EXCEPT !.availability = a].title = source.title
             /\ Touch([source EXCEPT !.availability = a]).title = source.title
             /\ Touch([source EXCEPT !.current = cur, !.availability = a]).title = source.title
  BY <1>0 DEF Rows, Touch
<1>3. ASSUME NEW d \in Clients, Rename(d)
      PROVE  client[c].title = source.title
  <2>1. EtagMatches(d) /\ client' = [client EXCEPT ![d] = IdleClient]
    BY <1>1, <1>3 DEF Rename, Reply
  <2>2. d = c
    BY <1>0, <2>1
  <2> QED BY <2>1, <2>2 DEF EtagMatches, IngestInv, EtagsSawTitles
<1>4. \E d \in Clients : Rename(d)
  <2>1. ~SetSelected
    BY <1>2 DEF SetSelected
  <2>2. \A p \in Parsers : ~ParserStep(p) /\ ~ParseAbandoned(p) /\ ~ParserDies(p)
    <3>1. \A p \in Parsers : ~PersistFailure(p)
      BY <1>1, <1>2 DEF PersistFailure
    <3> QED BY <1>1, <3>1 DEF ParserStep, ClaimParse, MarkParsing, Persist, FinishParse, ParseAbandoned,
          ParserDies, LeaveParse
  <2>3. ASSUME NEW d \in Clients, MarkRefreshFailed(d) \/ Activate(d)
        PROVE  FALSE
    <3>1. \/ source' = [source EXCEPT !.availability = "stale"]
          \/ source' = Touch([source EXCEPT !.current = Latest, !.availability = "active"])
      BY <2>3 DEF MarkRefreshFailed, Activate
    <3>2. Touch([source EXCEPT !.current = Latest, !.availability = "active"]).title = source.title
      BY <1>2
    <3> QED BY <1>2, <3>1, <3>2
  <2> QED BY <1>0, <1>1, <2>1, <2>2, <2>3 DEF IngestNext, ClientStep, ingestVars, BeginAcquire, BeginRefresh,
        BeginRename, Begin, CatalogAcquire, CatalogUnavailable, SourceFetched, CatalogRefresh, PublishJob,
        ViewActivated, EnqueueIndexJob, ClientDies, ParseLeaseLost, CancelParse
<1> QED BY <1>3, <1>4

-----------------------------------------------------------------------------
(* What is served is the current version with its own document; what fails *)
(* or is still being parsed takes nothing away from it; and no title is    *)
(* replaced unseen.                                                        *)
THEOREM IngestSafety == IngestSpec => IngestSafe
<1>1. IngestInv => ServedIsCurrent
  BY DEF IngestInv
<1>2. IngestInv /\ [IngestNext]_ingestVars
        => [\A v \in DOMAIN sv :
              sv[v].status = "active" /\ sv'[v].status # "active" /\ parseJob[v].deliveries = 1
                => sv'[v].status = "inactive" /\ sv'[source'.current].status = "active"]_ingestVars
  BY ServedOrReplaced
<1>3. IngestInv /\ [IngestNext]_ingestVars
        => [\A c \in Clients :
              client[c].pc = "rename" /\ source'.title # source.title /\ client'[c].pc = "idle"
                => client[c].title = source.title]_ingestVars
  BY RenamedAsSeen
<1> QED BY <1>1, <1>2, <1>3, IngestInvariant, PTL DEF IngestSpec, IngestSafe, RefreshKeepsServing, RenameSeesTitle

-----------------------------------------------------------------------------
(* The builds of a version.                                                *)

GenTypes   == [status : {"absent", "building", "ready", "superseded", "failed"},
               rows : SUBSET Chunks, embedded : SUBSET Chunks]
BuildTypes == [pc : {"idle", "status", "create", "existing", "insert", "embed", "swap", "done", "failing"},
               g : Generations, delivery : Nat, pending : SUBSET Chunks, vectors : SUBSET Chunks]

BuildJobs  == [state : {"queued", "claimed", "settled"}, deliveries : Nat, stranded : BOOLEAN]

IndexTypes ==
  /\ gen \in [Generations -> GenTypes]
  /\ buildJob \in [Generations -> BuildJobs]
  /\ build \in [Builders -> BuildTypes]

Working(b) == build[b].pc # "idle"

(* A worker holds a delivery of its own.                                   *)
OwnDeliveries ==
  /\ \A b \in Builders : Working(b) => build[b].delivery \in 1..buildJob[build[b].g].deliveries
  /\ \A b, c \in Builders :
       Working(b) /\ Working(c) /\ build[b].g = build[c].g /\ build[b].delivery = build[c].delivery => b = c

(* Rows are never deleted, so a build that has inserted what was missing   *)
(* has a complete generation, whoever inserted the rest.                   *)
RowsComplete ==
  /\ \A b \in Builders :
       /\ build[b].pc = "insert" => Chunks \subseteq gen[build[b].g].rows \cup build[b].pending
       /\ build[b].pc \in {"embed", "swap"} => gen[build[b].g].rows = Chunks
  /\ \A g \in Generations : gen[g].status = "ready" => gen[g].rows = Chunks

OneReady == \A g, h \in Generations : gen[g].status = "ready" /\ gen[h].status = "ready" => g = h

(* The first delivery of a job finds its generation as it left it.         *)
FirstDelivery ==
  /\ \A g \in Generations : buildJob[g].deliveries = 0 => gen[g].status = "absent"
  /\ \A b \in Builders :
       Working(b) /\ buildJob[build[b].g].deliveries = 1 =>
         /\ build[b].pc \in {"status", "create"} => gen[build[b].g].status = "absent"
         /\ build[b].pc \in {"existing", "insert", "embed", "swap"} => gen[build[b].g].status = "building"

IndexInv == IndexTypes /\ OwnDeliveries /\ RowsComplete /\ OneReady /\ FirstDelivery

-----------------------------------------------------------------------------
LEMMA IdleTypes == IdleBuild \in BuildTypes /\ IdleBuild.pc = "idle"
BY SourceIndexAssumption DEF IdleBuild, BuildTypes

LEMMA IndexInitInv == IndexInit => IndexInv
<1> SUFFICES ASSUME IndexInit PROVE IndexInv
  OBVIOUS
<1>1. IndexTypes
  BY IdleTypes DEF IndexInit, IndexTypes, GenTypes, BuildJobs, NoGeneration
<1>2. OwnDeliveries /\ RowsComplete /\ OneReady /\ FirstDelivery
  BY IdleTypes DEF IndexInit, OwnDeliveries, Working, RowsComplete, OneReady, FirstDelivery, NoGeneration
<1> QED BY <1>1, <1>2 DEF IndexInv

(* A worker that only goes on, with gen and the jobs as they are.          *)
LEMMA GoingOn ==
  ASSUME IndexInv, NEW b \in Builders, NEW new \in BuildTypes,
         build' = [build EXCEPT ![b] = new], UNCHANGED <<gen, buildJob>>,
         new.pc # "idle" => Working(b) /\ new.g = build[b].g /\ new.delivery = build[b].delivery,
         new.pc = "insert" => Chunks \subseteq gen[new.g].rows \cup new.pending,
         new.pc \in {"embed", "swap"} => gen[new.g].rows = Chunks,
         new.pc # "idle" /\ buildJob[new.g].deliveries = 1 =>
           /\ new.pc \in {"status", "create"} => gen[new.g].status = "absent"
           /\ new.pc \in {"existing", "insert", "embed", "swap"} => gen[new.g].status = "building"
  PROVE  IndexInv'
<1> USE DEF IndexInv
<1>1. build'[b] = new /\ \A c \in Builders \ {b} : build'[c] = build[c]
  BY DEF IndexTypes
<1>2. IndexTypes'
  BY DEF IndexTypes
<1>3. OwnDeliveries'
  BY <1>1 DEF OwnDeliveries, Working
<1>4. RowsComplete' /\ OneReady' /\ FirstDelivery'
  BY <1>1 DEF RowsComplete, OneReady, FirstDelivery, Working
<1> QED BY <1>2, <1>3, <1>4

LEMMA ClaimBuildKeepsInv ==
  ASSUME IndexInv, NEW b \in Builders, ClaimBuild(b)
  PROVE  IndexInv'
<1> USE DEF IndexInv
<1>1. PICK g \in Generations :
        /\ buildJob' = [buildJob EXCEPT ![g].state = "claimed", ![g].deliveries = @ + 1]
        /\ build' = [build EXCEPT ![b] =
             [IdleBuild EXCEPT !.pc = "status", !.g = g, !.delivery = buildJob[g].deliveries + 1]]
  BY DEF ClaimBuild
<1>2. build[b].pc = "idle" /\ gen' = gen
  BY DEF ClaimBuild
<1>3. /\ buildJob'[g].deliveries = buildJob[g].deliveries + 1 /\ buildJob[g].deliveries \in Nat
      /\ \A h \in Generations \ {g} : buildJob'[h] = buildJob[h]
      /\ buildJob' \in [Generations -> BuildJobs]
  <2> DEFINE n == buildJob[g].deliveries + 1
             job == [buildJob[g] EXCEPT !.state = "claimed", !.deliveries = n]
  <2>1. buildJob \in [Generations -> BuildJobs] /\ buildJob' = [buildJob EXCEPT ![g] = job]
    BY <1>1 DEF IndexTypes
  <2>2. n \in Nat /\ n = buildJob[g].deliveries + 1 /\ buildJob[g].deliveries \in Nat
    BY <2>1 DEF BuildJobs
  <2> HIDE DEF n
  <2>3. job \in BuildJobs /\ job.deliveries = n
    BY <2>1, <2>2 DEF BuildJobs
  <2> HIDE DEF job, IndexInv
  <2>4. /\ buildJob'[g] = job /\ \A h \in Generations \ {g} : buildJob'[h] = buildJob[h]
        /\ buildJob' \in [Generations -> BuildJobs]
    BY <2>1, <2>3
  <2> QED BY <2>2, <2>3, <2>4
<1>4. /\ build'[b].pc = "status" /\ build'[b].g = g /\ build'[b].delivery = buildJob[g].deliveries + 1
      /\ build'[b] \in BuildTypes /\ \A c \in Builders \ {b} : build'[c] = build[c]
  <2> DEFINE n == buildJob[g].deliveries + 1
             new == [IdleBuild EXCEPT !.pc = "status", !.g = g, !.delivery = n]
  <2>1. build \in [Builders -> BuildTypes] /\ build' = [build EXCEPT ![b] = new]
    BY <1>1 DEF IndexTypes
  <2>2. n \in Nat /\ n = buildJob[g].deliveries + 1
    BY <1>3
  <2> HIDE DEF n
  <2>3. new \in BuildTypes /\ new.pc = "status" /\ new.g = g /\ new.delivery = n
    BY <2>2, IdleTypes DEF BuildTypes
  <2> HIDE DEF new, IndexInv
  <2> QED BY <2>1, <2>2, <2>3
<1>5. IndexTypes'
  BY <1>1, <1>2, <1>3, <1>4 DEF IndexTypes
<1>6. OwnDeliveries'
  <2>0. \A c \in Builders : build[c].g \in Generations /\ build[c].delivery \in Nat
    BY DEF IndexTypes, BuildTypes
  <2>1. \A c \in Builders : Working(c)' => build'[c].delivery \in 1..buildJob'[build'[c].g].deliveries
    BY <1>3, <1>4, <2>0 DEF OwnDeliveries, Working
  <2>2. ASSUME NEW c \in Builders \ {b}, Working(c), build[c].g = g
        PROVE  build[c].delivery # buildJob[g].deliveries + 1
    BY <1>3, <2>0, <2>2 DEF OwnDeliveries
  <2>3. ASSUME NEW c \in Builders, NEW d \in Builders, Working(c)', Working(d)',
               build'[c].g = build'[d].g, build'[c].delivery = build'[d].delivery
        PROVE  c = d
    BY <1>4, <2>2, <2>3 DEF OwnDeliveries, Working
  <2> QED BY <2>1, <2>3 DEF OwnDeliveries
<1>7. RowsComplete' /\ OneReady'
  BY <1>2, <1>4 DEF RowsComplete, OneReady
<1>8. FirstDelivery'
  <2>1. \A h \in Generations : buildJob'[h].deliveries = 0 => gen'[h].status = "absent"
    BY <1>2, <1>3 DEF FirstDelivery
  <2>2. ASSUME NEW c \in Builders, Working(c)', buildJob'[build'[c].g].deliveries = 1
        PROVE  /\ build'[c].pc \in {"status", "create"} => gen'[build'[c].g].status = "absent"
               /\ build'[c].pc \in {"existing", "insert", "embed", "swap"} => gen'[build'[c].g].status = "building"
    <3>1. CASE c = b
      BY <1>2, <1>3, <1>4, <2>2, <3>1 DEF FirstDelivery
    <3>2. CASE c # b
      <4>1. build'[c] = build[c] /\ Working(c) /\ build[c].g \in Generations
        BY <1>4, <2>2, <3>2 DEF Working, IndexTypes, BuildTypes
      <4>2. build[c].g # g
        BY <1>3, <2>2, <4>1 DEF OwnDeliveries
      <4> QED BY <1>2, <1>3, <2>2, <4>1, <4>2 DEF FirstDelivery
    <3> QED BY <3>1, <3>2
  <2> QED BY <2>1, <2>2 DEF FirstDelivery
<1> QED BY <1>5, <1>6, <1>7, <1>8

(* The steps that write no generation.                                     *)
LEMMA ReadingKeepsIndex ==
  ASSUME IndexInv, NEW b \in Builders,
         ReadStatus(b) \/ ReadExisting(b) \/ EmbedBatch(b) \/ BuildRaises(b)
  PROVE  IndexInv'
<1> USE DEF IndexInv
<1>0. /\ build \in [Builders -> BuildTypes] /\ build[b] \in BuildTypes /\ build[b].g \in Generations
      /\ gen[build[b].g] \in GenTypes
  BY DEF IndexTypes, BuildTypes
<1>1. CASE ReadStatus(b)
  <2> DEFINE at == CASE BuiltAlready(gen[build[b].g].status) -> "done"
                     [] gen[build[b].g].status \in {"absent", "failed"} -> "create"
                     [] OTHER -> "existing"
             new == [build[b] EXCEPT !.pc = at]
  <2>1. build[b].pc = "status" /\ build' = [build EXCEPT ![b].pc = at] /\ UNCHANGED <<gen, buildJob>>
    BY <1>1 DEF ReadStatus, AtBuild
  <2>2. \/ at = "done"
        \/ at = "create" /\ gen[build[b].g].status \in {"absent", "failed"}
        \/ at = "existing" /\ gen[build[b].g].status \notin {"absent", "failed"}
    BY DEF BuiltAlready
  <2> HIDE DEF at
  <2>3. /\ new \in BuildTypes /\ new.pc = at /\ new.g = build[b].g /\ new.delivery = build[b].delivery
        /\ build' = [build EXCEPT ![b] = new]
    BY <1>0, <2>1, <2>2 DEF BuildTypes
  <2>4. buildJob[build[b].g].deliveries = 1 => gen[build[b].g].status = "absent"
    BY <2>1 DEF FirstDelivery, Working
  <2> HIDE DEF new
  <2>5. /\ new.pc \notin {"idle", "status", "insert", "embed", "swap"} /\ Working(b)
        /\ new.pc \in {"create", "existing", "done"}
    BY <2>1, <2>2, <2>3 DEF Working
  <2>6. buildJob[build[b].g].deliveries = 1 /\ new.pc = "existing" => FALSE
    BY <2>2, <2>3, <2>4
  <2>7. /\ new.pc # "idle" => Working(b) /\ new.g = build[b].g /\ new.delivery = build[b].delivery
        /\ new.pc = "insert" => Chunks \subseteq gen[new.g].rows \cup new.pending
        /\ new.pc \in {"embed", "swap"} => gen[new.g].rows = Chunks
    BY <2>3, <2>5
  <2>8. new.pc # "idle" /\ buildJob[new.g].deliveries = 1 =>
          /\ new.pc \in {"status", "create"} => gen[new.g].status = "absent"
          /\ new.pc \in {"existing", "insert", "embed", "swap"} => gen[new.g].status = "building"
    BY <2>3, <2>4, <2>5, <2>6
  <2> HIDE DEF IndexInv
  <2> QED BY <2>1, <2>3, <2>7, <2>8, GoingOn
<1>2. CASE ReadExisting(b)
  <2> DEFINE new == [build[b] EXCEPT !.pc = "insert", !.pending = Chunks \ gen[build[b].g].rows]
  <2>1. build[b].pc = "existing" /\ UNCHANGED <<gen, buildJob>>
        /\ build' = [build EXCEPT ![b].pc = "insert", ![b].pending = Chunks \ gen[build[b].g].rows]
    BY <1>2 DEF ReadExisting
  <2>2. /\ new \in BuildTypes /\ new.pc = "insert" /\ new.g = build[b].g /\ new.delivery = build[b].delivery
        /\ new.pending = Chunks \ gen[build[b].g].rows
    BY <1>0 DEF BuildTypes
  <2>3. build' = [build EXCEPT ![b] = new]
    BY <1>0, <2>1 DEF BuildTypes
  <2>4. buildJob[build[b].g].deliveries = 1 => gen[build[b].g].status = "building"
    BY <2>1 DEF FirstDelivery, Working
  <2> HIDE DEF new
  <2>5. /\ Working(b) /\ Chunks \subseteq gen[new.g].rows \cup new.pending
        /\ buildJob[new.g].deliveries = 1 => gen[new.g].status = "building"
    BY <2>1, <2>2, <2>4 DEF Working
  <2> HIDE DEF IndexInv
  <2> QED BY <2>1, <2>2, <2>3, <2>5, GoingOn
<1>3. CASE EmbedBatch(b)
  <2>1. build[b].pc = "embed" /\ UNCHANGED <<gen, buildJob>>
    BY <1>3 DEF EmbedBatch
  <2>2. PICK new \in BuildTypes :
          /\ build' = [build EXCEPT ![b] = new] /\ new.pc \in {"embed", "swap"}
          /\ new.g = build[b].g /\ new.delivery = build[b].delivery
    <3>1. CASE build[b].pending = {}
      <4> DEFINE new == [build[b] EXCEPT !.pc = "swap"]
      <4>1. build' = [build EXCEPT ![b] = new]
        BY <1>0, <1>3, <3>1 DEF EmbedBatch, AtBuild
      <4>2. new \in BuildTypes /\ new.pc = "swap" /\ new.g = build[b].g /\ new.delivery = build[b].delivery
        BY <1>0 DEF BuildTypes
      <4> QED BY <4>1, <4>2
    <3>2. CASE build[b].pending # {}
      <4> DEFINE batch == FirstOf(build[b].pending, EmbedSize)
                 new == [build[b] EXCEPT !.vectors = batch, !.pending = @ \ batch]
      <4>1. build' = [build EXCEPT ![b].vectors = batch, ![b].pending = @ \ batch]
        BY <1>3, <3>2 DEF EmbedBatch
      <4>2. batch \in SUBSET Chunks
        BY <1>0 DEF FirstOf, BuildTypes
      <4> HIDE DEF batch
      <4>3. new \in BuildTypes /\ new.pc = build[b].pc /\ new.g = build[b].g /\ new.delivery = build[b].delivery
        BY <1>0, <4>2 DEF BuildTypes
      <4>4. build' = [build EXCEPT ![b] = new]
        BY <1>0, <4>1 DEF BuildTypes
      <4> QED BY <2>1, <4>3, <4>4
    <3> QED BY <3>1, <3>2
  <2>3. gen[build[b].g].rows = Chunks
    BY <2>1 DEF RowsComplete
  <2>4. buildJob[build[b].g].deliveries = 1 => gen[build[b].g].status = "building"
    BY <2>1 DEF FirstDelivery, Working
  <2> QED BY <2>1, <2>2, <2>3, <2>4, GoingOn DEF Working
<1>4. CASE BuildRaises(b)
  <2> DEFINE new == [build[b] EXCEPT !.pc = "failing"]
  <2>1. build[b].pc # "idle" /\ UNCHANGED <<gen, buildJob>> /\ build' = [build EXCEPT ![b] = new]
    BY <1>4 DEF BuildRaises, AtBuild
  <2>2. new \in BuildTypes /\ new.pc = "failing" /\ new.g = build[b].g /\ new.delivery = build[b].delivery
    BY <1>0 DEF BuildTypes
  <2> HIDE DEF new
  <2> QED BY <2>1, <2>2, GoingOn DEF Working
<1> QED BY <1>1, <1>2, <1>3, <1>4

(* Two workers with one job have two deliveries of it.                     *)
LEMMA OnlyWorker ==
  ASSUME IndexInv, NEW b \in Builders, NEW c \in Builders, Working(b), Working(c),
         build[b].g = build[c].g, buildJob[build[b].g].deliveries <= 1
  PROVE  b = c
<1>1. build[b].g \in Generations /\ build[b].delivery \in Nat /\ build[c].delivery \in Nat
      /\ buildJob[build[b].g].deliveries \in Nat
  BY DEF IndexInv, IndexTypes, BuildTypes, BuildJobs
<1>2. build[b].delivery \in 1..buildJob[build[b].g].deliveries
      /\ build[c].delivery \in 1..buildJob[build[b].g].deliveries
  BY DEF IndexInv, OwnDeliveries
<1>3. build[b].delivery = build[c].delivery
  BY <1>1, <1>2
<1> QED BY <1>3 DEF IndexInv, OwnDeliveries

(* A worker writes the generation it builds, and may supersede others.     *)
RowsGrow == \A g \in Generations : gen[g].rows \subseteq gen'[g].rows

OthersStand(own) ==
  \A g \in Generations : g # own =>
    gen'[g].status = gen[g].status \/ (gen[g].status = "ready" /\ gen'[g].status = "superseded")

Writes(b, new) ==
  /\ Working(b)
  /\ build' = [build EXCEPT ![b] = new]
  /\ new.pc # "idle" => new.g = build[b].g /\ new.delivery = build[b].delivery
  /\ gen' \in [Generations -> GenTypes]
  /\ buildJob' \in [Generations -> BuildJobs]
  /\ \A g \in Generations : buildJob'[g].deliveries = buildJob[g].deliveries
  /\ RowsGrow
  /\ OthersStand(build[b].g)
  /\ gen'[build[b].g].status = "ready" => gen'[build[b].g].rows = Chunks

(* Where it goes on from there, it finds what it has written.              *)
Finds(new) ==
  /\ new.pc = "insert" => Chunks \subseteq gen'[new.g].rows \cup new.pending
  /\ new.pc \in {"embed", "swap"} => gen'[new.g].rows = Chunks
  /\ new.pc # "idle" /\ buildJob[new.g].deliveries = 1 =>
       /\ new.pc \in {"status", "create"} => gen'[new.g].status = "absent"
       /\ new.pc \in {"existing", "insert", "embed", "swap"} => gen'[new.g].status = "building"

LEMMA GenerationWritten ==
  ASSUME IndexInv, NEW b \in Builders, NEW new \in BuildTypes, Writes(b, new), Finds(new), OneReady'
  PROVE  IndexInv'
<1> USE DEF IndexInv, Writes, Finds, RowsGrow, OthersStand
<1>1. build'[b] = new /\ \A c \in Builders \ {b} : build'[c] = build[c]
  BY DEF IndexTypes
<1>2. IndexTypes'
  BY DEF IndexTypes
<1>3. OwnDeliveries'
  <2>1. \A c \in Builders : Working(c)' => build'[c].g = build[c].g /\ build'[c].delivery = build[c].delivery
                                           /\ Working(c) /\ build[c].g \in Generations
    BY <1>1 DEF Working, IndexTypes, BuildTypes
  <2> QED BY <2>1 DEF OwnDeliveries
<1>4. \A g \in Generations : gen'[g].rows \subseteq Chunks
  BY DEF GenTypes
<1>5. RowsComplete'
  <2>1. \A c \in Builders : build[c].g \in Generations
    BY DEF IndexTypes, BuildTypes
  <2>2. ASSUME NEW c \in Builders
        PROVE  /\ build'[c].pc = "insert" => Chunks \subseteq gen'[build'[c].g].rows \cup build'[c].pending
               /\ build'[c].pc \in {"embed", "swap"} => gen'[build'[c].g].rows = Chunks
    <3>1. CASE c = b
      BY <1>1, <3>1
    <3>2. CASE c # b
      <4>1. build'[c] = build[c] /\ build[c].g \in Generations
        BY <1>1, <2>1, <3>2
      <4>2. gen[build[c].g].rows \subseteq gen'[build[c].g].rows /\ gen'[build[c].g].rows \subseteq Chunks
        BY <1>4, <4>1
      <4>3. /\ build[c].pc = "insert" => Chunks \subseteq gen[build[c].g].rows \cup build[c].pending
            /\ build[c].pc \in {"embed", "swap"} => gen[build[c].g].rows = Chunks
        BY DEF RowsComplete
      <4> DEFINE old == gen[build[c].g].rows
                 now == gen'[build[c].g].rows
      <4>4. /\ build[c].pc = "insert" => Chunks \subseteq now \cup build[c].pending
            /\ build[c].pc \in {"embed", "swap"} => now = Chunks
        <5>1. old \subseteq now /\ now \subseteq Chunks
          BY <4>2
        <5>2. /\ build[c].pc = "insert" => Chunks \subseteq old \cup build[c].pending
              /\ build[c].pc \in {"embed", "swap"} => old = Chunks
          BY <4>3
        <5> HIDE DEF old, now, IndexInv, Writes, Finds, RowsGrow, OthersStand
        <5> QED BY <5>1, <5>2
      <4> HIDE DEF RowsGrow, OthersStand, Writes, Finds, IndexInv
      <4> QED BY <4>1, <4>4
    <3> QED BY <3>1, <3>2
  <2>3. ASSUME NEW g \in Generations, gen'[g].status = "ready"
        PROVE  gen'[g].rows = Chunks
    <3>1. CASE g = build[b].g
      BY <2>3, <3>1
    <3>2. CASE g # build[b].g
      <4>1. gen[g].status = "ready"
        BY <2>3, <3>2
      <4>2. gen[g].rows = Chunks /\ gen[g].rows \subseteq gen'[g].rows /\ gen'[g].rows \subseteq Chunks
        BY <1>4, <4>1 DEF RowsComplete
      <4> QED BY <4>2
    <3> QED BY <3>1, <3>2
  <2> QED BY <2>2, <2>3 DEF RowsComplete
<1>6. FirstDelivery'
  <2>1. ASSUME NEW g \in Generations, buildJob'[g].deliveries = 0
        PROVE  gen'[g].status = "absent"
    <3>1. g # build[b].g
      BY <2>1 DEF OwnDeliveries
    <3> QED BY <2>1, <3>1 DEF FirstDelivery
  <2>2. ASSUME NEW c \in Builders, Working(c)', buildJob'[build'[c].g].deliveries = 1
        PROVE  /\ build'[c].pc \in {"status", "create"} => gen'[build'[c].g].status = "absent"
               /\ build'[c].pc \in {"existing", "insert", "embed", "swap"} => gen'[build'[c].g].status = "building"
    <3>1. CASE c = b
      <4>1. build'[c] = new /\ new.pc # "idle" /\ new.g \in Generations
        BY <1>1, <2>2, <3>1 DEF Working, BuildTypes
      <4> QED BY <2>2, <4>1
    <3>2. CASE c # b
      <4>1. build'[c] = build[c] /\ Working(c) /\ build[c].g \in Generations
        BY <1>1, <2>2, <3>2 DEF Working, IndexTypes, BuildTypes
      <4>2. buildJob[build[c].g].deliveries = 1
        BY <2>2, <4>1
      <4>3. build[c].g # build[b].g
        BY <3>2, <4>1, <4>2, OnlyWorker
      <4> QED BY <4>1, <4>2, <4>3 DEF FirstDelivery
    <3> QED BY <3>1, <3>2
  <2> QED BY <2>1, <2>2 DEF FirstDelivery
<1> QED BY <1>2, <1>3, <1>5, <1>6

LEMMA WritingKeepsIndex ==
  ASSUME IndexInv, NEW b \in Builders,
         \/ CreateGeneration(b) \/ InsertChunks(b) \/ SetEmbedding(b) \/ SwapReady(b)
         \/ MarkGenerationFailed(b) \/ EndJob(b) \/ BuildAbandoned(b) \/ BuilderDies(b)
  PROVE  IndexInv'
<1> USE DEF IndexInv
<1> DEFINE own == build[b].g
<1>0. /\ build \in [Builders -> BuildTypes] /\ build[b] \in BuildTypes /\ own \in Generations
      /\ gen \in [Generations -> GenTypes]
      /\ buildJob \in [Generations -> BuildJobs]
  BY DEF IndexTypes, BuildTypes
<1>a. \A c : [build[b] EXCEPT !.pc = c].g = own /\ [build[b] EXCEPT !.pc = c].delivery = build[b].delivery
             /\ [build[b] EXCEPT !.pc = c].pc = c
  BY <1>0 DEF BuildTypes
<1>1. CASE CreateGeneration(b)
  <2> DEFINE new == [build[b] EXCEPT !.pc = "existing"]
             put == IF gen[own].status \in {"absent", "failed"} THEN "building" ELSE gen[own].status
  <2>1. /\ build[b].pc = "create" /\ UNCHANGED buildJob /\ build' = [build EXCEPT ![b] = new]
        /\ gen' = [gen EXCEPT ![own].status = put]
    BY <1>0, <1>1 DEF CreateGeneration, AtBuild
  <2>2. put \in {"absent", "building", "ready", "superseded", "failed"}
    BY <1>0 DEF GenTypes
  <2>3. put = "ready" => gen[own].status = "ready"
    OBVIOUS
  <2>4. buildJob[own].deliveries = 1 => put = "building"
    BY <2>1 DEF FirstDelivery, Working
  <2> HIDE DEF put
  <2>5. /\ gen' \in [Generations -> GenTypes] /\ gen'[own].status = put /\ gen'[own].rows = gen[own].rows
        /\ \A g \in Generations \ {own} : gen'[g] = gen[g]
    BY <1>0, <2>1, <2>2 DEF GenTypes
  <2>6. new \in BuildTypes
    BY <1>0 DEF BuildTypes
  <2>7. OneReady'
    BY <1>0, <2>3, <2>5 DEF OneReady
  <2>8. gen'[own].status = "ready" => gen'[own].rows = Chunks
    BY <1>0, <2>3, <2>5 DEF RowsComplete
  <2>g. RowsGrow
    BY <1>0, <2>5 DEF RowsGrow
  <2>9. \A g \in Generations \ {own} : gen'[g].status = gen[g].status
    BY <1>0, <2>5
  <2>10. new.pc = "existing" /\ new.g = own /\ new.delivery = build[b].delivery
    BY <1>a
  <2> HIDE DEF new, own
  <2>o. OthersStand(own)
    BY <1>0, <2>5 DEF OthersStand
  <2>w. Writes(b, new)
    <3> HIDE DEF IndexInv
    <3> QED BY <1>0, <2>1, <2>4, <2>5, <2>6, <2>7, <2>8, <2>9, <2>10, <2>g, <2>o DEF Writes, Working, own
  <2>f. Finds(new)
    BY <1>0, <2>1, <2>4, <2>5, <2>6, <2>7, <2>8, <2>9, <2>10 DEF Finds
  <2> HIDE DEF IndexInv
  <2> QED BY <2>w, <2>f, <2>6, <2>7, GenerationWritten
<1>2. CASE InsertChunks(b)
  <2> DEFINE new == [build[b] EXCEPT !.pc = "embed"]
             put == gen[own].rows \cup build[b].pending
  <2>1. /\ build[b].pc = "insert" /\ UNCHANGED buildJob /\ build' = [build EXCEPT ![b] = new]
        /\ gen' = [gen EXCEPT ![own].rows = put]
    BY <1>0, <1>2 DEF InsertChunks, AtBuild, WithPending
  <2>2. put = Chunks /\ gen[own].rows \subseteq put
    BY <1>0, <2>1 DEF RowsComplete, GenTypes, BuildTypes
  <2>4. buildJob[own].deliveries = 1 => gen[own].status = "building"
    BY <2>1 DEF FirstDelivery, Working
  <2> HIDE DEF put
  <2>5. /\ gen' \in [Generations -> GenTypes] /\ gen'[own].rows = put /\ gen'[own].status = gen[own].status
        /\ \A g \in Generations \ {own} : gen'[g] = gen[g]
    <3>1. [gen[own] EXCEPT !.rows = put] \in GenTypes
      BY <1>0, <2>2 DEF GenTypes
    <3>2. gen' = [gen EXCEPT ![own] = [gen[own] EXCEPT !.rows = put]]
      BY <2>1
    <3>3. gen \in [Generations -> GenTypes] /\ own \in Generations
      BY <1>0 DEF IndexTypes
    <3>4. [gen[own] EXCEPT !.rows = put].rows = put /\ [gen[own] EXCEPT !.rows = put].status = gen[own].status
      BY <1>0 DEF GenTypes
    <3> HIDE DEF own, IndexInv
    <3> QED BY <3>1, <3>2, <3>3, <3>4
  <2>6. new \in BuildTypes
    BY <1>0 DEF BuildTypes
  <2>g. RowsGrow
    BY <1>0, <2>2, <2>5 DEF RowsGrow
  <2>9. \A g \in Generations : gen'[g].status = gen[g].status
    BY <1>0, <2>2, <2>5
  <2>7. OneReady'
    BY <2>9 DEF OneReady
  <2>10. new.pc = "embed" /\ new.g = own /\ new.delivery = build[b].delivery
    BY <1>a
  <2> HIDE DEF new, own
  <2>o. OthersStand(own)
    BY <2>9 DEF OthersStand
  <2>w. Writes(b, new)
    <3> HIDE DEF IndexInv
    <3> QED BY <1>0, <2>1, <2>2, <2>4, <2>5, <2>6, <2>7, <2>9, <2>10, <2>g, <2>o DEF Writes, Working, own
  <2>f. Finds(new)
    BY <1>0, <2>1, <2>2, <2>4, <2>5, <2>6, <2>7, <2>9, <2>10 DEF Finds
  <2> HIDE DEF IndexInv
  <2> QED BY <2>w, <2>f, <2>6, <2>7, GenerationWritten
<1>3. CASE SetEmbedding(b)
  <2>1. PICK c \in FirstOf(build[b].vectors, 1) :
          /\ gen' = [gen EXCEPT ![own].embedded = @ \cup {c}]
          /\ build' = [build EXCEPT ![b].vectors = @ \ {c}]
    BY <1>3 DEF SetEmbedding
  <2>2. build[b].pc = "embed" /\ UNCHANGED buildJob
    BY <1>3 DEF SetEmbedding
  <2> DEFINE new == [build[b] EXCEPT !.vectors = @ \ {c}]
  <2>3. c \in Chunks
    BY <1>0 DEF FirstOf, BuildTypes
  <2>4. buildJob[own].deliveries = 1 => gen[own].status = "building"
    BY <2>2 DEF FirstDelivery, Working
  <2>5. /\ gen' \in [Generations -> GenTypes]
        /\ \A g \in Generations : gen'[g].status = gen[g].status /\ gen'[g].rows = gen[g].rows
    BY <1>0, <2>1, <2>3 DEF GenTypes
  <2>6. /\ new \in BuildTypes /\ new.pc = "embed" /\ new.g = own /\ new.delivery = build[b].delivery
        /\ build' = [build EXCEPT ![b] = new]
    BY <1>0, <2>1, <2>2 DEF BuildTypes
  <2>7. OneReady'
    BY <2>5 DEF OneReady
  <2>8. gen[own].rows = Chunks
    BY <2>2 DEF RowsComplete
  <2> HIDE DEF new, own
  <2>g. RowsGrow
    BY <2>5 DEF RowsGrow
  <2>o. OthersStand(own)
    BY <2>5 DEF OthersStand
  <2>w. Writes(b, new)
    <3> HIDE DEF IndexInv
    <3> QED BY <1>0, <2>2, <2>4, <2>5, <2>6, <2>7, <2>8, <2>g, <2>o DEF Writes, Working, own
  <2>f. Finds(new)
    BY <1>0, <2>2, <2>4, <2>5, <2>6, <2>7, <2>8 DEF Finds
  <2> HIDE DEF IndexInv
  <2> QED BY <2>w, <2>f, <2>6, <2>7, GenerationWritten
<1>4. CASE SwapReady(b)
  <2> DEFINE new == [build[b] EXCEPT !.pc = "done"]
  <2>1. /\ build[b].pc = "swap" /\ UNCHANGED buildJob /\ build' = [build EXCEPT ![b] = new]
        /\ gen' = Swapped(own)
    BY <1>0, <1>4 DEF SwapReady, AtBuild
  <2>2. gen[own].rows = Chunks
    BY <2>1 DEF RowsComplete
  <2>3. /\ DOMAIN gen' = Generations /\ gen' = [h \in Generations |-> gen'[h]]
        /\ \A h \in Generations :
             \/ h # own /\ gen[h].status = "ready" /\ gen'[h] = [gen[h] EXCEPT !.status = "superseded"]
             \/ h = own /\ gen[h].status = "building" /\ gen'[h] = [gen[h] EXCEPT !.status = "ready"]
             \/ gen'[h] = gen[h] /\ ~(h # own /\ gen[h].status = "ready")
                /\ ~(h = own /\ gen[h].status = "building")
    BY <2>1 DEF Swapped
  <2>4. \A h \in Generations :
          /\ gen'[h] \in GenTypes /\ gen'[h].rows = gen[h].rows
          /\ h # own => \/ gen[h].status = "ready" /\ gen'[h].status = "superseded"
                        \/ gen[h].status # "ready" /\ gen'[h].status = gen[h].status
    BY <1>0, <2>3 DEF GenTypes
  <2>5. gen' \in [Generations -> GenTypes]
    BY <2>3, <2>4
  <2>6. new \in BuildTypes
    BY <1>0 DEF BuildTypes
  <2>7. OneReady'
    BY <2>4 DEF OneReady
  <2>g. RowsGrow
    BY <2>4 DEF RowsGrow
  <2>9. /\ gen'[own].rows = Chunks
        /\ OthersStand(own)
    <3>1. gen'[own].rows = Chunks
      BY <1>0, <2>2, <2>4
    <3>2. OthersStand(own)
      BY <2>4 DEF OthersStand
    <3> HIDE DEF own, IndexInv
    <3> QED BY <3>1, <3>2
  <2>10. new.pc = "done" /\ new.g = own /\ new.delivery = build[b].delivery
    BY <1>a
  <2> HIDE DEF new, own
  <2>o. OthersStand(own)
    BY <2>9 DEF OthersStand
  <2>w. Writes(b, new)
    <3> HIDE DEF IndexInv
    <3> QED BY <1>0, <2>1, <2>5, <2>6, <2>7, <2>9, <2>10, <2>g, <2>o DEF Writes, Working, own
  <2>f. Finds(new)
    BY <1>0, <2>1, <2>5, <2>6, <2>7, <2>9, <2>10 DEF Finds
  <2> HIDE DEF IndexInv
  <2> QED BY <2>w, <2>f, <2>6, <2>7, GenerationWritten
<1>5. CASE EndJob(b) \/ BuildAbandoned(b) \/ BuilderDies(b)
  <2>1. PICK state \in {"queued", "claimed", "settled"}, outcome \in BOOLEAN : LeaveBuild(b, state, outcome)
    <3>1. BuildEnds(b) \subseteq {"queued", "claimed", "settled"}
      BY <1>0 DEF BuildEnds, BuildJobs
    <3>2. AfterBuildLease(own) \in {"queued", "settled"} /\ buildJob[own].state \in {"queued", "claimed", "settled"}
      BY <1>0 DEF AfterBuildLease, BuildJobs
    <3> QED BY <1>5, <3>1, <3>2 DEF EndJob, BuildAbandoned, BuilderDies
  <2> DEFINE stranded == \/ buildJob[own].stranded
                         \/ state # "queued" /\ (~outcome \/ buildJob[own].state = "queued")
             job == [buildJob[own] EXCEPT !.state = state, !.stranded = stranded]
  <2>2. /\ Working(b) /\ gen' = gen /\ build' = [build EXCEPT ![b] = IdleBuild]
        /\ buildJob' = [buildJob EXCEPT ![own] = job]
    BY <1>0, <1>5, <2>1 DEF LeaveBuild, EndJob, BuildAbandoned, BuilderDies, Working
  <2>3. job \in BuildJobs /\ job.deliveries = buildJob[own].deliveries
    BY <1>0 DEF BuildJobs
  <2> HIDE DEF job
  <2>4. /\ buildJob' \in [Generations -> BuildJobs]
        /\ \A g \in Generations : buildJob'[g].deliveries = buildJob[g].deliveries
    BY <1>0, <2>2, <2>3
  <2>5. OneReady' /\ (gen'[own].status = "ready" => gen'[own].rows = Chunks)
    BY <1>0, <2>2 DEF OneReady, RowsComplete
  <2> HIDE DEF own
  <2>g. RowsGrow
    BY <2>2 DEF RowsGrow
  <2>o. OthersStand(own)
    BY <2>2 DEF OthersStand
  <2>w. Writes(b, IdleBuild)
    <3> HIDE DEF IndexInv
    <3> QED BY <1>0, <2>2, <2>4, <2>5, IdleTypes, <2>g, <2>o DEF Writes, own
  <2>f. Finds(IdleBuild)
    BY IdleTypes DEF Finds
  <2> HIDE DEF IndexInv
  <2> QED BY <2>w, <2>f, <2>5, IdleTypes, GenerationWritten
<1>6. CASE MarkGenerationFailed(b)
  <2> DEFINE new == [build[b] EXCEPT !.pc = "done"]
  <2>1. /\ Working(b) /\ UNCHANGED buildJob /\ build' = [build EXCEPT ![b] = new]
        /\ new \in BuildTypes /\ new.pc = "done" /\ new.g = own /\ new.delivery = build[b].delivery
    BY <1>0, <1>6 DEF MarkGenerationFailed, AtBuild, Working, BuildTypes
  <2>2. /\ gen' = [h \in Generations |-> gen'[h]]
        /\ \A h \in Generations : \/ gen'[h] = gen[h]
                                  \/ h = own /\ gen'[h] = [gen[h] EXCEPT !.status = "failed"]
    BY <1>6 DEF MarkGenerationFailed, FailedBy
  <2>3. ASSUME NEW h \in Generations
        PROVE  /\ gen'[h] \in GenTypes /\ gen'[h].rows = gen[h].rows
               /\ gen'[h].status = gen[h].status \/ (h = own /\ gen'[h].status = "failed")
    <3>1. gen[h] \in GenTypes
      BY <1>0
    <3>2. gen'[h] = gen[h] \/ (h = own /\ gen'[h] = [gen[h] EXCEPT !.status = "failed"])
      BY <2>2
    <3>3. LET failed == [gen[h] EXCEPT !.status = "failed"]
          IN  failed \in GenTypes /\ failed.rows = gen[h].rows /\ failed.status = "failed"
      BY <3>1 DEF GenTypes
    <3> HIDE DEF IndexInv, own
    <3> QED BY <3>1, <3>2, <3>3
  <2>4. gen' \in [Generations -> GenTypes]
    BY <2>2, <2>3
  <2>5. OneReady' /\ (gen'[own].status = "ready" => gen'[own].rows = Chunks)
    BY <1>0, <2>3 DEF OneReady, RowsComplete
  <2> HIDE DEF own, new
  <2>g. RowsGrow
    BY <2>3 DEF RowsGrow
  <2>o. OthersStand(own)
    BY <2>3 DEF OthersStand
  <2>w. Writes(b, new)
    <3> HIDE DEF IndexInv
    <3> QED BY <1>0, <2>1, <2>4, <2>5, <2>g, <2>o DEF Writes, own
  <2>f. Finds(new)
    BY <2>1 DEF Finds
  <2> HIDE DEF IndexInv
  <2> QED BY <2>w, <2>f, <2>1, <2>5, GenerationWritten
<1> QED BY <1>1, <1>2, <1>3, <1>4, <1>5, <1>6

(* A lease that runs out, and a cancellation, leave the worker and the     *)
(* generation as they are.                                                 *)
LEMMA BuildJobTakenKeepsInv ==
  ASSUME IndexInv, NEW g \in Generations, BuildLeaseLost(g) \/ CancelBuild(g)
  PROVE  IndexInv'
<1>1. UNCHANGED <<gen, build>> /\ buildJob \in [Generations -> BuildJobs]
  BY DEF IndexInv, IndexTypes, BuildLeaseLost, CancelBuild
<1>2. /\ buildJob' \in [Generations -> BuildJobs]
      /\ \A h \in Generations : buildJob'[h].deliveries = buildJob[h].deliveries
  <2>1. CASE BuildLeaseLost(g)
    BY <1>1, <2>1 DEF BuildLeaseLost, AfterBuildLease, BuildJobs
  <2>2. CASE CancelBuild(g)
    BY <1>1, <2>2 DEF CancelBuild, BuildJobs
  <2> QED BY <2>1, <2>2
<1>3. \A b \in Builders : build[b].g \in Generations
  BY DEF IndexInv, IndexTypes, BuildTypes
<1>4. IndexTypes' /\ OwnDeliveries'
  BY <1>1, <1>2, <1>3 DEF IndexInv, IndexTypes, OwnDeliveries, Working
<1>5. RowsComplete' /\ OneReady' /\ FirstDelivery'
  BY <1>1, <1>2, <1>3 DEF IndexInv, RowsComplete, OneReady, FirstDelivery, Working
<1> QED BY <1>4, <1>5 DEF IndexInv

-----------------------------------------------------------------------------
LEMMA IndexInvariant == IndexSpec => []IndexInv
<1>1. IndexInv /\ [IndexNext]_indexVars => IndexInv'
  <2> SUFFICES ASSUME IndexInv, [IndexNext]_indexVars PROVE IndexInv'
    OBVIOUS
  <2>1. CASE UNCHANGED indexVars
    BY <2>1 DEF indexVars, IndexInv, IndexTypes, OwnDeliveries, Working, RowsComplete, OneReady, FirstDelivery
  <2>2. CASE IndexNext
    BY <2>2, ClaimBuildKeepsInv, ReadingKeepsIndex, WritingKeepsIndex, BuildJobTakenKeepsInv
       DEF IndexNext, BuildStep
  <2> QED BY <2>1, <2>2
<1> QED BY <1>1, IndexInitInv, PTL DEF IndexSpec

(* At most one generation is ready: the set of them is empty or a          *)
(* singleton.                                                              *)
LEMMA AtMostOneReady == IndexInv => OneReadyAndComplete
<1> SUFFICES ASSUME IndexInv PROVE OneReadyAndComplete
  OBVIOUS
<1>1. Cardinality(Ready) <= 1
  <2>1. CASE Ready = {}
    BY <2>1, FS_EmptySet
  <2>2. CASE Ready # {}
    <3>1. PICK g : g \in Ready
      BY <2>2
    <3>2. Ready = {g}
      BY <3>1 DEF IndexInv, OneReady, Ready
    <3>3. Cardinality({g}) = 1
      BY FS_Singleton
    <3> HIDE DEF Ready
    <3> QED BY <3>2, <3>3
  <2> QED BY <2>1, <2>2
<1>2. \A g \in Ready : gen[g].rows = Chunks
  BY DEF IndexInv, RowsComplete, Ready
<1> QED BY <1>1, <1>2 DEF OneReadyAndComplete

(* Only a swap and a failing build take the ready state away.              *)
LEMMA ServingEnds ==
  ASSUME IndexInv, IndexNext, NEW g \in Generations, gen[g].status = "ready", gen'[g].status # "ready"
  PROVE  \/ \E h \in Generations : gen'[h].status = "ready" /\ gen[h].status = "building"
         \/ \E b \in Builders :
              \/ build[b].g = g /\ build[b].pc = "failing"
              \/ build[b].pc = "swap" /\ buildJob[build[b].g].deliveries > 1
<1> USE DEF IndexInv
<1>0. gen \in [Generations -> GenTypes]
  BY DEF IndexTypes
<1>1. PICK b \in Builders : BuildStep(b) \/ BuildRaises(b) \/ BuildAbandoned(b) \/ BuilderDies(b)
  BY DEF IndexNext, BuildLeaseLost, CancelBuild
<1> DEFINE own == build[b].g
<1>2. own \in Generations /\ buildJob[own].deliveries \in Nat
  BY DEF IndexTypes, BuildTypes, BuildJobs
<1>3. CASE UNCHANGED gen
  BY <1>3
<1>4. CASE CreateGeneration(b) \/ InsertChunks(b) \/ SetEmbedding(b)
  <2>1. CASE CreateGeneration(b)
    BY <1>0, <1>2, <2>1 DEF CreateGeneration, GenTypes
  <2>2. CASE InsertChunks(b)
    BY <1>0, <1>2, <2>2 DEF InsertChunks, GenTypes
  <2>3. CASE SetEmbedding(b)
    BY <1>0, <1>2, <2>3 DEF SetEmbedding, GenTypes
  <2> QED BY <1>4, <2>1, <2>2, <2>3
<1>5. CASE MarkGenerationFailed(b)
  BY <1>5 DEF MarkGenerationFailed, FailedBy
<1>6. CASE SwapReady(b)
  <2>1. build[b].pc = "swap" /\ gen' = Swapped(own)
    BY <1>6 DEF SwapReady
  <2>2. CASE gen[own].status = "building"
    <3>1. gen'[own] = [gen[own] EXCEPT !.status = "ready"]
      BY <1>2, <2>1, <2>2 DEF Swapped
    <3>2. gen'[own].status = "ready"
      BY <1>0, <1>2, <3>1 DEF GenTypes
    <3> QED BY <1>2, <2>2, <3>2
  <2>3. CASE gen[own].status # "building"
    <3>1. buildJob[own].deliveries # 1 /\ buildJob[own].deliveries # 0
      BY <1>2, <2>1, <2>3 DEF FirstDelivery, Working, OwnDeliveries
    <3> QED BY <1>2, <2>1, <3>1
  <2> QED BY <2>2, <2>3
<1> QED BY <1>1, <1>3, <1>4, <1>5, <1>6
    DEF BuildStep, ClaimBuild, ReadStatus, ReadExisting, EmbedBatch, EndJob, BuildRaises, BuildAbandoned,
        BuilderDies, LeaveBuild

(* Retrieval meets one ready and complete generation at a time, and loses  *)
(* it only to the next one, to its own failing build, or to the swap of a  *)
(* job that was handed out twice.                                          *)
THEOREM IndexSafety == IndexSpec => IndexSafe
<1>1. IndexInv /\ [IndexNext]_indexVars
        => [\A g \in Generations :
              gen[g].status = "ready" /\ gen'[g].status # "ready"
                => \/ \E h \in Generations : gen'[h].status = "ready" /\ gen[h].status = "building"
                   \/ \E b \in Builders :
                        \/ build[b].g = g /\ build[b].pc = "failing"
                        \/ build[b].pc = "swap" /\ buildJob[build[b].g].deliveries > 1]_indexVars
  BY ServingEnds DEF indexVars
<1> QED BY <1>1, AtMostOneReady, IndexInvariant, PTL DEF IndexSpec, IndexSafe, SwapKeepsServing

-----------------------------------------------------------------------------
Ids    == DOMAIN document.nodes
Texts  == Seq({"w", "_"})
Places == [node : Ids, from : Nat, to : Nat]
Drafts == [kind : Leaves, text : Texts, node : Ids, from : Nat, to : Nat, spans : Seq(Places)]

ChunkingTypes ==
  /\ document \in Documents
  /\ stack \in Seq(Ids) /\ walked \in Seq(Ids)
  /\ units \in Seq(Drafts) /\ chunks \in Seq(Drafts)
  /\ phase \in {"walk", "group", "gather", "split", "done"}
  /\ next \in 1..Len(units) + 1 /\ cut \in Nat

(* What is walked or still to be walked is there once, and for a reason.   *)
WalkedOnce ==
  /\ \A i, j \in DOMAIN stack : stack[i] = stack[j] => i = j
  /\ \A i, j \in DOMAIN walked : walked[i] = walked[j] => i = j
  /\ \A i \in DOMAIN walked, j \in DOMAIN stack : walked[i] # stack[j]

Reached(d, w, id, n) ==
  \/ \E i \in DOMAIN d.roots : id = d.roots[i]
  \/ \E i \in 1..n : \E j \in DOMAIN Below(d, w[i]) : id = Below(d, w[i])[j]

ReachedAll ==
  /\ \A j \in DOMAIN walked : Reached(document, walked, walked[j], j - 1)
  /\ \A q \in DOMAIN stack : Reached(document, walked, stack[q], Len(walked))

Met(w, s, id) == (\E i \in DOMAIN w : w[i] = id) \/ (\E q \in DOMAIN s : s[q] = id)

NoneLeftOut ==
  /\ \A i \in DOMAIN document.roots : Met(walked, stack, document.roots[i])
  /\ \A i \in DOMAIN walked : \A j \in DOMAIN Below(document, walked[i]) :
       Met(walked, stack, Below(document, walked[i])[j])

(* A child of what was visited from i on.                                  *)
ChildFrom(d, w, id, i, n) == \E p \in i..n : \E j \in DOMAIN Below(d, w[p]) : id = Below(d, w[p])[j]

(* Between a node and its next sibling come only descendants of the first. *)
SiblingsWait ==
  /\ \A q \in DOMAIN stack : \A b \in Ids : Adjacent(document, stack[q], b) => q < Len(stack) /\ stack[q + 1] = b
  /\ \A i \in DOMAIN walked : \A q \in DOMAIN stack : Adjacent(document, walked[i], stack[q]) =>
       /\ \A k \in i + 1..Len(walked) : ChildFrom(document, walked, walked[k], i, k - 1)
       /\ \A r \in 1..q - 1 : ChildFrom(document, walked, stack[r], i, Len(walked))
  /\ \A i, j \in DOMAIN walked : Adjacent(document, walked[i], walked[j]) =>
       i < j /\ \A k \in i + 1..j - 1 : ChildFrom(document, walked, walked[k], i, k - 1)

UnitsWalked ==
  /\ \A u \in DOMAIN units : IsUnit(document, units[u].node) /\ units[u] = NewUnit(document, units[u].node)
  /\ \A i \in DOMAIN walked : IsUnit(document, walked[i]) => \E u \in DOMAIN units : units[u].node = walked[i]
  /\ \A u \in DOMAIN units : \E i \in DOMAIN walked : walked[i] = units[u].node
  /\ \A u, v \in DOMAIN units : u < v =>
        \E i, j \in DOMAIN walked : i < j /\ walked[i] = units[u].node /\ walked[j] = units[v].node

SpanOf(us, s, u) == s.node = us[u].node /\ s.from < s.to /\ s.to <= Len(us[u].text)

Whole(us, s, u) == us[u].kind = "table" \/ ~Overflows(us[u]) => s.from = 0 /\ s.to = Len(us[u].text)

Shows(us, text, s, u) ==
  \E at \in 0..Len(text) : /\ at + s.to - s.from <= Len(text)
                           /\ \A c \in s.from + 1..s.to : text[at + c - s.from] = us[u].text[c]

(* Of a unit before v.                                                     *)
Cites(us, text, s, v) == \E u \in DOMAIN us : u < v /\ SpanOf(us, s, u) /\ Whole(us, s, u) /\ Shows(us, text, s, u)

Ordered(us, s, t) == \E u, v \in DOMAIN us : /\ us[u].node = s.node /\ us[v].node = t.node
                                             /\ u < v \/ (u = v /\ s.to <= t.from)

Sound(us, d, v) ==
  /\ d.spans # <<>> /\ d.node = d.spans[1].node /\ d.from = d.spans[1].from /\ d.to = d.spans[1].to
  /\ \A i \in DOMAIN d.spans : Cites(us, d.text, d.spans[i], v)
  /\ \A i, j \in DOMAIN d.spans : i < j => Ordered(us, d.spans[i], d.spans[j])
  /\ Overflows(d) => d.kind = "table" /\ Len(d.spans) = 1

AllBefore(us, c, d) == \A i \in DOMAIN c.spans, j \in DOMAIN d.spans : Ordered(us, c.spans[i], d.spans[j])

Covered(us, cs, u, c) == \E k \in DOMAIN cs : \E i \in DOMAIN cs[k].spans :
  cs[k].spans[i].node = us[u].node /\ cs[k].spans[i].from < c /\ c <= cs[k].spans[i].to

(* The chunks so far, with the unit that is still growing.                 *)
Drafted == IF phase = "gather" THEN Append(chunks, cursor) ELSE chunks

Frontier == IF phase = "split" THEN next + 1 ELSE next

InOrder(us, cs, v) ==
  /\ \A k \in DOMAIN cs : Sound(us, cs[k], v)
  /\ \A k, l \in DOMAIN cs : k < l => AllBefore(us, cs[k], cs[l])

CoveredTo(us, cs, n) == \A u \in DOMAIN us : u < n => \A c \in 1..Len(us[u].text) : Covered(us, cs, u, c)

DraftsSound == InOrder(units, Drafted, Frontier) /\ CoveredTo(units, Drafted, next)

EndsBy(us, d, n, c) ==
  \A i \in DOMAIN d.spans : \A u \in DOMAIN us :
    d.spans[i].node = us[u].node => u < n \/ (u = n /\ d.spans[i].to <= c)

Splitting ==
  phase = "split" =>
    /\ next \in DOMAIN units /\ Overflows(Unit) /\ Unit.kind # "table" /\ cut <= Len(Unit.text)
    /\ \A c \in 1..cut : Covered(units, chunks, next, c)
    /\ \A k \in DOMAIN chunks : EndsBy(units, chunks[k], next, cut)

Gathering == phase = "gather" => cursor \in Drafts /\ ~Overflows(cursor)

Phases ==
  /\ phase = "walk" => chunks = <<>> /\ next = 1
  /\ phase # "walk" => stack = <<>>
  /\ phase = "done" => next > Len(units)

ChunkingInv ==
  /\ ChunkingTypes
  /\ WalkedOnce /\ ReachedAll /\ NoneLeftOut /\ SiblingsWait /\ UnitsWalked
  /\ DraftsSound /\ Splitting /\ Gathering /\ Phases

-----------------------------------------------------------------------------
(* The parts of a sequence that the proofs look at.                        *)
LEMMA AppendAt ==
  ASSUME NEW S, NEW s \in Seq(S), NEW x \in S
  PROVE  /\ Append(s, x) \in Seq(S) /\ Len(Append(s, x)) = Len(s) + 1
         /\ DOMAIN Append(s, x) = 1..Len(s) + 1 /\ DOMAIN s = 1..Len(s)
         /\ \A i \in 1..Len(s) : Append(s, x)[i] = s[i]
         /\ Append(s, x)[Len(s) + 1] = x
OBVIOUS

LEMMA ConcatAt ==
  ASSUME NEW S, NEW s \in Seq(S), NEW t \in Seq(S)
  PROVE  /\ s \o t \in Seq(S) /\ Len(s \o t) = Len(s) + Len(t)
         /\ DOMAIN (s \o t) = 1..Len(s) + Len(t)
         /\ \A i \in 1..Len(s) : (s \o t)[i] = s[i]
         /\ \A i \in 1..Len(t) : (s \o t)[Len(s) + i] = t[i]
         /\ \A i \in 1..Len(s) + Len(t) : i > Len(s) => (s \o t)[i] = t[i - Len(s)]
OBVIOUS

-----------------------------------------------------------------------------
LEMMA TextIs ==
  ASSUME NEW text \in Texts
  PROVE  /\ Len(text) \in Nat /\ DOMAIN text = 1..Len(text) /\ WordEnds(text) \subseteq 1..Len(text)
         /\ \A i \in 1..Len(text) : text[i] \in {"w", "_"}
<1>1. Len(text) \in Nat /\ DOMAIN text = 1..Len(text)
  BY LenProperties DEF Texts
<1>2. \A i \in 1..Len(text) : text[i] \in {"w", "_"}
  BY ElementOfSeq DEF Texts
<1> QED BY <1>1, <1>2 DEF WordEnds

LEMMA SubText ==
  ASSUME NEW text \in Texts, NEW from \in Nat, NEW to \in from + 1..Len(text)
  PROVE  /\ SubSeq(text, from + 1, to) \in Texts /\ Len(SubSeq(text, from + 1, to)) = to - from
         /\ \A i \in 1..to - from : SubSeq(text, from + 1, to)[i] = text[from + i]
<1>1. Len(text) \in Nat /\ from + 1 \in Int /\ to \in Int /\ from + 1 <= to
  <2>1. Len(text) \in Nat
    BY TextIs
  <2> QED BY <2>1
<1>2. \A i \in from + 1..to : text[i] \in {"w", "_"}
  <2>1. \A i \in 1..Len(text) : text[i] \in {"w", "_"}
    BY TextIs
  <2>2. from + 1..to \subseteq 1..Len(text)
    BY <1>1
  <2> QED BY <2>1, <2>2
<1>3. /\ SubSeq(text, from + 1, to) \in Seq({"w", "_"})
      /\ Len(SubSeq(text, from + 1, to)) = to - (from + 1) + 1
      /\ \A i \in 1..to - (from + 1) + 1 : SubSeq(text, from + 1, to)[i] = text[from + 1 + i - 1]
  <2> DEFINE Chars == {"w", "_"}
  <2>1. \A i \in from + 1..to : text[i] \in Chars
    BY <1>2
  <2> HIDE DEF Chars
  <2> DEFINE m == from + 1
  <2>2. m \in Int /\ m <= to /\ to \in Int /\ \A i \in m..to : text[i] \in Chars
    BY <1>1, <2>1
  <2> HIDE DEF m
  <2>3. /\ SubSeq(text, m, to) \in Seq(Chars)
        /\ Len(SubSeq(text, m, to)) = to - m + 1
        /\ \A i \in 1..to - m + 1 : SubSeq(text, m, to)[i] = text[m + i - 1]
    BY <2>2, SubSeqProperties
  <2> QED BY <2>3 DEF Chars, m
<1>4. to - (from + 1) + 1 = to - from /\ \A i \in 1..to - from : from + 1 + i - 1 = from + i
  BY <1>1
<1>5. SubSeq(text, from + 1, to) \in Texts /\ Len(SubSeq(text, from + 1, to)) = to - from
  BY <1>3, <1>4 DEF Texts
<1>6. \A i \in 1..to - from : SubSeq(text, from + 1, to)[i] = text[from + i]
  BY <1>3, <1>4
<1> QED BY <1>5, <1>6

LEMMA TokensNat ==
  ASSUME NEW text \in Texts
  PROVE  IsFiniteSet(WordEnds(text)) /\ Tokens(text) \in Nat
<1>1. WordEnds(text) \subseteq 1..Len(text) /\ Len(text) \in Nat
  BY TextIs
<1>2. IsFiniteSet(1..Len(text))
  BY <1>1, FS_Interval
<1>3. IsFiniteSet(WordEnds(text))
  BY <1>1, <1>2, FS_Subset
<1> QED BY <1>3, FS_CardinalityType DEF Tokens

LEMMA OneCharacter ==
  ASSUME NEW text \in Texts, Len(text) <= 1
  PROVE  Tokens(text) <= 1
<1>1. WordEnds(text) \subseteq {1}
  <2>1. Len(text) \in Nat /\ WordEnds(text) \subseteq 1..Len(text)
    BY TextIs
  <2>2. 1..Len(text) \subseteq {1}
    BY <2>1
  <2> QED BY <2>1, <2>2
<1>2. IsFiniteSet({1}) /\ Cardinality({1}) = 1
  BY FS_Singleton
<1>3. Cardinality(WordEnds(text)) <= Cardinality({1})
  BY <1>1, <1>2, FS_Subset
<1> QED BY <1>2, <1>3 DEF Tokens

LEMMA LeastOf ==
  ASSUME NEW S, S \subseteq Nat, S # {}
  PROVE  \E x \in S : \A y \in S : x <= y
<1> DEFINE R == OpToRel(<, Nat)
<1>1. IsWellFoundedOn(R, Nat)
  BY NatLessThanWellFounded
<1>2. \A x, y \in Nat : y < x => <<y, x>> \in R
  BY DEF OpToRel
<1> HIDE DEF R
<1>3. PICK x \in S : \A y \in S : ~(<<y, x>> \in R)
  BY <1>1, WFMin
<1>4. \A y \in S : ~(y < x)
  BY <1>2, <1>3
<1> QED BY <1>3, <1>4

LEMMA GreatestOf ==
  ASSUME NEW n \in Nat, NEW S, S \subseteq 0..n, S # {}
  PROVE  Max(S) \in S /\ \A y \in S : Max(S) >= y
<1> DEFINE T == {n - x : x \in S}
<1>1. T \subseteq Nat /\ T # {}
  <2>1. \A x \in S : n - x \in Nat
    OBVIOUS
  <2> QED BY <2>1
<1>2. PICK z \in T : \A y \in T : z <= y
  BY <1>1, LeastOf
<1>3. PICK x \in S : z = n - x
  BY <1>2
<1>4. \A y \in S : n - x <= n - y
  BY <1>2, <1>3
<1>5. \A y \in S : x >= y
  BY <1>4
<1> QED BY <1>5 DEF Max

(* _window_end: a window is not empty, ends within the text, and holds the *)
(* budget at most.                                                         *)
LEMMA WindowBounds ==
  ASSUME NEW text \in Texts, NEW start \in Nat, start < Len(text)
  PROVE  /\ WindowEnd(text, start) \in start + 1..Len(text)
         /\ SubSeq(text, start + 1, WindowEnd(text, start)) \in Texts
         /\ Tokens(SubSeq(text, start + 1, WindowEnd(text, start))) <= MaxTokens
<1> DEFINE taken == {i \in WordEnds(text) : i > start /\ Tokens(SubSeq(text, start + 1, i)) <= MaxTokens}
           least == Min({Len(text), start + 1})
           end   == Max(taken \cup {least})
<1>1. Len(text) \in Nat /\ WordEnds(text) \subseteq 1..Len(text)
  BY TextIs
<1>2. least = start + 1
  <2>1. start + 1 \in {Len(text), start + 1} /\ \A y \in {Len(text), start + 1} : start + 1 =< y
    BY <1>1
  <2>2. \A x \in {Len(text), start + 1} : (\A y \in {Len(text), start + 1} : x =< y) => x = start + 1
    BY <1>1
  <2> QED BY <2>1, <2>2 DEF Min
<1>3. WindowEnd(text, start) = end
  BY DEF WindowEnd
<1> HIDE DEF least
<1>4. taken \cup {least} \subseteq 0..Len(text) /\ taken \cup {least} # {}
  BY <1>1, <1>2
<1>5. end \in taken \cup {least} /\ \A y \in taken \cup {least} : end >= y
  <2> HIDE DEF taken
  <2> QED BY <1>1, <1>4, GreatestOf
<1>6. end \in start + 1..Len(text)
  BY <1>1, <1>2, <1>4, <1>5
<1>7. SubSeq(text, start + 1, end) \in Texts /\ Len(SubSeq(text, start + 1, end)) = end - start
  <2> HIDE DEF end
  <2> QED BY <1>6, SubText
<1>8. Tokens(SubSeq(text, start + 1, end)) <= MaxTokens
  <2>1. CASE end \in taken
    BY <2>1
  <2>2. CASE end = least
    <3>1. Len(SubSeq(text, start + 1, end)) <= 1
      BY <1>2, <1>7, <2>2
    <3> HIDE DEF end
    <3>2. Tokens(SubSeq(text, start + 1, end)) <= 1 /\ Tokens(SubSeq(text, start + 1, end)) \in Nat
      BY <1>7, <3>1, OneCharacter, TokensNat
    <3> QED BY <3>2, ProfileAssumption
  <2> QED BY <1>5, <2>1, <2>2
<1> HIDE DEF end
<1> QED BY <1>3, <1>6, <1>7, <1>8
-----------------------------------------------------------------------------
(* A document is a forest: its parser numbers the blocks.                  *)
LEMMA DocumentIs ==
  ASSUME document \in Documents
  PROVE  /\ \A id \in Ids : /\ document.nodes[id].kind \in Containers \cup Leaves
                            /\ document.nodes[id].text \in Texts
                            /\ Below(document, id) \in Seq(Ids)
         /\ document.roots \in Seq(Ids)
BY DocumentAssumption DEF WellFormed, Ids, Texts

LEMMA OnePlace ==
  ASSUME document \in Documents
  PROVE  /\ \A i, j \in DOMAIN document.roots : document.roots[i] = document.roots[j] => i = j
         /\ \A p \in Ids : \A i \in DOMAIN Below(document, p) : \A j \in DOMAIN document.roots :
              document.roots[j] # Below(document, p)[i]
         /\ \A p, q \in Ids : \A i \in DOMAIN Below(document, p), j \in DOMAIN Below(document, q) :
              Below(document, p)[i] = Below(document, q)[j] => p = q /\ i = j
<1>1. WellFormed(document)
  BY DocumentAssumption
<1> QED BY <1>1 DEF WellFormed, Ids

LEMMA RootNext ==
  ASSUME document \in Documents, NEW q \in DOMAIN document.roots, NEW b, Adjacent(document, document.roots[q], b)
  PROVE  q < Len(document.roots) /\ document.roots[q + 1] = b
<1>1. DOMAIN document.roots = 1..Len(document.roots) /\ Len(document.roots) \in Nat
  BY DocumentIs, LenProperties
<1>2. ~ \E p \in Ids : AdjacentIn(Below(document, p), document.roots[q], b)
  <2> SUFFICES ASSUME NEW p \in Ids, AdjacentIn(Below(document, p), document.roots[q], b)
               PROVE  FALSE
    OBVIOUS
  <2>1. DOMAIN Below(document, p) = 1..Len(Below(document, p)) /\ Len(Below(document, p)) \in Nat
    BY DocumentIs, LenProperties
  <2>2. PICK i \in 1..Len(Below(document, p)) - 1 : document.roots[q] = Below(document, p)[i]
    BY DEF AdjacentIn
  <2>3. i \in DOMAIN Below(document, p)
    BY <2>1
  <2> QED BY <2>2, <2>3, OnePlace
<1>3. AdjacentIn(document.roots, document.roots[q], b)
  BY <1>2 DEF Adjacent, Ids
<1>4. PICK i \in 1..Len(document.roots) - 1 : document.roots[q] = document.roots[i] /\ b = document.roots[i + 1]
  BY <1>3 DEF AdjacentIn
<1>5. i \in DOMAIN document.roots /\ i < Len(document.roots)
  BY <1>1
<1>6. q = i
  BY <1>4, <1>5, OnePlace
<1> QED BY <1>4, <1>5, <1>6

LEMMA ChildNext ==
  ASSUME document \in Documents, NEW p \in Ids, NEW i \in DOMAIN Below(document, p), NEW b,
         Adjacent(document, Below(document, p)[i], b)
  PROVE  i < Len(Below(document, p)) /\ Below(document, p)[i + 1] = b
<1>1. ~ AdjacentIn(document.roots, Below(document, p)[i], b)
  <2> SUFFICES ASSUME AdjacentIn(document.roots, Below(document, p)[i], b)
               PROVE  FALSE
    OBVIOUS
  <2>1. DOMAIN document.roots = 1..Len(document.roots) /\ Len(document.roots) \in Nat
    BY DocumentIs, LenProperties
  <2>2. PICK j \in 1..Len(document.roots) - 1 : Below(document, p)[i] = document.roots[j]
    BY DEF AdjacentIn
  <2>3. j \in DOMAIN document.roots
    BY <2>1
  <2> QED BY <2>2, <2>3, OnePlace
<1>2. PICK q \in Ids : AdjacentIn(Below(document, q), Below(document, p)[i], b)
  BY <1>1 DEF Adjacent, Ids
<1>3. DOMAIN Below(document, q) = 1..Len(Below(document, q)) /\ Len(Below(document, q)) \in Nat
  BY DocumentIs, LenProperties
<1>4. PICK j \in 1..Len(Below(document, q)) - 1 :
        Below(document, p)[i] = Below(document, q)[j] /\ b = Below(document, q)[j + 1]
  BY <1>2 DEF AdjacentIn
<1>5. j \in DOMAIN Below(document, q) /\ j < Len(Below(document, q))
  BY <1>3
<1>6. p = q /\ i = j
  BY <1>4, <1>5, OnePlace
<1> QED BY <1>4, <1>5, <1>6

LEMMA ChildPrevious ==
  ASSUME document \in Documents, NEW p \in Ids, NEW i \in DOMAIN Below(document, p), NEW a,
         Adjacent(document, a, Below(document, p)[i])
  PROVE  i - 1 \in DOMAIN Below(document, p) /\ a = Below(document, p)[i - 1]
<1>1. ~ AdjacentIn(document.roots, a, Below(document, p)[i])
  <2> SUFFICES ASSUME AdjacentIn(document.roots, a, Below(document, p)[i])
               PROVE  FALSE
    OBVIOUS
  <2>1. DOMAIN document.roots = 1..Len(document.roots) /\ Len(document.roots) \in Nat
    BY DocumentIs, LenProperties
  <2>2. PICK j \in 1..Len(document.roots) - 1 : Below(document, p)[i] = document.roots[j + 1]
    BY DEF AdjacentIn
  <2>3. j + 1 \in DOMAIN document.roots
    BY <2>1
  <2> QED BY <2>2, <2>3, OnePlace
<1>2. PICK q \in Ids : AdjacentIn(Below(document, q), a, Below(document, p)[i])
  BY <1>1 DEF Adjacent, Ids
<1>3. DOMAIN Below(document, q) = 1..Len(Below(document, q)) /\ Len(Below(document, q)) \in Nat
  BY DocumentIs, LenProperties
<1>4. PICK j \in 1..Len(Below(document, q)) - 1 :
        a = Below(document, q)[j] /\ Below(document, p)[i] = Below(document, q)[j + 1]
  BY <1>2 DEF AdjacentIn
<1>5. j + 1 \in DOMAIN Below(document, q) /\ j \in DOMAIN Below(document, q)
  BY <1>3
<1>6. p = q /\ i = j + 1
  BY <1>4, <1>5, OnePlace
<1>7. i - 1 = j
  BY <1>3, <1>6
<1> QED BY <1>4, <1>5, <1>6, <1>7

(* What a visit does to the stack and the walk.                            *)
LEMMA VisitShape ==
  ASSUME ChunkingTypes, Visit
  PROVE  /\ stack[1] \in Ids /\ Below(document, stack[1]) \in Seq(Ids)
         /\ walked' \in Seq(Ids) /\ stack' \in Seq(Ids)
         /\ Len(walked) \in Nat /\ Len(stack) \in Nat \ {0} /\ Len(Below(document, stack[1])) \in Nat
         /\ DOMAIN walked = 1..Len(walked) /\ DOMAIN stack = 1..Len(stack)
         /\ DOMAIN Below(document, stack[1]) = 1..Len(Below(document, stack[1]))
         /\ Len(walked') = Len(walked) + 1 /\ DOMAIN walked' = 1..Len(walked) + 1
         /\ \A i \in 1..Len(walked) : walked'[i] = walked[i]
         /\ walked'[Len(walked) + 1] = stack[1]
         /\ Len(stack') = Len(Below(document, stack[1])) + (Len(stack) - 1)
         /\ DOMAIN stack' = 1..Len(Below(document, stack[1])) + (Len(stack) - 1)
         /\ \A q \in 1..Len(Below(document, stack[1])) : stack'[q] = Below(document, stack[1])[q]
         /\ \A q \in 1..Len(Below(document, stack[1])) + (Len(stack) - 1) :
              q > Len(Below(document, stack[1])) =>
                /\ q - Len(Below(document, stack[1])) + 1 \in 2..Len(stack)
                /\ stack'[q] = stack[q - Len(Below(document, stack[1])) + 1]
         /\ document' = document
<1> DEFINE C == Below(document, stack[1])
<1>1. stack \in Seq(Ids) /\ walked \in Seq(Ids) /\ stack # <<>> /\ document \in Documents
  BY DEF ChunkingTypes, Visit
<1>2. Len(stack) \in Nat \ {0} /\ stack[1] \in Ids /\ Head(stack) = stack[1] /\ DOMAIN stack = 1..Len(stack)
  BY <1>1
<1>3. /\ Tail(stack) \in Seq(Ids) /\ Len(Tail(stack)) = Len(stack) - 1
      /\ \A i \in 1..Len(stack) - 1 : Tail(stack)[i] = stack[i + 1]
  BY <1>1
<1>4. C \in Seq(Ids) /\ Len(C) \in Nat /\ DOMAIN C = 1..Len(C)
  BY <1>1, <1>2, DocumentIs, LenProperties
<1>5. walked' = Append(walked, stack[1]) /\ stack' = C \o Tail(stack) /\ document' = document
  BY <1>2 DEF Visit
<1>6. /\ walked' \in Seq(Ids) /\ Len(walked) \in Nat /\ DOMAIN walked = 1..Len(walked)
      /\ Len(walked') = Len(walked) + 1 /\ DOMAIN walked' = 1..Len(walked) + 1
      /\ \A i \in 1..Len(walked) : walked'[i] = walked[i]
      /\ walked'[Len(walked) + 1] = stack[1]
  BY <1>1, <1>2, <1>5, AppendAt, LenProperties
<1> HIDE DEF C
<1>7. /\ stack' \in Seq(Ids) /\ Len(stack') = Len(C) + (Len(stack) - 1)
      /\ DOMAIN stack' = 1..Len(C) + (Len(stack) - 1)
      /\ \A q \in 1..Len(C) : stack'[q] = C[q]
      /\ \A q \in 1..Len(C) + (Len(stack) - 1) : q > Len(C) => stack'[q] = Tail(stack)[q - Len(C)]
  BY <1>3, <1>4, <1>5, ConcatAt
<1>8. \A q \in 1..Len(C) + (Len(stack) - 1) : q > Len(C) =>
        q - Len(C) + 1 \in 2..Len(stack) /\ stack'[q] = stack[q - Len(C) + 1]
  <2> SUFFICES ASSUME NEW q \in 1..Len(C) + (Len(stack) - 1), q > Len(C)
               PROVE  q - Len(C) + 1 \in 2..Len(stack) /\ stack'[q] = stack[q - Len(C) + 1]
    OBVIOUS
  <2>1. q - Len(C) \in 1..Len(stack) - 1 /\ q - Len(C) + 1 \in 2..Len(stack)
    BY <1>2, <1>4
  <2> QED BY <1>3, <1>7, <2>1
<1> QED BY <1>2, <1>4, <1>5, <1>6, <1>7, <1>8 DEF C
(* The children of a node that is visited have not been met.               *)
LEMMA ChildrenAreNew ==
  ASSUME ChunkingTypes, WalkedOnce, ReachedAll, Visit, NEW c \in DOMAIN Below(document, stack[1])
  PROVE  ~Met(walked, stack, Below(document, stack[1])[c])
<1> DEFINE id == Below(document, stack[1])[c]
<1>1. document \in Documents /\ stack[1] \in Ids /\ 1 \in DOMAIN stack /\ DOMAIN walked = 1..Len(walked)
      /\ Len(walked) \in Nat /\ walked \in Seq(Ids)
  BY VisitShape DEF ChunkingTypes
<1>2. ASSUME NEW n \in 0..Len(walked), Reached(document, walked, id, n)
      PROVE  FALSE
  <2>1. \A j \in DOMAIN document.roots : id # document.roots[j]
    BY <1>1, OnePlace
  <2>2. PICK i \in 1..n : \E j \in DOMAIN Below(document, walked[i]) : id = Below(document, walked[i])[j]
    BY <1>2, <2>1 DEF Reached
  <2>3. i \in DOMAIN walked
    BY <1>1
  <2>4. walked[i] \in Ids
    BY <1>1, <2>3, ElementOfSeq
  <2>5. walked[i] = stack[1]
    BY <1>1, <2>2, <2>4, OnePlace
  <2> QED BY <1>1, <2>3, <2>5 DEF WalkedOnce
<1>3. \A j \in DOMAIN walked : id # walked[j]
  <2> SUFFICES ASSUME NEW j \in DOMAIN walked, id = walked[j] PROVE FALSE
    OBVIOUS
  <2>1. j - 1 \in 0..Len(walked) /\ Reached(document, walked, id, j - 1)
    BY <1>1 DEF ReachedAll
  <2> QED BY <1>2, <2>1
<1>4. \A j \in DOMAIN stack : id # stack[j]
  BY <1>1, <1>2 DEF ReachedAll
<1> QED BY <1>3, <1>4 DEF Met

LEMMA VisitWalkedOnce ==
  ASSUME ChunkingTypes, WalkedOnce, ReachedAll, Visit
  PROVE  WalkedOnce'
<1> DEFINE C == Below(document, stack[1])
           n == Len(walked)
           m == Len(stack)
           l == Len(C)
<1>1. /\ n \in Nat /\ m \in Nat \ {0} /\ l \in Nat /\ 1 \in DOMAIN stack
      /\ DOMAIN walked = 1..n /\ DOMAIN stack = 1..m /\ DOMAIN C = 1..l
      /\ DOMAIN walked' = 1..n + 1 /\ DOMAIN stack' = 1..l + (m - 1)
  BY VisitShape
<1>2. /\ \A i \in 1..n : walked'[i] = walked[i]
      /\ walked'[n + 1] = stack[1]
  BY VisitShape
<1>3. /\ \A q \in 1..l : stack'[q] = C[q]
      /\ \A q \in 1..l + (m - 1) : q > l => q - l + 1 \in 2..m /\ stack'[q] = stack[q - l + 1]
  BY VisitShape
<1>4. \A c \in 1..l : (\A i \in 1..n : walked[i] # C[c]) /\ (\A i \in 1..m : stack[i] # C[c])
  BY <1>1, ChildrenAreNew DEF Met
<1>5. \A c, d \in 1..l : C[c] = C[d] => c = d
  <2>1. document \in Documents /\ stack[1] \in Ids
    BY VisitShape DEF ChunkingTypes
  <2> QED BY <1>1, <2>1, OnePlace
<1> HIDE DEF C, n, m, l
<1>6. \A i, j \in DOMAIN stack' : stack'[i] = stack'[j] => i = j
  <2> SUFFICES ASSUME NEW i \in 1..l + (m - 1), NEW j \in 1..l + (m - 1), stack'[i] = stack'[j]
               PROVE  i = j
    BY <1>1
  <2>1. CASE i <= l /\ j <= l
    BY <1>1, <1>3, <1>5, <2>1
  <2>2. CASE i <= l /\ j > l
    <3>1. i \in 1..l /\ j - l + 1 \in 1..m /\ stack'[i] = C[i] /\ stack'[j] = stack[j - l + 1]
      BY <1>1, <1>3, <2>2
    <3> QED BY <1>4, <3>1
  <2>3. CASE i > l /\ j <= l
    <3>1. j \in 1..l /\ i - l + 1 \in 1..m /\ stack'[j] = C[j] /\ stack'[i] = stack[i - l + 1]
      BY <1>1, <1>3, <2>3
    <3> QED BY <1>4, <3>1
  <2>4. CASE i > l /\ j > l
    <3>1. i - l + 1 \in DOMAIN stack /\ j - l + 1 \in DOMAIN stack /\ stack[i - l + 1] = stack[j - l + 1]
      BY <1>1, <1>3, <2>4
    <3>2. i - l + 1 = j - l + 1
      BY <3>1 DEF WalkedOnce
    <3> QED BY <1>1, <3>2
  <2> QED BY <1>1, <2>1, <2>2, <2>3, <2>4
<1>7. \A i, j \in DOMAIN walked' : walked'[i] = walked'[j] => i = j
  <2>1. \A i \in 1..n : walked[i] # stack[1]
    BY <1>1 DEF WalkedOnce
  <2>2. \A i, j \in 1..n : walked[i] = walked[j] => i = j
    BY <1>1 DEF WalkedOnce
  <2> QED BY <1>1, <1>2, <2>1, <2>2
<1>8. \A i \in DOMAIN walked', j \in DOMAIN stack' : walked'[i] # stack'[j]
  <2> SUFFICES ASSUME NEW i \in 1..n + 1, NEW j \in 1..l + (m - 1)
               PROVE  walked'[i] # stack'[j]
    BY <1>1
  <2>1. CASE j <= l
    <3>1. j \in 1..l /\ stack'[j] = C[j] /\ 1 \in 1..m
      BY <1>1, <1>3, <2>1
    <3>2. i \in 1..n \/ i = n + 1
      BY <1>1
    <3> QED BY <1>2, <1>4, <3>1, <3>2
  <2>2. CASE j > l
    <3>1. j - l + 1 \in 2..m /\ j - l + 1 \in DOMAIN stack /\ stack'[j] = stack[j - l + 1]
      BY <1>1, <1>3, <2>2
    <3>2. CASE i = n + 1
      <4>1. stack[j - l + 1] # stack[1]
        <5>1. j - l + 1 # 1
          BY <3>1
        <5> QED BY <1>1, <3>1, <5>1 DEF WalkedOnce
      <4> QED BY <1>2, <3>1, <3>2, <4>1
    <3>3. CASE i \in 1..n
      BY <1>1, <1>2, <3>1, <3>3 DEF WalkedOnce
    <3> QED BY <1>1, <3>2, <3>3
  <2> QED BY <1>1, <2>1, <2>2
<1> QED BY <1>6, <1>7, <1>8 DEF WalkedOnce

LEMMA VisitReachedAll ==
  ASSUME ChunkingTypes, ReachedAll, Visit
  PROVE  ReachedAll'
<1> DEFINE C == Below(document, stack[1])
           n == Len(walked)
           m == Len(stack)
           l == Len(C)
<1>1. /\ n \in Nat /\ m \in Nat \ {0} /\ l \in Nat /\ 1 \in DOMAIN stack
      /\ DOMAIN walked = 1..n /\ DOMAIN stack = 1..m /\ DOMAIN C = 1..l /\ Len(walked') = n + 1
      /\ DOMAIN walked' = 1..n + 1 /\ DOMAIN stack' = 1..l + (m - 1) /\ document' = document
  BY VisitShape
<1>2. /\ \A i \in 1..n : walked'[i] = walked[i]
      /\ walked'[n + 1] = stack[1]
  BY VisitShape
<1>3. /\ \A q \in 1..l : stack'[q] = C[q]
      /\ \A q \in 1..l + (m - 1) : q > l => q - l + 1 \in 2..m /\ stack'[q] = stack[q - l + 1]
  BY VisitShape
<1>a. n = Len(walked) /\ C = Below(document, stack[1])
  OBVIOUS
<1> HIDE DEF C, n, m, l
<1>4. ASSUME NEW id, NEW j \in 0..n, NEW k \in j..n + 1, Reached(document, walked, id, j)
      PROVE  Reached(document', walked', id, k)
  <2>1. CASE \E i \in DOMAIN document.roots : id = document.roots[i]
    BY <1>1, <2>1 DEF Reached
  <2>2. ASSUME NEW i \in 1..j, \E x \in DOMAIN Below(document, walked[i]) : id = Below(document, walked[i])[x]
        PROVE  Reached(document', walked', id, k)
    <3>1. i \in 1..k /\ i \in 1..n
      BY <1>1
    <3>2. \E x \in DOMAIN Below(document', walked'[i]) : id = Below(document', walked'[i])[x]
      BY <1>1, <1>2, <2>2, <3>1
    <3> QED BY <3>1, <3>2 DEF Reached
  <2> QED BY <1>4, <2>1, <2>2 DEF Reached
<1>5. ASSUME NEW q \in DOMAIN stack'
      PROVE  Reached(document', walked', stack'[q], n + 1)
  <2>1. CASE q <= l
    <3>1. q \in 1..l /\ stack'[q] = C[q] /\ n + 1 \in 1..n + 1
      BY <1>1, <1>3, <2>1
    <3>2. \E x \in DOMAIN Below(document', walked'[n + 1]) : stack'[q] = Below(document', walked'[n + 1])[x]
      BY <1>1, <1>2, <1>a, <3>1
    <3> QED BY <3>1, <3>2 DEF Reached
  <2>2. CASE q > l
    <3>1. q - l + 1 \in DOMAIN stack /\ stack'[q] = stack[q - l + 1] /\ n \in 0..n /\ n + 1 \in n..n + 1
      BY <1>1, <1>3, <2>2
    <3>2. Reached(document, walked, stack[q - l + 1], n)
      BY <1>a, <3>1 DEF ReachedAll
    <3> QED BY <1>4, <3>1, <3>2
  <2> QED BY <1>1, <2>1, <2>2
<1>6. ASSUME NEW j \in DOMAIN walked'
      PROVE  Reached(document', walked', walked'[j], j - 1)
  <2>1. CASE j = n + 1
    <3>1. Reached(document, walked, stack[1], n) /\ n \in 0..n /\ n \in n..n + 1 /\ j - 1 = n
      BY <1>1, <1>a, <2>1 DEF ReachedAll
    <3> QED BY <1>2, <1>4, <2>1, <3>1
  <2>2. CASE j \in 1..n
    <3>1. Reached(document, walked, walked[j], j - 1) /\ j - 1 \in 0..n /\ j - 1 \in j - 1..n + 1
      BY <1>1, <2>2 DEF ReachedAll
    <3> QED BY <1>2, <1>4, <2>2, <3>1
  <2> QED BY <1>1, <2>1, <2>2
<1> QED BY <1>1, <1>5, <1>6 DEF ReachedAll
LEMMA VisitNoneLeftOut ==
  ASSUME ChunkingTypes, NoneLeftOut, Visit
  PROVE  NoneLeftOut'
<1> DEFINE C == Below(document, stack[1])
           n == Len(walked)
           m == Len(stack)
           l == Len(C)
<1>1. /\ n \in Nat /\ m \in Nat \ {0} /\ l \in Nat
      /\ DOMAIN walked = 1..n /\ DOMAIN stack = 1..m /\ DOMAIN C = 1..l
      /\ DOMAIN walked' = 1..n + 1 /\ DOMAIN stack' = 1..l + (m - 1) /\ document' = document
  BY VisitShape
<1>2. /\ \A i \in 1..n : walked'[i] = walked[i]
      /\ walked'[n + 1] = stack[1]
  BY VisitShape
<1>3. /\ \A q \in 1..l : stack'[q] = C[q]
      /\ \A q \in 1..l + (m - 1) : q > l => q - l + 1 \in 2..m /\ stack'[q] = stack[q - l + 1]
  BY VisitShape
<1>4. C = Below(document, stack[1])
  OBVIOUS
<1> HIDE DEF C, n, m, l
<1>5. ASSUME NEW id, Met(walked, stack, id)
      PROVE  Met(walked', stack', id)
  <2>1. ASSUME NEW i \in DOMAIN walked, walked[i] = id
        PROVE  Met(walked', stack', id)
    <3>1. i \in DOMAIN walked' /\ walked'[i] = id
      BY <1>1, <1>2, <2>1
    <3> QED BY <3>1 DEF Met
  <2>2. ASSUME NEW q \in DOMAIN stack, stack[q] = id
        PROVE  Met(walked', stack', id)
    <3>1. CASE q = 1
      <4>1. n + 1 \in DOMAIN walked' /\ walked'[n + 1] = id
        BY <1>1, <1>2, <2>2, <3>1
      <4> QED BY <4>1 DEF Met
    <3>2. CASE q # 1
      <4>1. q + l - 1 \in DOMAIN stack' /\ q + l - 1 > l /\ (q + l - 1) - l + 1 = q
        BY <1>1, <3>2
      <4>2. stack'[q + l - 1] = stack[q]
        BY <1>1, <1>3, <4>1
      <4> QED BY <2>2, <4>1, <4>2 DEF Met
    <3> QED BY <3>1, <3>2
  <2> QED BY <1>5, <2>1, <2>2 DEF Met
<1>6. ASSUME NEW c \in DOMAIN C
      PROVE  Met(walked', stack', C[c])
  <2>1. c \in DOMAIN stack' /\ stack'[c] = C[c]
    BY <1>1, <1>3
  <2> QED BY <2>1 DEF Met
<1>7. \A i \in DOMAIN document'.roots : Met(walked', stack', document'.roots[i])
  BY <1>1, <1>5 DEF NoneLeftOut
<1>8. ASSUME NEW i \in DOMAIN walked', NEW j \in DOMAIN Below(document', walked'[i])
      PROVE  Met(walked', stack', Below(document', walked'[i])[j])
  <2>1. CASE i = n + 1
    <3>1. Below(document', walked'[i]) = C
      BY <1>1, <1>2, <1>4, <2>1
    <3> QED BY <1>6, <3>1
  <2>2. CASE i \in 1..n
    <3>1. Below(document', walked'[i]) = Below(document, walked[i]) /\ i \in DOMAIN walked
      BY <1>1, <1>2, <2>2
    <3> QED BY <1>5, <3>1 DEF NoneLeftOut
  <2> QED BY <1>1, <2>1, <2>2
<1> QED BY <1>7, <1>8 DEF NoneLeftOut

LEMMA VisitSiblingsWait ==
  ASSUME ChunkingTypes, WalkedOnce, ReachedAll, SiblingsWait, Visit
  PROVE  SiblingsWait'
<1> DEFINE C == Below(document, stack[1])
           n == Len(walked)
           m == Len(stack)
           l == Len(C)
<1>1. /\ n \in Nat /\ m \in Nat \ {0} /\ l \in Nat /\ stack[1] \in Ids /\ document \in Documents
      /\ DOMAIN walked = 1..n /\ DOMAIN stack = 1..m /\ DOMAIN C = 1..l /\ Ids' = Ids
      /\ Len(walked') = n + 1 /\ Len(stack') = l + (m - 1) /\ walked \in Seq(Ids) /\ stack' \in Seq(Ids)
      /\ DOMAIN walked' = 1..n + 1 /\ DOMAIN stack' = 1..l + (m - 1) /\ document' = document
  BY VisitShape DEF ChunkingTypes, Ids
<1>2. /\ \A i \in 1..n : walked'[i] = walked[i]
      /\ walked'[n + 1] = stack[1]
  BY VisitShape
<1>3. /\ \A q \in 1..l : stack'[q] = C[q]
      /\ \A q \in 1..l + (m - 1) : q > l => q - l + 1 \in 2..m /\ stack'[q] = stack[q - l + 1]
  BY VisitShape
<1>4. C = Below(document, stack[1]) /\ n = Len(walked) /\ m = Len(stack) /\ l = Len(C)
  OBVIOUS
<1> HIDE DEF C, n, m, l
<1>5. \A c \in 1..l : (\A i \in 1..n : walked[i] # C[c]) /\ (\A i \in 1..m : stack[i] # C[c])
  BY <1>1, <1>4, ChildrenAreNew DEF Met
<1>6. ASSUME NEW id, NEW i \in 1..n, NEW k \in 0..n, ChildFrom(document, walked, id, i, k)
      PROVE  \A j \in k..n + 1 : ChildFrom(document', walked', id, i, j)
  <2> SUFFICES ASSUME NEW j \in k..n + 1 PROVE ChildFrom(document', walked', id, i, j)
    OBVIOUS
  <2>1. PICK p \in i..k : \E x \in DOMAIN Below(document, walked[p]) : id = Below(document, walked[p])[x]
    BY <1>6 DEF ChildFrom
  <2>2. p \in 1..n /\ p \in i..j
    BY <1>1
  <2>3. \E x \in DOMAIN Below(document', walked'[p]) : id = Below(document', walked'[p])[x]
    BY <1>1, <1>2, <2>1, <2>2
  <2> QED BY <2>2, <2>3 DEF ChildFrom
<1>7. ASSUME NEW q \in DOMAIN stack', NEW b \in Ids, Adjacent(document, stack'[q], b)
      PROVE  q < Len(stack') /\ stack'[q + 1] = b
  <2>1. CASE q <= l
    <3>1. q \in DOMAIN C /\ stack'[q] = C[q]
      BY <1>1, <1>3, <2>1
    <3>2. q < l /\ C[q + 1] = b
      BY <1>1, <1>4, <1>7, <3>1, ChildNext
    <3>3. q + 1 \in 1..l /\ q < l + (m - 1)
      BY <1>1, <3>1, <3>2
    <3> QED BY <1>1, <1>3, <3>2, <3>3
  <2>2. CASE q > l
    <3>1. q - l + 1 \in 2..m /\ stack'[q] = stack[q - l + 1]
      BY <1>1, <1>3, <2>2
    <3>2. q - l + 1 < m /\ stack[q - l + 2] = b
      <4>1. q - l + 1 \in DOMAIN stack /\ (q - l + 1) + 1 = q - l + 2
        BY <1>1, <3>1
      <4> QED BY <1>4, <1>7, <3>1, <4>1 DEF SiblingsWait
    <3>3. q + 1 \in 1..l + (m - 1) /\ q + 1 > l /\ (q + 1) - l + 1 = q - l + 2 /\ q < l + (m - 1)
      BY <1>1, <2>2, <3>2
    <3>4. stack'[q + 1] = stack[q - l + 2]
      BY <1>3, <3>3
    <3> QED BY <1>1, <3>2, <3>3, <3>4
  <2> QED BY <1>1, <2>1, <2>2
<1>8. ASSUME NEW i \in DOMAIN walked', NEW q \in DOMAIN stack', Adjacent(document, walked'[i], stack'[q])
      PROVE  /\ \A k \in i + 1..n + 1 : ChildFrom(document', walked', walked'[k], i, k - 1)
             /\ \A r \in 1..q - 1 : ChildFrom(document', walked', stack'[r], i, n + 1)
  <2>0. ASSUME NEW r \in 1..l, i <= n + 1
        PROVE  ChildFrom(document', walked', stack'[r], i, n + 1)
    <3>1. n + 1 \in i..n + 1 /\ r \in DOMAIN C /\ stack'[r] = C[r]
      BY <1>1, <1>3, <2>0
    <3>2. \E x \in DOMAIN Below(document', walked'[n + 1]) : stack'[r] = Below(document', walked'[n + 1])[x]
      BY <1>1, <1>2, <1>4, <3>1
    <3> QED BY <3>1, <3>2 DEF ChildFrom
  <2>1. CASE i = n + 1
    <3>1. stack'[q] \in Ids
      BY <1>1, ElementOfSeq
    <3>2. 1 < m /\ stack[2] = stack'[q]
      <4>1. 1 \in DOMAIN stack /\ Adjacent(document, stack[1], stack'[q])
        BY <1>1, <1>2, <1>8, <2>1
      <4>2. 1 < Len(stack) /\ stack[1 + 1] = stack'[q]
        BY <3>1, <4>1 DEF SiblingsWait
      <4> QED BY <1>4, <4>2
    <3>3. q = l + 1
      <4>1. CASE q <= l
        <5>1. q \in 1..l /\ stack'[q] = C[q] /\ 2 \in 1..m
          BY <1>1, <1>3, <3>2, <4>1
        <5> QED BY <1>5, <3>2, <5>1
      <4>2. CASE q > l
        <5>1. q - l + 1 \in 1..m /\ stack'[q] = stack[q - l + 1] /\ 2 \in 1..m
          BY <1>1, <1>3, <3>2, <4>2
        <5>2. q - l + 1 = 2
          BY <1>1, <3>2, <5>1 DEF WalkedOnce
        <5> QED BY <1>1, <5>2
      <4> QED BY <1>1, <4>1, <4>2
    <3>4. i + 1..n + 1 = {} /\ 1..q - 1 = 1..l
      BY <1>1, <2>1, <3>3
    <3> QED BY <1>1, <2>0, <2>1, <3>4
  <2>2. CASE i \in 1..n
    <3>1. q > l
      <4> SUFFICES ASSUME q <= l PROVE FALSE
        BY <1>1
      <4>1. q \in DOMAIN C /\ stack'[q] = C[q] /\ walked'[i] = walked[i]
        BY <1>1, <1>2, <1>3, <2>2
      <4>2. q - 1 \in DOMAIN C /\ walked[i] = C[q - 1]
        BY <1>1, <1>4, <1>8, <4>1, ChildPrevious
      <4> QED BY <1>1, <1>5, <2>2, <4>2
    <3> DEFINE o == q - l + 1
    <3>2. o \in 2..m /\ stack'[q] = stack[o] /\ walked'[i] = walked[i]
      BY <1>1, <1>2, <1>3, <2>2, <3>1
    <3>3. /\ \A k \in i + 1..n : ChildFrom(document, walked, walked[k], i, k - 1)
          /\ \A r \in 1..o - 1 : ChildFrom(document, walked, stack[r], i, n)
      <4> HIDE DEF o
      <4>1. o \in DOMAIN stack /\ i \in DOMAIN walked /\ Adjacent(document, walked[i], stack[o])
        BY <1>1, <1>8, <2>2, <3>2
      <4> QED BY <1>4, <4>1 DEF SiblingsWait
    <3>4. ASSUME NEW k \in i + 1..n + 1
          PROVE  ChildFrom(document', walked', walked'[k], i, k - 1)
      <4>1. CASE k = n + 1
        <5>1. 1 \in 1..o - 1 /\ n \in 0..n /\ k - 1 \in n..n + 1 /\ walked'[k] = stack[1]
          BY <1>1, <1>2, <3>2, <4>1
        <5> QED BY <1>6, <2>2, <3>3, <5>1
      <4>2. CASE k \in i + 1..n
        <5>1. k - 1 \in 0..n /\ k - 1 \in k - 1..n + 1 /\ walked'[k] = walked[k]
          BY <1>1, <1>2, <2>2, <4>2
        <5> QED BY <1>6, <2>2, <3>3, <4>2, <5>1
      <4> QED BY <1>1, <2>2, <4>1, <4>2
    <3>5. ASSUME NEW r \in 1..q - 1
          PROVE  ChildFrom(document', walked', stack'[r], i, n + 1)
      <4>1. CASE r <= l
        BY <1>1, <2>0, <2>2, <4>1
      <4>2. CASE r > l
        <5>1. r \in 1..l + (m - 1) /\ r - l + 1 \in 1..o - 1 /\ n \in 0..n /\ n + 1 \in n..n + 1
          <6>1. q \in Nat /\ q <= l + (m - 1) /\ l \in Nat /\ m \in Nat /\ n \in Nat
            BY <1>1
          <6>2. r \in Nat /\ 1 <= r /\ r <= q - 1 /\ r > l
            BY <4>2, <6>1
          <6> QED BY <6>1, <6>2
        <5>2. stack'[r] = stack[r - l + 1]
          BY <1>3, <4>2, <5>1
        <5> QED BY <1>6, <2>2, <3>3, <5>1, <5>2
      <4> QED BY <1>1, <4>1, <4>2
    <3> QED BY <3>4, <3>5
  <2> QED BY <1>1, <2>1, <2>2
<1>9. ASSUME NEW i \in DOMAIN walked', NEW j \in DOMAIN walked', Adjacent(document, walked'[i], walked'[j])
      PROVE  i < j /\ \A k \in i + 1..j - 1 : ChildFrom(document', walked', walked'[k], i, k - 1)
  <2>1. CASE i \in 1..n /\ j \in 1..n
    <3>1. i \in DOMAIN walked /\ j \in DOMAIN walked /\ Adjacent(document, walked[i], walked[j])
      BY <1>1, <1>2, <1>9, <2>1
    <3>2. i < j /\ \A k \in i + 1..j - 1 : ChildFrom(document, walked, walked[k], i, k - 1)
      BY <3>1 DEF SiblingsWait
    <3>3. ASSUME NEW k \in i + 1..j - 1
          PROVE  ChildFrom(document', walked', walked'[k], i, k - 1)
      <4>1. k - 1 \in 0..n /\ k - 1 \in k - 1..n + 1 /\ walked'[k] = walked[k]
        BY <1>1, <1>2, <2>1
      <4> QED BY <1>6, <2>1, <3>2, <4>1
    <3> QED BY <3>2, <3>3
  <2>2. CASE i \in 1..n /\ j = n + 1
    <3>1. i \in DOMAIN walked /\ 1 \in DOMAIN stack /\ Adjacent(document, walked[i], stack[1])
      BY <1>1, <1>2, <1>9, <2>2
    <3>2. \A k \in i + 1..n : ChildFrom(document, walked, walked[k], i, k - 1)
      BY <1>4, <3>1 DEF SiblingsWait
    <3>3. ASSUME NEW k \in i + 1..j - 1
          PROVE  ChildFrom(document', walked', walked'[k], i, k - 1)
      <4>1. k - 1 \in 0..n /\ k - 1 \in k - 1..n + 1 /\ walked'[k] = walked[k] /\ k \in i + 1..n
        BY <1>1, <1>2, <2>2
      <4> QED BY <1>6, <2>2, <3>2, <4>1
    <3> QED BY <1>1, <2>2, <3>3
  <2>3. CASE i = n + 1
    <3>1. walked'[j] \in Ids /\ 1 \in DOMAIN stack /\ Adjacent(document, stack[1], walked'[j])
      <4>1. j \in 1..n => walked[j] \in Ids
        BY <1>1, ElementOfSeq
      <4> QED BY <1>1, <1>2, <1>9, <2>3, <4>1
    <3>2. 2 \in DOMAIN stack /\ stack[2] = walked'[j]
      <4>1. 1 < Len(stack) /\ stack[1 + 1] = walked'[j]
        BY <3>1 DEF SiblingsWait
      <4> QED BY <1>1, <1>4, <4>1
    <3>3. j \in 1..n => walked'[j] = walked[j] /\ j \in DOMAIN walked
      BY <1>1, <1>2
    <3>4. j \notin 1..n
      BY <3>2, <3>3 DEF WalkedOnce
    <3>5. stack[2] = stack[1] /\ 1 # 2
      BY <1>1, <1>2, <3>2, <3>4
    <3> QED BY <3>1, <3>2, <3>5 DEF WalkedOnce
  <2> QED BY <1>1, <2>1, <2>2, <2>3
<1> QED BY <1>1, <1>7, <1>8, <1>9 DEF SiblingsWait
LEMMA NewUnitIs ==
  ASSUME document \in Documents, NEW id \in Ids, IsUnit(document, id)
  PROVE  /\ NewUnit(document, id) \in Drafts
         /\ NewUnit(document, id).node = id /\ NewUnit(document, id).text = document.nodes[id].text
         /\ NewUnit(document, id).from = 0 /\ NewUnit(document, id).to = Len(document.nodes[id].text)
         /\ NewUnit(document, id).spans = <<[node |-> id, from |-> 0, to |-> Len(document.nodes[id].text)]>>
         /\ Len(document.nodes[id].text) \in Nat \ {0}
<1> DEFINE text == document.nodes[id].text
           kind == document.nodes[id].kind
<1>1. text \in Texts /\ kind \in Leaves
  BY DocumentIs DEF IsUnit
<1>2. Len(text) \in Nat /\ DOMAIN text = 1..Len(text)
  BY <1>1, TextIs
<1>3. Len(text) # 0
  <2> SUFFICES ASSUME Len(text) = 0 PROVE FALSE
    OBVIOUS
  <2>1. DOMAIN text = {}
    BY <1>2
  <2> QED BY <2>1 DEF IsUnit, IsBlank
<1>4. NewUnit(document, id) = [kind |-> kind, text |-> text, node |-> id, from |-> 0, to |-> Len(text),
                               spans |-> <<[node |-> id, from |-> 0, to |-> Len(text)]>>]
  BY DEF NewUnit
<1> HIDE DEF text, kind
<1>5. <<[node |-> id, from |-> 0, to |-> Len(text)]>> \in Seq(Places)
  BY <1>2 DEF Places
<1> QED BY <1>1, <1>2, <1>3, <1>4, <1>5 DEF Drafts, text

(* units grows at its end, by the node that is visited.                    *)
LEMMA VisitUnits ==
  ASSUME ChunkingTypes, Visit
  PROVE  /\ units' \in Seq(Drafts) /\ Len(units) \in Nat /\ DOMAIN units = 1..Len(units)
         /\ \/ ~IsUnit(document, stack[1]) /\ units' = units
            \/ /\ IsUnit(document, stack[1])
               /\ DOMAIN units' = 1..Len(units) + 1 /\ Len(units') = Len(units) + 1
               /\ \A u \in 1..Len(units) : units'[u] = units[u]
               /\ units'[Len(units) + 1] = NewUnit(document, stack[1])
<1>1. stack[1] \in Ids /\ stack[1] = Head(stack) /\ document \in Documents
  BY VisitShape DEF ChunkingTypes, Visit
<1>2. units \in Seq(Drafts) /\ Len(units) \in Nat /\ DOMAIN units = 1..Len(units)
  BY LenProperties DEF ChunkingTypes
<1>3. CASE ~IsUnit(document, stack[1])
  BY <1>1, <1>2, <1>3 DEF Visit
<1>4. CASE IsUnit(document, stack[1])
  <2>1. NewUnit(document, stack[1]) \in Drafts /\ units' = Append(units, NewUnit(document, stack[1]))
    BY <1>1, <1>4, NewUnitIs DEF Visit
  <2> QED BY <1>2, <1>4, <2>1, AppendAt
<1> QED BY <1>3, <1>4

LEMMA VisitUnitsWalked ==
  ASSUME ChunkingTypes, UnitsWalked, Visit
  PROVE  UnitsWalked'
<1> DEFINE n == Len(walked)
           o == Len(units)
<1>1. /\ n \in Nat /\ DOMAIN walked = 1..n /\ DOMAIN walked' = 1..n + 1 /\ document' = document
      /\ \A i \in 1..n : walked'[i] = walked[i]
      /\ walked'[n + 1] = stack[1] /\ stack[1] \in Ids /\ document \in Documents
  BY VisitShape DEF ChunkingTypes
<1>2. /\ o \in Nat /\ DOMAIN units = 1..o
      /\ \/ ~IsUnit(document, stack[1]) /\ units' = units
         \/ /\ IsUnit(document, stack[1]) /\ DOMAIN units' = 1..o + 1
            /\ \A u \in 1..o : units'[u] = units[u]
            /\ units'[o + 1] = NewUnit(document, stack[1])
  BY VisitUnits
<1> HIDE DEF n, o
<1>3. DOMAIN units' \subseteq 1..o + 1 /\ \A u \in 1..o : u \in DOMAIN units' /\ units'[u] = units[u]
  BY <1>2
<1>4. o + 1 \in DOMAIN units' =>
        IsUnit(document, stack[1]) /\ units'[o + 1] = NewUnit(document, stack[1]) /\ units'[o + 1].node = stack[1]
  <2>1. IsUnit(document, stack[1]) => NewUnit(document, stack[1]).node = stack[1]
    BY <1>1, NewUnitIs
  <2>2. o + 1 \notin 1..o
    BY <1>2
  <2> QED BY <1>2, <2>1, <2>2
<1>5. \A u \in DOMAIN units' :
        IsUnit(document', units'[u].node) /\ units'[u] = NewUnit(document', units'[u].node)
  <2>1. \A u \in 1..o : IsUnit(document', units'[u].node) /\ units'[u] = NewUnit(document', units'[u].node)
    BY <1>1, <1>2, <1>3 DEF UnitsWalked
  <2> QED BY <1>1, <1>2, <1>3, <1>4, <2>1
<1>6. \A i \in DOMAIN walked' : IsUnit(document', walked'[i]) => \E u \in DOMAIN units' : units'[u].node = walked'[i]
  <2>1. ASSUME NEW i \in 1..n, IsUnit(document, walked[i])
        PROVE  \E u \in DOMAIN units' : units'[u].node = walked'[i]
    <3>1. PICK u \in 1..o : units[u].node = walked[i]
      BY <1>1, <1>2, <2>1 DEF UnitsWalked
    <3> QED BY <1>1, <1>3, <3>1
  <2>2. IsUnit(document, stack[1]) => o + 1 \in DOMAIN units'
    BY <1>2
  <2> QED BY <1>1, <1>4, <2>1, <2>2
<1>7. \A u \in DOMAIN units' : \E i \in DOMAIN walked' : walked'[i] = units'[u].node
  <2>1. ASSUME NEW u \in 1..o
        PROVE  \E i \in DOMAIN walked' : walked'[i] = units'[u].node
    <3>1. PICK i \in 1..n : walked[i] = units[u].node
      BY <1>1, <1>2 DEF UnitsWalked
    <3>2. i \in DOMAIN walked' /\ walked'[i] = walked[i] /\ units'[u] = units[u]
      BY <1>1, <1>3
    <3> QED BY <3>1, <3>2
  <2>2. o + 1 \in DOMAIN units' => n + 1 \in DOMAIN walked' /\ walked'[n + 1] = units'[o + 1].node
    BY <1>1, <1>4
  <2>3. \A u \in DOMAIN units' : u \in 1..o \/ u = o + 1
    BY <1>2, <1>3
  <2> QED BY <2>1, <2>2, <2>3
<1>8. ASSUME NEW u \in DOMAIN units', NEW v \in DOMAIN units', u < v
      PROVE  \E i, j \in DOMAIN walked' : i < j /\ walked'[i] = units'[u].node /\ walked'[j] = units'[v].node
  <2>1. u \in 1..o
    BY <1>2, <1>3, <1>8
  <2>2. CASE v = o + 1
    <3>1. PICK i \in 1..n : walked[i] = units[u].node
      BY <1>1, <1>2, <2>1 DEF UnitsWalked
    <3>2. i \in DOMAIN walked' /\ n + 1 \in DOMAIN walked' /\ i < n + 1 /\ walked'[i] = units'[u].node
      BY <1>1, <1>3, <2>1, <3>1
    <3> QED BY <1>1, <1>4, <2>2, <3>2
  <2>3. CASE v \in 1..o
    <3>1. PICK i \in 1..n, j \in 1..n : i < j /\ walked[i] = units[u].node /\ walked[j] = units[v].node
      <4>1. \E i, j \in DOMAIN walked : i < j /\ walked[i] = units[u].node /\ walked[j] = units[v].node
        BY <1>2, <1>8, <2>1, <2>3 DEF UnitsWalked
      <4> QED BY <1>1, <4>1
    <3>2. /\ i \in DOMAIN walked' /\ walked'[i] = walked[i] /\ units'[u] = units[u]
          /\ j \in DOMAIN walked' /\ walked'[j] = walked[j] /\ units'[v] = units[v]
      BY <1>1, <1>3, <2>1, <2>3
    <3> QED BY <3>1, <3>2
  <2> QED BY <1>2, <1>3, <2>2, <2>3
<1> QED BY <1>5, <1>6, <1>7, <1>8 DEF UnitsWalked

(* In the order of the walk no two units are of one node.                  *)
LEMMA UnitsApart ==
  ASSUME ChunkingTypes, WalkedOnce, UnitsWalked
  PROVE  \A u, v \in DOMAIN units : units[u].node = units[v].node => u = v
<1>1. DOMAIN units = 1..Len(units) /\ Len(units) \in Nat /\ DOMAIN walked = 1..Len(walked) /\ Len(walked) \in Nat
  BY LenProperties DEF ChunkingTypes
<1>2. ASSUME NEW u \in DOMAIN units, NEW v \in DOMAIN units, u < v, units[u].node = units[v].node
      PROVE  FALSE
  <2>1. PICK i, j \in DOMAIN walked : i < j /\ walked[i] = units[u].node /\ walked[j] = units[v].node
    BY <1>2 DEF UnitsWalked
  <2>2. i = j
    BY <1>2, <2>1 DEF WalkedOnce
  <2> QED BY <1>1, <2>1, <2>2
<1> SUFFICES ASSUME NEW u \in DOMAIN units, NEW v \in DOMAIN units, units[u].node = units[v].node
             PROVE  u = v
  OBVIOUS
<1>3. ~(u < v) /\ ~(v < u)
  BY <1>2
<1> QED BY <1>1, <1>3
-----------------------------------------------------------------------------
LEMMA UnitIs ==
  ASSUME ChunkingTypes, UnitsWalked, NEW u \in DOMAIN units
  PROVE  /\ units[u] \in Drafts /\ units[u].text \in Texts /\ units[u].node \in Ids
         /\ Len(units[u].text) \in Nat \ {0}
         /\ units[u].from = 0 /\ units[u].to = Len(units[u].text)
         /\ units[u].spans = <<[node |-> units[u].node, from |-> 0, to |-> Len(units[u].text)]>>
<1>1. units[u] \in Drafts /\ document \in Documents
  BY ElementOfSeq DEF ChunkingTypes
<1>2. units[u].text \in Texts /\ units[u].node \in Ids
  BY <1>1 DEF Drafts
<1>3. units[u] = NewUnit(document, units[u].node) /\ IsUnit(document, units[u].node)
  BY DEF UnitsWalked
<1> DEFINE id == units[u].node
           x  == NewUnit(document, id)
<1>4. /\ x.text = document.nodes[id].text /\ x.from = 0 /\ x.to = Len(document.nodes[id].text)
      /\ x.spans = <<[node |-> id, from |-> 0, to |-> Len(document.nodes[id].text)]>>
      /\ Len(document.nodes[id].text) \in Nat \ {0}
  <2> HIDE DEF id
  <2> QED BY <1>1, <1>2, <1>3, NewUnitIs DEF id
<1>5. units[u] = x
  BY <1>3
<1> HIDE DEF x
<1> QED BY <1>1, <1>2, <1>4, <1>5

LEMMA DraftIs ==
  ASSUME NEW d \in Drafts
  PROVE  /\ d.text \in Texts /\ d.kind \in Leaves /\ d.node \in Ids /\ d.from \in Nat /\ d.to \in Nat
         /\ d.spans \in Seq(Places) /\ Len(d.spans) \in Nat /\ DOMAIN d.spans = 1..Len(d.spans)
         /\ \A i \in 1..Len(d.spans) : /\ d.spans[i] \in Places /\ d.spans[i].node \in Ids
                                       /\ d.spans[i].from \in Nat /\ d.spans[i].to \in Nat
<1>1. /\ d.text \in Texts /\ d.kind \in Leaves /\ d.node \in Ids /\ d.from \in Nat /\ d.to \in Nat
      /\ d.spans \in Seq(Places)
  BY DEF Drafts
<1>2. Len(d.spans) \in Nat /\ DOMAIN d.spans = 1..Len(d.spans)
  BY <1>1, LenProperties
<1>3. \A i \in 1..Len(d.spans) : d.spans[i] \in Places
  BY <1>1, ElementOfSeq
<1> QED BY <1>1, <1>2, <1>3 DEF Places

(* A unit that is not split is a chunk, or the start of one.               *)
LEMMA WholeUnit ==
  ASSUME ChunkingTypes, UnitsWalked, NEW u \in DOMAIN units, NEW v, u < v,
         units[u].kind = "table" \/ ~Overflows(units[u])
  PROVE  Sound(units, units[u], v)
<1> DEFINE d == units[u]
           s == [node |-> units[u].node, from |-> 0, to |-> Len(units[u].text)]
<1>1. /\ d.spans = <<s>> /\ d.from = 0 /\ d.to = Len(d.text) /\ Len(d.text) \in Nat \ {0}
      /\ s.node = d.node /\ s.from = 0 /\ s.to = Len(d.text)
  BY UnitIs
<1> HIDE DEF s, d
<1>2. DOMAIN d.spans = {1} /\ d.spans[1] = s /\ d.spans # <<>> /\ Len(d.spans) = 1
  BY <1>1
<1>3. Cites(units, d.text, s, v)
  <2>1. SpanOf(units, s, u)
    BY <1>1 DEF SpanOf, d
  <2>2. Whole(units, s, u)
    BY <1>1 DEF Whole, d
  <2>3. Shows(units, d.text, s, u)
    <3>1. 0 \in 0..Len(d.text) /\ 0 + s.to - s.from <= Len(d.text)
      BY <1>1
    <3>2. \A c \in s.from + 1..s.to : d.text[0 + c - s.from] = units[u].text[c]
      <4>1. \A c \in s.from + 1..s.to : 0 + c - s.from = c
        BY <1>1
      <4> QED BY <4>1 DEF d
    <3> QED BY <3>1, <3>2 DEF Shows
  <2> QED BY <2>1, <2>2, <2>3 DEF Cites
<1>4. \A i, j \in DOMAIN d.spans : ~(i < j)
  BY <1>2
<1>5. Overflows(d) => d.kind = "table" /\ Len(d.spans) = 1
  BY <1>2 DEF d
<1>6. Sound(units, d, v)
  BY <1>1, <1>2, <1>3, <1>4, <1>5 DEF Sound
<1> QED BY <1>6 DEF d

(* A later frontier is no objection.                                       *)
LEMMA SoundLater ==
  ASSUME ChunkingTypes, NEW d, NEW v \in Int, NEW w \in Int, v <= w, Sound(units, d, v)
  PROVE  Sound(units, d, w)
<1>1. DOMAIN units = 1..Len(units) /\ Len(units) \in Nat
  BY LenProperties DEF ChunkingTypes
<1>2. ASSUME NEW i \in DOMAIN d.spans
      PROVE  Cites(units, d.text, d.spans[i], w)
  <2>1. PICK u \in DOMAIN units : u < v /\ SpanOf(units, d.spans[i], u) /\ Whole(units, d.spans[i], u)
                                 /\ Shows(units, d.text, d.spans[i], u)
    BY DEF Sound, Cites
  <2>2. u < w
    BY <1>1, <2>1
  <2> QED BY <2>1, <2>2 DEF Cites
<1> QED BY <1>2 DEF Sound

(* What stands behind the frontier precedes what is at it or beyond.       *)
LEMMA BehindIsBefore ==
  ASSUME ChunkingTypes, NEW v \in Int, NEW c, Sound(units, c, v), NEW u \in DOMAIN units, v <= u,
         NEW d, \A j \in DOMAIN d.spans : d.spans[j].node = units[u].node
  PROVE  AllBefore(units, c, d)
<1>1. DOMAIN units = 1..Len(units) /\ Len(units) \in Nat
  BY LenProperties DEF ChunkingTypes
<1> SUFFICES ASSUME NEW i \in DOMAIN c.spans, NEW j \in DOMAIN d.spans
             PROVE  Ordered(units, c.spans[i], d.spans[j])
  BY DEF AllBefore
<1>2. PICK w \in DOMAIN units : w < v /\ units[w].node = c.spans[i].node
  BY DEF Sound, Cites, SpanOf
<1>3. w < u
  BY <1>1, <1>2
<1> QED BY <1>2, <1>3 DEF Ordered
LEMMA SingletonSeq ==
  ASSUME NEW S, NEW c \in S
  PROVE  <<c>> \in Seq(S) /\ Len(<<c>>) = 1
OBVIOUS

LEMMA JoinedAt ==
  ASSUME NEW x \in Texts, NEW y \in Texts
  PROVE  /\ x \o <<"_">> \o y \in Texts /\ Len(x \o <<"_">> \o y) = Len(x) + 1 + Len(y)
         /\ Len(x) \in Nat /\ Len(y) \in Nat
         /\ \A i \in 1..Len(x) : (x \o <<"_">> \o y)[i] = x[i]
         /\ \A i \in 1..Len(y) : (x \o <<"_">> \o y)[Len(x) + 1 + i] = y[i]
<1> DEFINE Chars == {"w", "_"}
           z == x \o <<"_">>
<1>1. x \in Seq(Chars) /\ y \in Seq(Chars) /\ <<"_">> \in Seq(Chars) /\ Len(<<"_">>) = 1
  <2>1. "_" \in Chars
    OBVIOUS
  <2>2. x \in Seq(Chars) /\ y \in Seq(Chars)
    BY DEF Texts
  <2> HIDE DEF Chars
  <2>3. <<"_">> \in Seq(Chars) /\ Len(<<"_">>) = 1
    BY <2>1, SingletonSeq
  <2> QED BY <2>2, <2>3
<1> HIDE DEF Chars
<1>2. Len(x) \in Nat /\ Len(y) \in Nat
  BY <1>1, LenProperties
<1>3. z \in Seq(Chars) /\ Len(z) = Len(x) + 1 /\ \A i \in 1..Len(x) : z[i] = x[i]
  <2> DEFINE t == <<"_">>
  <2>1. t \in Seq(Chars) /\ Len(t) = 1
    BY <1>1
  <2> HIDE DEF t
  <2>2. /\ x \o t \in Seq(Chars) /\ Len(x \o t) = Len(x) + Len(t)
        /\ \A i \in 1..Len(x) : (x \o t)[i] = x[i]
    <3>1. x \in Seq(Chars) /\ t \in Seq(Chars)
      BY <1>1, <2>1
    <3> HIDE DEF z
    <3> QED BY <3>1, ConcatAt
  <2> QED BY <2>1, <2>2 DEF t
<1> HIDE DEF z
<1>4. /\ z \o y \in Seq(Chars) /\ Len(z \o y) = Len(z) + Len(y)
      /\ \A i \in 1..Len(z) : (z \o y)[i] = z[i]
      /\ \A i \in 1..Len(y) : (z \o y)[Len(z) + i] = y[i]
  <2>1. z \in Seq(Chars) /\ y \in Seq(Chars)
    BY <1>1, <1>3
  <2> QED BY <2>1, ConcatAt
<1>5. z \o y \in Texts /\ Len(z \o y) = Len(x) + 1 + Len(y)
  BY <1>3, <1>4 DEF Texts, Chars
<1>6. \A i \in 1..Len(x) : (z \o y)[i] = x[i]
  BY <1>2, <1>3, <1>4
<1>7. \A i \in 1..Len(y) : (z \o y)[Len(x) + 1 + i] = y[i]
  BY <1>3, <1>4
<1> QED BY <1>2, <1>5, <1>6, <1>7 DEF z

LEMMA MergeTexts ==
  ASSUME NEW a \in Drafts, NEW b \in Drafts
  PROVE  /\ Joined(a, b) \in Texts /\ Len(Joined(a, b)) = Len(a.text) + 1 + Len(b.text)
         /\ a.text \in Texts /\ b.text \in Texts /\ Len(a.text) \in Nat /\ Len(b.text) \in Nat
         /\ \A i \in 1..Len(a.text) : Joined(a, b)[i] = a.text[i]
         /\ \A i \in 1..Len(b.text) : Joined(a, b)[Len(a.text) + 1 + i] = b.text[i]
<1>1. a.text \in Texts /\ b.text \in Texts
  BY DraftIs
<1> QED BY <1>1, JoinedAt DEF Joined

(* What a text shows is shown by one that holds it.                        *)
LEMMA ShownIn ==
  ASSUME NEW us, NEW u, NEW s \in Places, NEW x \in Texts, NEW y \in Texts, NEW k \in Nat,
         k + Len(x) <= Len(y), \A i \in 1..Len(x) : y[k + i] = x[i], Shows(us, x, s, u)
  PROVE  Shows(us, y, s, u)
<1> DEFINE from == s.from
           to   == s.to
           lx   == Len(x)
           ly   == Len(y)
<1>1. from \in Nat /\ to \in Nat /\ lx \in Nat /\ ly \in Nat /\ k + lx <= ly
  BY TextIs DEF Places
<1>2. PICK at \in 0..lx : at + to - from <= lx /\ \A c \in from + 1..to : x[at + c - from] = us[u].text[c]
  BY DEF Shows
<1>3. \A i \in 1..lx : y[k + i] = x[i]
  OBVIOUS
<1> HIDE DEF from, to, lx, ly
<1>4. k + at \in 0..ly /\ (k + at) + to - from <= ly
  BY <1>1, <1>2
<1>5. ASSUME NEW c \in from + 1..to
      PROVE  y[(k + at) + c - from] = us[u].text[c]
  <2>1. at + c - from \in 1..lx /\ (k + at) + c - from = k + (at + c - from)
    BY <1>1, <1>2
  <2> QED BY <1>2, <1>3, <2>1
<1> QED BY <1>4, <1>5 DEF Shows, from, to, lx, ly

LEMMA MergedIs ==
  ASSUME NEW a \in Drafts, NEW b \in Drafts
  PROVE  /\ Merged(a, b) \in Drafts
         /\ Merged(a, b).text = Joined(a, b) /\ Merged(a, b).kind = a.kind /\ Merged(a, b).node = a.node
         /\ Merged(a, b).from = a.from /\ Merged(a, b).to = a.to
         /\ DOMAIN Merged(a, b).spans = 1..Len(a.spans) + Len(b.spans)
         /\ \A i \in 1..Len(a.spans) : Merged(a, b).spans[i] = a.spans[i]
         /\ \A i \in 1..Len(a.spans) + Len(b.spans) : i > Len(a.spans) =>
              i - Len(a.spans) \in 1..Len(b.spans) /\ Merged(a, b).spans[i] = b.spans[i - Len(a.spans)]
<1>1. a.spans \in Seq(Places) /\ b.spans \in Seq(Places) /\ Joined(a, b) \in Texts
  BY DraftIs, MergeTexts
<1>2. Len(a.spans) \in Nat /\ Len(b.spans) \in Nat
  BY <1>1, LenProperties
<1>3. /\ a.spans \o b.spans \in Seq(Places)
      /\ DOMAIN (a.spans \o b.spans) = 1..Len(a.spans) + Len(b.spans)
      /\ \A i \in 1..Len(a.spans) : (a.spans \o b.spans)[i] = a.spans[i]
      /\ \A i \in 1..Len(a.spans) + Len(b.spans) :
           i > Len(a.spans) => (a.spans \o b.spans)[i] = b.spans[i - Len(a.spans)]
  <2> DEFINE p == a.spans
             q == b.spans
  <2>1. p \in Seq(Places) /\ q \in Seq(Places)
    BY <1>1
  <2> HIDE DEF p, q
  <2>2. /\ p \o q \in Seq(Places) /\ DOMAIN (p \o q) = 1..Len(p) + Len(q)
        /\ \A i \in 1..Len(p) : (p \o q)[i] = p[i]
        /\ \A i \in 1..Len(p) + Len(q) : i > Len(p) => (p \o q)[i] = q[i - Len(p)]
    BY <2>1, ConcatAt
  <2> QED BY <2>2 DEF p, q
<1>4. Merged(a, b) = [a EXCEPT !.text = Joined(a, b), !.spans = a.spans \o b.spans]
  BY DEF Merged
<1>5. /\ Merged(a, b) \in Drafts /\ Merged(a, b).spans = a.spans \o b.spans
      /\ Merged(a, b).text = Joined(a, b) /\ Merged(a, b).kind = a.kind /\ Merged(a, b).node = a.node
      /\ Merged(a, b).from = a.from /\ Merged(a, b).to = a.to
  BY <1>1, <1>3, <1>4 DEF Drafts
<1>6. \A i \in 1..Len(a.spans) + Len(b.spans) : i > Len(a.spans) => i - Len(a.spans) \in 1..Len(b.spans)
  <2> DEFINE n == Len(a.spans)
             m == Len(b.spans)
  <2>1. n \in Nat /\ m \in Nat
    BY <1>2
  <2> HIDE DEF n, m
  <2>2. \A i \in 1..n + m : i > n => i - n \in 1..m
    BY <2>1
  <2> QED BY <2>2 DEF n, m
<1> QED BY <1>3, <1>5, <1>6

(* _merge_units: what either unit shows the merged one shows, within the   *)
(* budget.                                                                 *)
LEMMA MergeSound ==
  ASSUME ChunkingTypes, NEW v \in Int, NEW w \in Int, v <= w, NEW a \in Drafts, NEW b \in Drafts,
         Sound(units, a, v), Sound(units, b, w), AllBefore(units, a, b), Fit(a, b)
  PROVE  Sound(units, Merged(a, b), w) /\ ~Overflows(Merged(a, b))
<1> DEFINE d == Merged(a, b)
           n == Len(a.spans)
           m == Len(b.spans)
<1>1. /\ n \in Nat /\ m \in Nat /\ DOMAIN a.spans = 1..n /\ DOMAIN b.spans = 1..m
  BY DraftIs
<1>2. /\ d.text = Joined(a, b) /\ d.node = a.node /\ d.from = a.from /\ d.to = a.to
      /\ DOMAIN d.spans = 1..n + m
      /\ \A i \in 1..n : d.spans[i] = a.spans[i]
      /\ \A i \in 1..n + m : i > n => i - n \in 1..m /\ d.spans[i] = b.spans[i - n]
  BY MergedIs
<1>3. \A i \in 1..n : a.spans[i] \in Places
  BY DraftIs
<1>4. \A i \in 1..m : b.spans[i] \in Places
  BY DraftIs
<1>5. a.spans # <<>> /\ a.node = a.spans[1].node /\ a.from = a.spans[1].from /\ a.to = a.spans[1].to
  BY DEF Sound
<1>6. 1 \in 1..n
  <2>1. a.spans \in Seq(Places) /\ a.spans # <<>>
    BY <1>5, DraftIs
  <2>2. Len(a.spans) # 0
    BY <2>1, EmptySeq
  <2> QED BY <1>1, <2>2
<1>7. Sound(units, a, w)
  BY SoundLater
<1>8. ~Overflows(d)
  <2>1. Tokens(Joined(a, b)) \in Nat /\ Tokens(Joined(a, b)) <= MaxTokens
    BY MergeTexts, TokensNat DEF Fit
  <2> QED BY <1>2, <2>1, ProfileAssumption DEF Overflows
<1> HIDE DEF d, n, m
<1>9. ASSUME NEW i \in 1..n
      PROVE  Cites(units, d.text, d.spans[i], w)
  <2>1. PICK u \in DOMAIN units : u < w /\ SpanOf(units, a.spans[i], u) /\ Whole(units, a.spans[i], u)
                                 /\ Shows(units, a.text, a.spans[i], u)
    BY <1>1, <1>7 DEF Sound, Cites
  <2>2. /\ a.text \in Texts /\ d.text \in Texts /\ a.spans[i] \in Places /\ 0 + Len(a.text) <= Len(d.text)
        /\ \A x \in 1..Len(a.text) : d.text[0 + x] = a.text[x]
    <3>1. /\ Joined(a, b) \in Texts /\ a.text \in Texts /\ 0 + Len(a.text) <= Len(Joined(a, b))
          /\ \A x \in 1..Len(a.text) : Joined(a, b)[x] = a.text[x]
      <4>1. /\ Len(Joined(a, b)) = Len(a.text) + 1 + Len(b.text) /\ Len(a.text) \in Nat /\ Len(b.text) \in Nat
        BY MergeTexts
      <4> DEFINE p == Len(a.text)
                 q == Len(b.text)
                 r == Len(Joined(a, b))
      <4>2. 0 + p <= r
        <5>1. p \in Nat /\ q \in Nat /\ r = p + 1 + q
          BY <4>1
        <5> HIDE DEF p, q, r
        <5> QED BY <5>1
      <4> QED BY <4>2, MergeTexts
    <3>2. \A x \in 1..Len(a.text) : 0 + x = x
      OBVIOUS
    <3> QED BY <1>2, <1>3, <3>1, <3>2
  <2>3. Shows(units, d.text, a.spans[i], u)
    BY <2>1, <2>2, ShownIn
  <2> QED BY <1>2, <2>1, <2>3 DEF Cites
<1>10. ASSUME NEW i \in 1..m
       PROVE  Cites(units, d.text, b.spans[i], w)
  <2>1. PICK u \in DOMAIN units : u < w /\ SpanOf(units, b.spans[i], u) /\ Whole(units, b.spans[i], u)
                                 /\ Shows(units, b.text, b.spans[i], u)
    BY <1>1 DEF Sound, Cites
  <2> DEFINE k == Len(a.text) + 1
  <2>2. /\ k \in Nat /\ b.text \in Texts /\ d.text \in Texts /\ b.spans[i] \in Places
        /\ k + Len(b.text) <= Len(d.text) /\ \A x \in 1..Len(b.text) : d.text[k + x] = b.text[x]
    <3>1. /\ Joined(a, b) \in Texts /\ b.text \in Texts /\ k \in Nat /\ k + Len(b.text) <= Len(Joined(a, b))
          /\ \A x \in 1..Len(b.text) : Joined(a, b)[k + x] = b.text[x]
      <4>1. /\ Len(Joined(a, b)) = Len(a.text) + 1 + Len(b.text) /\ Len(a.text) \in Nat /\ Len(b.text) \in Nat
        BY MergeTexts
      <4>2. k \in Nat /\ k + Len(b.text) <= Len(Joined(a, b))
        BY <4>1
      <4>3. \A x \in 1..Len(b.text) : Joined(a, b)[k + x] = b.text[x]
        BY MergeTexts
      <4> QED BY <4>2, <4>3, MergeTexts
    <3> QED BY <1>2, <1>4, <3>1
  <2> HIDE DEF k
  <2>3. Shows(units, d.text, b.spans[i], u)
    BY <2>1, <2>2, ShownIn
  <2> QED BY <2>1, <2>3 DEF Cites
<1>11. \A i \in DOMAIN d.spans : Cites(units, d.text, d.spans[i], w)
  <2> SUFFICES ASSUME NEW i \in 1..n + m PROVE Cites(units, d.text, d.spans[i], w)
    BY <1>2
  <2>1. CASE i <= n
    <3>1. i \in 1..n
      BY <1>1, <2>1
    <3> QED BY <1>9, <3>1
  <2>2. CASE i > n
    BY <1>2, <1>10, <2>2
  <2> QED BY <1>1, <2>1, <2>2
<1>12. ASSUME NEW i \in DOMAIN d.spans, NEW j \in DOMAIN d.spans, i < j
       PROVE  Ordered(units, d.spans[i], d.spans[j])
  <2>1. i \in 1..n + m /\ j \in 1..n + m
    BY <1>2
  <2>2. CASE j <= n
    <3>1. i \in 1..n /\ j \in 1..n /\ d.spans[i] = a.spans[i] /\ d.spans[j] = a.spans[j]
      BY <1>1, <1>2, <1>12, <2>1, <2>2
    <3> QED BY <1>1, <1>12, <3>1 DEF Sound
  <2>3. CASE i <= n /\ j > n
    <3>1. i \in 1..n /\ j - n \in 1..m /\ d.spans[i] = a.spans[i] /\ d.spans[j] = b.spans[j - n]
      BY <1>1, <1>2, <2>1, <2>3
    <3> QED BY <1>1, <3>1 DEF AllBefore
  <2>4. CASE i > n
    <3>1. /\ i - n \in 1..m /\ j - n \in 1..m /\ i - n < j - n
          /\ d.spans[i] = b.spans[i - n] /\ d.spans[j] = b.spans[j - n]
      BY <1>1, <1>2, <1>12, <2>1, <2>4
    <3> QED BY <1>1, <3>1 DEF Sound
  <2> QED BY <1>1, <2>1, <2>2, <2>3, <2>4
<1>13. d.spans # <<>> /\ d.node = d.spans[1].node /\ d.from = d.spans[1].from /\ d.to = d.spans[1].to
  <2>1. 1 \in DOMAIN d.spans /\ d.spans[1] = a.spans[1]
    BY <1>1, <1>2, <1>6
  <2>2. d.spans # <<>>
    <3>1. DOMAIN <<>> = {}
      OBVIOUS
    <3> QED BY <2>1, <3>1
  <2> QED BY <1>2, <1>5, <2>1, <2>2
<1>14. Sound(units, d, w)
  BY <1>8, <1>11, <1>12, <1>13 DEF Sound
<1> QED BY <1>8, <1>14 DEF d
(* _split_unit: a window shows its stretch of the unit.                    *)
LEMMA WindowSound ==
  ASSUME ChunkingTypes, WalkedOnce, UnitsWalked, NEW u \in DOMAIN units, NEW start \in Nat,
         start < Len(units[u].text), Overflows(units[u]), units[u].kind # "table",
         NEW end, end = WindowEnd(units[u].text, start), NEW d, d = Window(units[u], start, end)
  PROVE  /\ d \in Drafts /\ Sound(units, d, u + 1)
         /\ end \in start + 1..Len(units[u].text)
         /\ d.spans = <<[node |-> units[u].node, from |-> start, to |-> end]>>
<1> DEFINE t == units[u].text
           s == [node |-> units[u].node, from |-> start, to |-> end]
           x == SubSeq(t, start + 1, end)
<1>1. units[u] \in Drafts /\ t \in Texts /\ units[u].node \in Ids /\ Len(t) \in Nat
  BY UnitIs
<1>2. end \in start + 1..Len(t) /\ x \in Texts /\ Tokens(x) <= MaxTokens
  BY <1>1, WindowBounds
<1>3. Len(x) = end - start /\ \A i \in 1..end - start : x[i] = t[start + i]
  BY <1>1, <1>2, SubText
<1>4. s \in Places /\ s.node = units[u].node /\ s.from = start /\ s.to = end
  <2>1. end \in Nat
    BY <1>1, <1>2
  <2> QED BY <1>1, <2>1 DEF Places
<1>5. d = [units[u] EXCEPT !.from = start, !.to = end, !.text = x, !.spans = <<s>>]
  BY DEF Window
<1> HIDE DEF s, x
<1>6. <<s>> \in Seq(Places) /\ Len(<<s>>) = 1
  BY <1>4, SingletonSeq
<1>7. /\ d \in Drafts /\ d.spans = <<s>> /\ d.text = x /\ d.from = start /\ d.to = end
      /\ d.node = units[u].node /\ d.kind = units[u].kind
  <2>1. end \in Nat
    BY <1>1, <1>2
  <2> QED BY <1>1, <1>2, <1>5, <1>6, <2>1 DEF Drafts
<1>8. DOMAIN d.spans = {1} /\ d.spans[1] = s /\ d.spans # <<>>
  BY <1>7
<1>9. ~Overflows(d)
  BY <1>2, <1>7, TokensNat, ProfileAssumption DEF Overflows
<1>10. Cites(units, d.text, s, u + 1)
  <2>1. SpanOf(units, s, u)
    BY <1>1, <1>2, <1>4 DEF SpanOf
  <2>2. Whole(units, s, u)
    BY DEF Whole
  <2>3. Shows(units, d.text, s, u)
    <3>1. 0 \in 0..Len(x) /\ 0 + end - start <= Len(x)
      BY <1>1, <1>2, <1>3
    <3>2. ASSUME NEW c \in start + 1..end
          PROVE  x[0 + c - start] = t[c]
      <4>1. 0 + c - start \in 1..end - start /\ start + (0 + c - start) = c
        BY <1>1, <1>2
      <4> QED BY <1>3, <4>1
    <3> QED BY <1>4, <1>7, <3>1, <3>2 DEF Shows
  <2>4. u < u + 1
    <3>1. u \in Nat
      BY LenProperties DEF ChunkingTypes
    <3> QED BY <3>1
  <2> QED BY <2>1, <2>2, <2>3, <2>4 DEF Cites
<1>11. Sound(units, d, u + 1)
  <2>1. \A i, j \in DOMAIN d.spans : ~(i < j)
    BY <1>8
  <2>2. d.node = d.spans[1].node /\ d.from = d.spans[1].from /\ d.to = d.spans[1].to
    BY <1>4, <1>7, <1>8
  <2>3. \A i \in DOMAIN d.spans : Cites(units, d.text, d.spans[i], u + 1)
    BY <1>8, <1>10
  <2> QED BY <1>8, <1>9, <2>1, <2>2, <2>3 DEF Sound
<1> QED BY <1>2, <1>7, <1>8, <1>11 DEF s

-----------------------------------------------------------------------------
(* The chunks when one more is appended.                                   *)
LEMMA InOrderAppend ==
  ASSUME ChunkingTypes, NEW cs \in Seq(Drafts), NEW d \in Drafts, NEW v \in Int, NEW w \in Int, v <= w,
         InOrder(units, cs, v), Sound(units, d, w),
         \A k \in DOMAIN cs : AllBefore(units, cs[k], d)
  PROVE  InOrder(units, Append(cs, d), w)
<1> DEFINE n == Len(cs)
           a == Append(cs, d)
<1>1. /\ n \in Nat /\ DOMAIN cs = 1..n /\ DOMAIN a = 1..n + 1
      /\ \A i \in 1..n : a[i] = cs[i]
      /\ a[n + 1] = d
  BY AppendAt, LenProperties
<1> HIDE DEF n, a
<1>2. \A k \in DOMAIN a : Sound(units, a[k], w)
  <2>1. \A k \in 1..n : Sound(units, cs[k], w)
    BY <1>1, SoundLater DEF InOrder
  <2> QED BY <1>1, <2>1
<1>3. ASSUME NEW k \in DOMAIN a, NEW l \in DOMAIN a, k < l
      PROVE  AllBefore(units, a[k], a[l])
  <2>1. k \in 1..n
    BY <1>1, <1>3
  <2>2. CASE l = n + 1
    BY <1>1, <2>1, <2>2
  <2>3. CASE l \in 1..n
    BY <1>1, <1>3, <2>1, <2>3 DEF InOrder
  <2> QED BY <1>1, <2>2, <2>3
<1> QED BY <1>2, <1>3 DEF InOrder, a

LEMMA InOrderPrefix ==
  ASSUME NEW cs \in Seq(Drafts), NEW d \in Drafts, NEW v, InOrder(units, Append(cs, d), v)
  PROVE  InOrder(units, cs, v) /\ Sound(units, d, v) /\ \A k \in DOMAIN cs : AllBefore(units, cs[k], d)
<1> DEFINE n == Len(cs)
           a == Append(cs, d)
<1>1. /\ n \in Nat /\ DOMAIN cs = 1..n /\ DOMAIN a = 1..n + 1
      /\ \A i \in 1..n : a[i] = cs[i]
      /\ a[n + 1] = d
  BY AppendAt, LenProperties
<1>2. InOrder(units, a, v)
  OBVIOUS
<1> HIDE DEF n, a
<1>3. \A k \in 1..n : k \in DOMAIN a /\ k < n + 1 /\ n + 1 \in DOMAIN a
  BY <1>1
<1>4. \A k \in DOMAIN cs : Sound(units, cs[k], v)
  BY <1>1, <1>2, <1>3 DEF InOrder
<1>5. \A k \in DOMAIN cs : AllBefore(units, cs[k], d)
  BY <1>1, <1>2, <1>3 DEF InOrder
<1>6. \A k, l \in DOMAIN cs : k < l => AllBefore(units, cs[k], cs[l])
  BY <1>1, <1>2, <1>3 DEF InOrder
<1>7. Sound(units, d, v)
  <2>1. n + 1 \in DOMAIN a
    BY <1>1
  <2> QED BY <1>1, <1>2, <2>1 DEF InOrder
<1> QED BY <1>4, <1>5, <1>6, <1>7 DEF InOrder

LEMMA InOrderLater ==
  ASSUME ChunkingTypes, NEW cs, NEW v \in Int, NEW w \in Int, v <= w, InOrder(units, cs, v)
  PROVE  InOrder(units, cs, w)
BY SoundLater DEF InOrder

LEMMA CoveredAppend ==
  ASSUME NEW us, NEW cs \in Seq(Drafts), NEW d \in Drafts, NEW u, NEW c
  PROVE  /\ Covered(us, cs, u, c) => Covered(us, Append(cs, d), u, c)
         /\ (\E i \in DOMAIN d.spans :
               d.spans[i].node = us[u].node /\ d.spans[i].from < c /\ c <= d.spans[i].to)
              => Covered(us, Append(cs, d), u, c)
         /\ Covered(us, Append(cs, d), u, c) =>
              \/ Covered(us, cs, u, c)
              \/ \E i \in DOMAIN d.spans :
                   d.spans[i].node = us[u].node /\ d.spans[i].from < c /\ c <= d.spans[i].to
<1> DEFINE n == Len(cs)
           a == Append(cs, d)
<1>1. /\ n \in Nat /\ DOMAIN cs = 1..n /\ DOMAIN a = 1..n + 1
      /\ \A i \in 1..n : a[i] = cs[i]
      /\ a[n + 1] = d
  BY AppendAt, LenProperties
<1> HIDE DEF n, a
<1>2. n + 1 \in DOMAIN a /\ \A k \in DOMAIN cs : k \in DOMAIN a
  BY <1>1
<1>3. Covered(us, cs, u, c) => Covered(us, a, u, c)
  BY <1>1, <1>2 DEF Covered
<1>4. (\E i \in DOMAIN d.spans :
         d.spans[i].node = us[u].node /\ d.spans[i].from < c /\ c <= d.spans[i].to)
      => Covered(us, a, u, c)
  BY <1>1, <1>2 DEF Covered
<1>5. ASSUME Covered(us, a, u, c)
      PROVE  \/ Covered(us, cs, u, c)
             \/ \E i \in DOMAIN d.spans :
                  d.spans[i].node = us[u].node /\ d.spans[i].from < c /\ c <= d.spans[i].to
  <2>1. PICK k \in 1..n + 1 : \E i \in DOMAIN a[k].spans :
          a[k].spans[i].node = us[u].node /\ a[k].spans[i].from < c /\ c <= a[k].spans[i].to
    BY <1>1, <1>5 DEF Covered
  <2>2. CASE k = n + 1
    BY <1>1, <2>1, <2>2
  <2>3. CASE k \in 1..n
    BY <1>1, <2>1, <2>3 DEF Covered
  <2> QED BY <1>1, <2>2, <2>3
<1> QED BY <1>3, <1>4, <1>5 DEF a
-----------------------------------------------------------------------------
(* A joined text has the words of both, so what fits with another fits.    *)
LEMMA FitsAlso ==
  ASSUME NEW a \in Drafts, NEW b \in Drafts, Fit(a, b)
  PROVE  ~Overflows(b)
<1> DEFINE x == a.text
           y == b.text
           z == Joined(a, b)
           k == Len(x) + 1
           f == [i \in WordEnds(y) |-> k + i]
<1>1. x \in Texts /\ y \in Texts /\ z \in Texts /\ Len(x) \in Nat /\ Len(y) \in Nat /\ Len(z) = k + Len(y)
  BY MergeTexts
<1>2. \A i \in 1..Len(y) : z[k + i] = y[i]
  BY MergeTexts
<1>3. k \in Nat /\ Tokens(z) <= MaxTokens
  BY <1>1 DEF Fit
<1> HIDE DEF x, y, z, k
<1>a. DOMAIN z = 1..Len(z) /\ WordEnds(y) \subseteq 1..Len(y)
  BY <1>1, TextIs
<1>4. ASSUME NEW i \in WordEnds(y)
      PROVE  k + i \in WordEnds(z)
  <2>1. i \in 1..Len(y) /\ y[i] = "w" /\ (i = Len(y) \/ y[i + 1] # "w")
    BY <1>1, TextIs DEF WordEnds
  <2>2. k + i \in 1..Len(z) /\ k + i \in DOMAIN z
    <3>1. k + i \in 1..k + Len(y)
      BY <1>1, <1>3, <2>1
    <3> QED BY <1>1, <1>a, <3>1
  <2>3. CASE i = Len(y)
    BY <1>1, <1>2, <2>1, <2>2, <2>3 DEF WordEnds
  <2>4. CASE i # Len(y)
    <3>1. i + 1 \in 1..Len(y) /\ k + (i + 1) = (k + i) + 1
      BY <1>1, <1>3, <2>1, <2>4
    <3>2. z[(k + i) + 1] = y[i + 1]
      BY <1>2, <3>1
    <3> QED BY <1>2, <2>1, <2>2, <2>4, <3>2 DEF WordEnds
  <2> QED BY <2>3, <2>4
<1>5. WordEnds(y) \subseteq Nat
  BY <1>1, <1>a
<1>6. f \in Injection(WordEnds(y), WordEnds(z))
  BY <1>3, <1>4, <1>5 DEF Injection, IsInjective
<1>7. Cardinality(WordEnds(y)) <= Cardinality(WordEnds(z))
  <2>1. IsFiniteSet(WordEnds(z))
    BY <1>1, TokensNat
  <2> QED BY <1>6, <2>1, FS_Injection
<1>8. Tokens(y) \in Nat /\ Tokens(z) \in Nat /\ Tokens(y) <= Tokens(z)
  BY <1>1, <1>7, TokensNat DEF Tokens
<1> QED BY <1>3, <1>8, ProfileAssumption DEF Overflows, y

(* A whole unit is appended.                                               *)
LEMMA ExtendWhole ==
  ASSUME ChunkingTypes, UnitsWalked, NEW cs \in Seq(Drafts), NEW v \in DOMAIN units,
         InOrder(units, cs, v), CoveredTo(units, cs, v), units[v].kind = "table" \/ ~Overflows(units[v])
  PROVE  /\ Append(cs, units[v]) \in Seq(Drafts)
         /\ InOrder(units, Append(cs, units[v]), v + 1)
         /\ CoveredTo(units, Append(cs, units[v]), v + 1)
<1> DEFINE d == units[v]
<1>1. DOMAIN units = 1..Len(units) /\ Len(units) \in Nat /\ v \in Int /\ v + 1 \in Int /\ v < v + 1 /\ v <= v + 1
  BY LenProperties DEF ChunkingTypes
<1>2. d \in Drafts /\ Len(d.text) \in Nat /\ d.spans = <<[node |-> d.node, from |-> 0, to |-> Len(d.text)]>>
  BY UnitIs
<1>3. Sound(units, d, v + 1)
  BY <1>1, WholeUnit
<1>4. \A k \in DOMAIN cs : AllBefore(units, cs[k], d)
  <2> SUFFICES ASSUME NEW k \in DOMAIN cs PROVE AllBefore(units, cs[k], d)
    OBVIOUS
  <2>1. Sound(units, cs[k], v)
    BY DEF InOrder
  <2>2. \A j \in DOMAIN d.spans : d.spans[j].node = units[v].node
    BY <1>2
  <2> HIDE DEF d
  <2> QED BY <1>1, <2>1, <2>2, BehindIsBefore
<1>5. InOrder(units, Append(cs, d), v + 1)
  <2> HIDE DEF d
  <2> QED BY <1>1, <1>2, <1>3, <1>4, InOrderAppend
<1>6. ASSUME NEW u \in DOMAIN units, u < v + 1, NEW c \in 1..Len(units[u].text)
      PROVE  Covered(units, Append(cs, d), u, c)
  <2>1. CASE u < v
    <3>1. Covered(units, cs, u, c)
      BY <2>1 DEF CoveredTo
    <3> QED BY <1>2, <3>1, CoveredAppend
  <2>2. CASE u = v
    <3>1. 1 \in DOMAIN d.spans /\ d.spans[1].node = units[u].node /\ d.spans[1].from < c /\ c <= d.spans[1].to
      BY <1>2, <2>2
    <3> QED BY <1>2, <3>1, CoveredAppend
  <2> QED BY <1>1, <1>6, <2>1, <2>2
<1>7. Append(cs, d) \in Seq(Drafts)
  BY <1>2, AppendAt
<1> QED BY <1>5, <1>6, <1>7 DEF CoveredTo

(* The unit after the last draft joins it.                                 *)
LEMMA ExtendMerged ==
  ASSUME ChunkingTypes, UnitsWalked, NEW cs \in Seq(Drafts), NEW a \in Drafts, NEW v \in DOMAIN units,
         InOrder(units, Append(cs, a), v), CoveredTo(units, Append(cs, a), v),
         units[v].kind = "table" \/ ~Overflows(units[v]), Fit(a, units[v])
  PROVE  /\ Merged(a, units[v]) \in Drafts /\ ~Overflows(Merged(a, units[v]))
         /\ Append(cs, Merged(a, units[v])) \in Seq(Drafts)
         /\ InOrder(units, Append(cs, Merged(a, units[v])), v + 1)
         /\ CoveredTo(units, Append(cs, Merged(a, units[v])), v + 1)
<1> DEFINE b == units[v]
           d == Merged(a, b)
           n == Len(a.spans)
           m == Len(b.spans)
<1>1. DOMAIN units = 1..Len(units) /\ Len(units) \in Nat /\ v \in Int /\ v + 1 \in Int /\ v < v + 1 /\ v <= v + 1
  BY LenProperties DEF ChunkingTypes
<1>2. b \in Drafts /\ Len(b.text) \in Nat /\ b.spans = <<[node |-> b.node, from |-> 0, to |-> Len(b.text)]>>
  BY UnitIs
<1>3. Sound(units, b, v + 1)
  BY <1>1, WholeUnit
<1>4. InOrder(units, cs, v) /\ Sound(units, a, v) /\ \A k \in DOMAIN cs : AllBefore(units, cs[k], a)
  BY InOrderPrefix
<1>5. \A j \in DOMAIN b.spans : b.spans[j].node = units[v].node
  BY <1>2
<1>b. b = units[v]
  OBVIOUS
<1> HIDE DEF b
<1>6. AllBefore(units, a, b)
  BY <1>1, <1>4, <1>5, BehindIsBefore
<1>7. \A k \in DOMAIN cs : AllBefore(units, cs[k], b)
  <2> SUFFICES ASSUME NEW k \in DOMAIN cs PROVE AllBefore(units, cs[k], b)
    OBVIOUS
  <2>1. Sound(units, cs[k], v)
    BY <1>4 DEF InOrder
  <2> QED BY <1>1, <1>5, <2>1, BehindIsBefore
<1>8. Sound(units, d, v + 1) /\ ~Overflows(d)
  BY <1>1, <1>2, <1>3, <1>4, <1>6, <1>b, MergeSound
<1>9. /\ d \in Drafts /\ DOMAIN d.spans = 1..n + m
      /\ \A i \in 1..n : d.spans[i] = a.spans[i]
      /\ \A i \in 1..n + m : i > n => i - n \in 1..m /\ d.spans[i] = b.spans[i - n]
  BY <1>2, MergedIs
<1>10. n \in Nat /\ m = 1 /\ DOMAIN a.spans = 1..n /\ DOMAIN b.spans = 1..m
  BY <1>2, DraftIs
<1> HIDE DEF d, n, m
<1>11. \A k \in DOMAIN cs : AllBefore(units, cs[k], d)
  <2> SUFFICES ASSUME NEW k \in DOMAIN cs, NEW i \in DOMAIN cs[k].spans, NEW j \in 1..n + m
               PROVE  Ordered(units, cs[k].spans[i], d.spans[j])
    BY <1>9 DEF AllBefore
  <2>1. CASE j <= n
    <3>1. j \in DOMAIN a.spans /\ d.spans[j] = a.spans[j]
      BY <1>9, <1>10, <2>1
    <3> QED BY <1>4, <3>1 DEF AllBefore
  <2>2. CASE j > n
    <3>1. j - n \in DOMAIN b.spans /\ d.spans[j] = b.spans[j - n]
      BY <1>9, <1>10, <2>2
    <3> QED BY <1>7, <3>1 DEF AllBefore
  <2> QED BY <1>10, <2>1, <2>2
<1>12. InOrder(units, Append(cs, d), v + 1)
  BY <1>1, <1>4, <1>8, <1>9, <1>11, InOrderAppend
<1>13. ASSUME NEW u \in DOMAIN units, u < v + 1, NEW c \in 1..Len(units[u].text)
       PROVE  Covered(units, Append(cs, d), u, c)
  <2>1. CASE u < v
    <3>1. Covered(units, Append(cs, a), u, c)
      BY <2>1 DEF CoveredTo
    <3>2. CASE Covered(units, cs, u, c)
      BY <1>9, <3>2, CoveredAppend
    <3>3. CASE \E i \in DOMAIN a.spans :
                 a.spans[i].node = units[u].node /\ a.spans[i].from < c /\ c <= a.spans[i].to
      <4>1. PICK i \in 1..n : a.spans[i].node = units[u].node /\ a.spans[i].from < c /\ c <= a.spans[i].to
        BY <1>10, <3>3
      <4>2. i \in DOMAIN d.spans /\ d.spans[i] = a.spans[i]
        BY <1>9, <1>10
      <4>3. \E x \in DOMAIN d.spans :
              d.spans[x].node = units[u].node /\ d.spans[x].from < c /\ c <= d.spans[x].to
        BY <4>1, <4>2
      <4> QED BY <1>9, <4>3, CoveredAppend
    <3> QED BY <3>1, <3>2, <3>3, CoveredAppend
  <2>2. CASE u = v
    <3>1. n + 1 \in DOMAIN d.spans /\ d.spans[n + 1] = b.spans[1]
      <4>1. n + 1 \in 1..n + m /\ n + 1 > n /\ (n + 1) - n = 1
        BY <1>10
      <4> QED BY <1>9, <4>1
    <3>2. b.spans[1].node = units[u].node /\ b.spans[1].from < c /\ c <= b.spans[1].to
      BY <1>2, <1>b, <2>2
    <3>3. \E i \in DOMAIN d.spans : d.spans[i].node = units[u].node /\ d.spans[i].from < c /\ c <= d.spans[i].to
      BY <3>1, <3>2
    <3> QED BY <1>9, <3>3, CoveredAppend
  <2> QED BY <1>1, <1>13, <2>1, <2>2
<1>14. Append(cs, d) \in Seq(Drafts)
  BY <1>9, AppendAt
<1> QED BY <1>8, <1>9, <1>12, <1>13, <1>14 DEF CoveredTo, d, b
-----------------------------------------------------------------------------
WalkInv == WalkedOnce /\ ReachedAll /\ NoneLeftOut /\ SiblingsWait /\ UnitsWalked

LEMMA ChunkingInitInv == ChunkingInit => ChunkingInv
<1> SUFFICES ASSUME ChunkingInit PROVE ChunkingInv
  OBVIOUS
<1>1. /\ document \in Documents /\ stack = document.roots /\ walked = <<>> /\ units = <<>> /\ chunks = <<>>
      /\ phase = "walk" /\ next = 1 /\ cut = 0
  BY DEF ChunkingInit, NothingDone
<1>2. DOMAIN walked = {} /\ DOMAIN units = {} /\ DOMAIN chunks = {} /\ Len(units) = 0 /\ Len(walked) = 0
  BY <1>1
<1>3. stack \in Seq(Ids)
  BY <1>1, DocumentIs
<1>4. ChunkingTypes
  BY <1>1, <1>2, <1>3 DEF ChunkingTypes
<1>5. WalkedOnce
  BY <1>1, <1>2, OnePlace DEF WalkedOnce
<1>6. ReachedAll
  BY <1>1, <1>2 DEF ReachedAll, Reached
<1>7. NoneLeftOut
  BY <1>1, <1>2 DEF NoneLeftOut, Met
<1>8. SiblingsWait
  BY <1>1, <1>2, RootNext DEF SiblingsWait
<1>9. UnitsWalked
  BY <1>2 DEF UnitsWalked
<1>10. Drafted = <<>> /\ Frontier = 1
  BY <1>1 DEF Drafted, Frontier
<1>11. DraftsSound
  BY <1>1, <1>2, <1>10 DEF DraftsSound, InOrder, CoveredTo
<1> QED BY <1>1, <1>4, <1>5, <1>6, <1>7, <1>8, <1>9, <1>11 DEF ChunkingInv, Splitting, Gathering, Phases

LEMMA VisitInv ==
  ASSUME ChunkingInv, Visit
  PROVE  ChunkingInv'
<1>1. /\ ChunkingTypes /\ WalkedOnce /\ ReachedAll /\ NoneLeftOut /\ SiblingsWait /\ UnitsWalked
      /\ chunks = <<>> /\ next = 1 /\ phase = "walk"
  BY DEF ChunkingInv, Phases, Visit
<1>2. document' = document /\ phase' = "walk" /\ chunks' = <<>> /\ next' = 1 /\ cut' = cut
  BY <1>1 DEF Visit
<1>3. WalkedOnce' /\ ReachedAll' /\ NoneLeftOut' /\ SiblingsWait' /\ UnitsWalked'
  BY <1>1, VisitWalkedOnce, VisitReachedAll, VisitNoneLeftOut, VisitSiblingsWait, VisitUnitsWalked
<1>4. ChunkingTypes'
  <2>1. Ids' = Ids /\ Places' = Places /\ Drafts' = Drafts
    BY <1>2 DEF Ids, Places, Drafts
  <2>2. walked' \in Seq(Ids) /\ stack' \in Seq(Ids) /\ units' \in Seq(Drafts)
    BY <1>1, VisitShape, VisitUnits
  <2>3. Len(units') \in Nat
    BY <2>2, LenProperties
  <2>4. next' \in 1..Len(units') + 1
    BY <1>2, <2>3
  <2>5. chunks' \in Seq(Drafts)
    BY <1>2, EmptySeq
  <2> QED BY <1>1, <1>2, <2>1, <2>2, <2>4, <2>5 DEF ChunkingTypes
<1>5. DraftsSound'
  <2>1. Drafted' = <<>> /\ Frontier' = 1 /\ DOMAIN Drafted' = {}
    BY <1>2 DEF Drafted, Frontier
  <2>2. \A u \in DOMAIN units' : ~(u < next')
    <3>1. DOMAIN units' = 1..Len(units') /\ Len(units') \in Nat
      BY <1>4, LenProperties DEF ChunkingTypes
    <3> QED BY <1>2, <3>1
  <2> QED BY <2>1, <2>2 DEF DraftsSound, InOrder, CoveredTo
<1>6. Splitting' /\ Gathering' /\ Phases'
  BY <1>2 DEF Splitting, Gathering, Phases
<1> QED BY <1>3, <1>4, <1>5, <1>6 DEF ChunkingInv

LEMMA WalkStays ==
  ASSUME WalkInv, UNCHANGED <<document, stack, walked, units>>
  PROVE  WalkInv'
<1>1. document' = document /\ stack' = stack /\ walked' = walked /\ units' = units
  OBVIOUS
<1>2. WalkedOnce'
  BY <1>1 DEF WalkInv, WalkedOnce
<1>3. ReachedAll'
  BY <1>1 DEF WalkInv, ReachedAll
<1>4. NoneLeftOut'
  BY <1>1 DEF WalkInv, NoneLeftOut
<1>5. SiblingsWait'
  BY <1>1 DEF WalkInv, SiblingsWait, Ids
<1>6. UnitsWalked'
  BY <1>1 DEF WalkInv, UnitsWalked
<1> QED BY <1>2, <1>3, <1>4, <1>5, <1>6 DEF WalkInv

(* What a turn of the loop has to show, once the walk is over.             *)
LEMMA TurnInv ==
  ASSUME ChunkingInv, UNCHANGED <<document, stack, walked, units>>, stack = <<>>,
         chunks' \in Seq(Drafts), next' \in 1..Len(units) + 1, cut' \in Nat,
         phase' \in {"group", "gather", "split", "done"}, phase' = "done" => next' > Len(units),
         InOrder(units, Drafted', Frontier'), CoveredTo(units, Drafted', next'),
         Splitting', phase' = "gather" => cursor' \in Drafts /\ ~Overflows(cursor')
  PROVE  ChunkingInv'
<1>1. document' = document /\ stack' = stack /\ walked' = walked /\ units' = units
  OBVIOUS
<1>2. WalkInv'
  BY WalkStays DEF WalkInv, ChunkingInv
<1>3. Ids' = Ids /\ Places' = Places /\ Drafts' = Drafts
  BY <1>1 DEF Ids, Places, Drafts
<1>4. ChunkingTypes'
  BY <1>1, <1>3 DEF ChunkingInv, ChunkingTypes
<1>5. DraftsSound'
  BY <1>1 DEF DraftsSound
<1>6. Gathering' /\ Phases'
  BY <1>1, <1>3 DEF Gathering, Phases
<1> QED BY <1>2, <1>4, <1>5, <1>6 DEF ChunkingInv, WalkInv

(* What holds at the head of the loop.                                     *)
LEMMA AtTurn ==
  ASSUME ChunkingInv, phase # "walk"
  PROVE  /\ ChunkingTypes /\ WalkedOnce /\ UnitsWalked /\ stack = <<>> /\ chunks \in Seq(Drafts)
         /\ DOMAIN units = 1..Len(units) /\ Len(units) \in Nat /\ next \in 1..Len(units) + 1 /\ cut \in Nat
         /\ InOrder(units, Drafted, Frontier) /\ CoveredTo(units, Drafted, next)
<1>1. ChunkingTypes /\ WalkedOnce /\ UnitsWalked /\ stack = <<>>
  BY DEF ChunkingInv, Phases
<1>2. DOMAIN units = 1..Len(units) /\ Len(units) \in Nat
  BY <1>1, LenProperties DEF ChunkingTypes
<1> QED BY <1>1, <1>2 DEF ChunkingInv, ChunkingTypes, DraftsSound

LEMMA StartGroupingInv ==
  ASSUME ChunkingInv, StartGrouping
  PROVE  ChunkingInv'
<1>1. /\ phase = "walk" /\ stack = <<>> /\ phase' = "group" /\ UNCHANGED <<document, stack, walked, units>>
      /\ next' = next /\ cut' = cut /\ chunks' = chunks /\ cursor' = cursor
  BY DEF StartGrouping
<1>2. Drafted' = Drafted /\ Frontier' = Frontier
  BY <1>1 DEF Drafted, Frontier
<1>3. InOrder(units, Drafted', Frontier') /\ CoveredTo(units, Drafted', next')
  BY <1>1, <1>2 DEF ChunkingInv, DraftsSound
<1>4. chunks' \in Seq(Drafts) /\ next' \in 1..Len(units) + 1 /\ cut' \in Nat
  BY <1>1 DEF ChunkingInv, ChunkingTypes
<1>5. Splitting'
  BY <1>1 DEF Splitting
<1> QED BY <1>1, <1>3, <1>4, <1>5, TurnInv

LEMMA KeepWholeInv ==
  ASSUME ChunkingInv, KeepWhole
  PROVE  ChunkingInv'
<1>1. /\ phase = "group" /\ phase' = "group" /\ UNCHANGED <<document, stack, walked, units>>
      /\ next' = next + 1 /\ cut' = cut /\ chunks' = Append(chunks, units[next])
      /\ next <= Len(units) /\ (units[next].kind = "table" \/ ~Overflows(units[next]))
  BY DEF KeepWhole, Grouping, Unit
<1>2. Drafted = chunks /\ Frontier = next /\ Drafted' = chunks' /\ Frontier' = next'
  BY <1>1 DEF Drafted, Frontier
<1>3. /\ ChunkingTypes /\ UnitsWalked /\ stack = <<>> /\ chunks \in Seq(Drafts) /\ cut \in Nat
      /\ InOrder(units, chunks, next) /\ CoveredTo(units, chunks, next)
      /\ next \in DOMAIN units /\ next + 1 \in 1..Len(units) + 1
  BY <1>1, <1>2, AtTurn
<1>4. /\ Append(chunks, units[next]) \in Seq(Drafts) /\ InOrder(units, Append(chunks, units[next]), next + 1)
      /\ CoveredTo(units, Append(chunks, units[next]), next + 1)
  BY <1>1, <1>3, ExtendWhole
<1>5. InOrder(units, Drafted', Frontier') /\ CoveredTo(units, Drafted', next') /\ chunks' \in Seq(Drafts)
  BY <1>1, <1>2, <1>4
<1>6. Splitting'
  BY <1>1 DEF Splitting
<1> QED BY <1>1, <1>3, <1>5, <1>6, TurnInv

LEMMA AttachHeadingInv ==
  ASSUME ChunkingInv, AttachHeading
  PROVE  ChunkingInv'
<1> DEFINE a == units[next]
           b == units[next + 1]
<1>1. /\ phase = "group" /\ phase' = "group" /\ UNCHANGED <<document, stack, walked, units>>
      /\ next' = next + 2 /\ cut' = cut /\ chunks' = Append(chunks, Merged(a, b))
      /\ next < Len(units) /\ ~Overflows(a) /\ Fit(a, b)
  BY DEF AttachHeading, Attaches, Grouping, Unit
<1>2. Drafted = chunks /\ Frontier = next /\ Drafted' = chunks' /\ Frontier' = next'
  BY <1>1 DEF Drafted, Frontier
<1>3. /\ ChunkingTypes /\ UnitsWalked /\ stack = <<>> /\ chunks \in Seq(Drafts) /\ cut \in Nat
      /\ InOrder(units, chunks, next) /\ CoveredTo(units, chunks, next)
      /\ next \in DOMAIN units /\ next + 1 \in DOMAIN units /\ next + 2 \in 1..Len(units) + 1
      /\ (next + 1) + 1 = next + 2
  BY <1>1, <1>2, AtTurn
<1>4. InOrder(units, Append(chunks, a), next + 1) /\ CoveredTo(units, Append(chunks, a), next + 1)
  BY <1>1, <1>3, ExtendWhole
<1>5. a \in Drafts /\ b \in Drafts
  BY <1>3, UnitIs
<1>6. ~Overflows(b)
  BY <1>1, <1>5, FitsAlso
<1>7. /\ Append(chunks, Merged(a, b)) \in Seq(Drafts) /\ InOrder(units, Append(chunks, Merged(a, b)), next + 2)
      /\ CoveredTo(units, Append(chunks, Merged(a, b)), next + 2)
  <2> HIDE DEF a
  <2>1. /\ Append(chunks, Merged(a, units[next + 1])) \in Seq(Drafts)
        /\ InOrder(units, Append(chunks, Merged(a, units[next + 1])), (next + 1) + 1)
        /\ CoveredTo(units, Append(chunks, Merged(a, units[next + 1])), (next + 1) + 1)
    BY <1>1, <1>3, <1>4, <1>5, <1>6, ExtendMerged
  <2> QED BY <1>3, <2>1
<1>8. InOrder(units, Drafted', Frontier') /\ CoveredTo(units, Drafted', next') /\ chunks' \in Seq(Drafts)
  BY <1>1, <1>2, <1>7
<1>9. Splitting'
  BY <1>1 DEF Splitting
<1> QED BY <1>1, <1>3, <1>8, <1>9, TurnInv

LEMMA StartGatheringInv ==
  ASSUME ChunkingInv, StartGathering
  PROVE  ChunkingInv'
<1>1. /\ phase = "group" /\ phase' = "gather" /\ UNCHANGED <<document, stack, walked, units>>
      /\ next' = next + 1 /\ cut' = cut /\ chunks' = chunks /\ cursor' = units[next]
      /\ next <= Len(units) /\ ~Overflows(units[next])
  BY DEF StartGathering, Grouping, Unit
<1>2. Drafted = chunks /\ Frontier = next /\ Drafted' = Append(chunks, units[next]) /\ Frontier' = next'
  BY <1>1 DEF Drafted, Frontier
<1>3. /\ ChunkingTypes /\ UnitsWalked /\ stack = <<>> /\ chunks \in Seq(Drafts) /\ cut \in Nat
      /\ InOrder(units, chunks, next) /\ CoveredTo(units, chunks, next)
      /\ next \in DOMAIN units /\ next + 1 \in 1..Len(units) + 1
  BY <1>1, <1>2, AtTurn
<1>4. /\ InOrder(units, Append(chunks, units[next]), next + 1)
      /\ CoveredTo(units, Append(chunks, units[next]), next + 1)
  BY <1>1, <1>3, ExtendWhole
<1>5. InOrder(units, Drafted', Frontier') /\ CoveredTo(units, Drafted', next')
  BY <1>1, <1>2, <1>4
<1>6. cursor' \in Drafts /\ ~Overflows(cursor')
  BY <1>1, <1>3, UnitIs
<1>7. Splitting'
  BY <1>1 DEF Splitting
<1> QED BY <1>1, <1>3, <1>5, <1>6, <1>7, TurnInv

LEMMA GatherInv ==
  ASSUME ChunkingInv, Gather
  PROVE  ChunkingInv'
<1>1. /\ phase = "gather" /\ phase' = "gather" /\ UNCHANGED <<document, stack, walked, units>>
      /\ next' = next + 1 /\ cut' = cut /\ chunks' = chunks /\ cursor' = Merged(cursor, units[next])
      /\ next <= Len(units) /\ (units[next].kind = "table" \/ ~Overflows(units[next]))
      /\ Fit(cursor, units[next])
  BY DEF Gather, Joins, Unit
<1>2. /\ Drafted = Append(chunks, cursor) /\ Frontier = next
      /\ Drafted' = Append(chunks, Merged(cursor, units[next])) /\ Frontier' = next'
  BY <1>1 DEF Drafted, Frontier
<1>3. /\ ChunkingTypes /\ UnitsWalked /\ stack = <<>> /\ chunks \in Seq(Drafts) /\ cut \in Nat
      /\ InOrder(units, Append(chunks, cursor), next) /\ CoveredTo(units, Append(chunks, cursor), next)
      /\ next \in DOMAIN units /\ next + 1 \in 1..Len(units) + 1
  BY <1>1, <1>2, AtTurn
<1>4. cursor \in Drafts
  BY <1>1 DEF ChunkingInv, Gathering
<1>5. /\ Merged(cursor, units[next]) \in Drafts /\ ~Overflows(Merged(cursor, units[next]))
      /\ InOrder(units, Append(chunks, Merged(cursor, units[next])), next + 1)
      /\ CoveredTo(units, Append(chunks, Merged(cursor, units[next])), next + 1)
  BY <1>1, <1>3, <1>4, ExtendMerged
<1>6. InOrder(units, Drafted', Frontier') /\ CoveredTo(units, Drafted', next')
  BY <1>1, <1>2, <1>5
<1>7. Splitting'
  BY <1>1 DEF Splitting
<1> QED BY <1>1, <1>3, <1>5, <1>6, <1>7, TurnInv

LEMMA EndGatheringInv ==
  ASSUME ChunkingInv, EndGathering
  PROVE  ChunkingInv'
<1>1. /\ phase = "gather" /\ phase' = "group" /\ UNCHANGED <<document, stack, walked, units>>
      /\ next' = next /\ cut' = cut /\ chunks' = Append(chunks, cursor)
  BY DEF EndGathering
<1>2. /\ Drafted = Append(chunks, cursor) /\ Drafted' = Drafted /\ Frontier' = Frontier
  BY <1>1 DEF Drafted, Frontier
<1>3. /\ stack = <<>> /\ chunks \in Seq(Drafts) /\ cut \in Nat /\ next \in 1..Len(units) + 1
      /\ InOrder(units, Drafted, Frontier) /\ CoveredTo(units, Drafted, next)
  BY <1>1, AtTurn
<1>4. chunks' \in Seq(Drafts)
  <2>1. cursor \in Drafts
    BY <1>1 DEF ChunkingInv, Gathering
  <2> QED BY <1>1, <1>3, <2>1, AppendAt
<1>5. Splitting'
  BY <1>1 DEF Splitting
<1> QED BY <1>1, <1>2, <1>3, <1>4, <1>5, TurnInv
LEMMA StartSplittingInv ==
  ASSUME ChunkingInv, StartSplitting
  PROVE  ChunkingInv'
<1>1. /\ phase = "group" /\ phase' = "split" /\ UNCHANGED <<document, stack, walked, units>>
      /\ next' = next /\ cut' = 0 /\ chunks' = chunks
      /\ next <= Len(units) /\ Overflows(units[next]) /\ units[next].kind # "table"
  BY DEF StartSplitting, Grouping, Unit
<1>2. Drafted = chunks /\ Frontier = next /\ Drafted' = chunks /\ Frontier' = next + 1
  BY <1>1 DEF Drafted, Frontier
<1>3. /\ ChunkingTypes /\ WalkedOnce /\ UnitsWalked /\ stack = <<>> /\ chunks \in Seq(Drafts)
      /\ InOrder(units, chunks, next) /\ CoveredTo(units, chunks, next)
      /\ next \in DOMAIN units /\ next \in 1..Len(units) + 1 /\ next \in Int /\ next + 1 \in Int /\ next <= next + 1
  BY <1>1, <1>2, AtTurn
<1>4. InOrder(units, Drafted', Frontier') /\ CoveredTo(units, Drafted', next')
  BY <1>1, <1>2, <1>3, InOrderLater
<1>5. ASSUME NEW k \in DOMAIN chunks
      PROVE  EndsBy(units, chunks[k], next, 0)
  <2> SUFFICES ASSUME NEW i \in DOMAIN chunks[k].spans, NEW u \in DOMAIN units,
                      chunks[k].spans[i].node = units[u].node
               PROVE  u < next
    BY DEF EndsBy
  <2>1. Sound(units, chunks[k], next)
    BY <1>3 DEF InOrder
  <2>2. PICK w \in DOMAIN units : w < next /\ units[w].node = chunks[k].spans[i].node
    BY <2>1 DEF Sound, Cites, SpanOf
  <2>3. u = w
    BY <1>3, <2>2, UnitsApart
  <2> QED BY <2>2, <2>3
<1>6. Splitting'
  <2>1. Len(units[next].text) \in Nat
    BY <1>3, UnitIs
  <2>2. 1..0 = {} /\ 0 <= Len(units[next].text)
    BY <2>1
  <2> QED BY <1>1, <1>3, <1>5, <2>2 DEF Splitting, Unit
<1>7. cut' \in Nat
  BY <1>1
<1> QED BY <1>1, <1>3, <1>4, <1>6, <1>7, TurnInv

LEMMA SplitInv ==
  ASSUME ChunkingInv, Split
  PROVE  ChunkingInv'
<1> DEFINE t   == units[next].text
           end == WindowEnd(t, cut)
           d   == Window(units[next], cut, end)
<1>1. /\ phase = "split" /\ phase' = "split" /\ UNCHANGED <<document, stack, walked, units>>
      /\ next' = next /\ cut' = end /\ chunks' = Append(chunks, d) /\ cut < Len(t)
  BY DEF Split, Unit, NextStart
<1>2. Drafted = chunks /\ Frontier = next + 1 /\ Drafted' = chunks' /\ Frontier' = next + 1
  BY <1>1 DEF Drafted, Frontier
<1>3. /\ ChunkingTypes /\ WalkedOnce /\ UnitsWalked /\ stack = <<>> /\ chunks \in Seq(Drafts) /\ cut \in Nat
      /\ DOMAIN units = 1..Len(units) /\ Len(units) \in Nat /\ next \in 1..Len(units) + 1
      /\ InOrder(units, chunks, next + 1) /\ CoveredTo(units, chunks, next)
  BY <1>1, <1>2, AtTurn
<1>4. /\ next \in DOMAIN units /\ Overflows(units[next]) /\ units[next].kind # "table"
      /\ \A c \in 1..cut : Covered(units, chunks, next, c)
      /\ \A k \in DOMAIN chunks : EndsBy(units, chunks[k], next, cut)
  BY <1>1 DEF ChunkingInv, Splitting, Unit
<1>5. /\ d \in Drafts /\ Sound(units, d, next + 1) /\ end \in cut + 1..Len(t)
      /\ 1 \in DOMAIN d.spans /\ \A i \in DOMAIN d.spans : i = 1
      /\ d.spans[1] = [node |-> units[next].node, from |-> cut, to |-> end]
  <2>1. end = WindowEnd(units[next].text, cut) /\ d = Window(units[next], cut, end)
    OBVIOUS
  <2> HIDE DEF end, d
  <2>2. cut < Len(units[next].text)
    BY <1>1
  <2>3. /\ d \in Drafts /\ Sound(units, d, next + 1) /\ end \in cut + 1..Len(units[next].text)
        /\ d.spans = <<[node |-> units[next].node, from |-> cut, to |-> end]>>
    <3>1. ChunkingTypes /\ WalkedOnce /\ UnitsWalked /\ cut \in Nat
      BY <1>3
    <3>2. next \in DOMAIN units /\ Overflows(units[next]) /\ units[next].kind # "table"
      BY <1>4
    <3> HIDE DEF t
    <3> QED BY <2>1, <2>2, <3>1, <3>2, WindowSound
  <2> QED BY <2>3
<1>6. Len(t) \in Nat
  BY <1>3, <1>4, UnitIs
<1>u. t = Unit.text
  BY DEF Unit
<1> HIDE DEF d, end, t
<1>7. d.spans[1].node = units[next].node /\ d.spans[1].from = cut /\ d.spans[1].to = end /\ end \in Nat /\ cut < end
  BY <1>3, <1>5, <1>6
<1>8. ASSUME NEW k \in DOMAIN chunks
      PROVE  AllBefore(units, chunks[k], d)
  <2> SUFFICES ASSUME NEW i \in DOMAIN chunks[k].spans
               PROVE  Ordered(units, chunks[k].spans[i], d.spans[1])
    BY <1>5 DEF AllBefore
  <2>1. Sound(units, chunks[k], next + 1)
    BY <1>3 DEF InOrder
  <2>2. PICK w \in DOMAIN units : units[w].node = chunks[k].spans[i].node
    BY <2>1 DEF Sound, Cites, SpanOf
  <2>3. w < next \/ (w = next /\ chunks[k].spans[i].to <= cut)
    BY <1>4, <2>2 DEF EndsBy
  <2> QED BY <1>4, <1>7, <2>2, <2>3 DEF Ordered
<1>9. next + 1 \in Int /\ next + 1 <= next + 1
  BY <1>3
<1>10. InOrder(units, Append(chunks, d), next + 1)
  BY <1>3, <1>5, <1>8, <1>9, InOrderAppend
<1>11. CoveredTo(units, Append(chunks, d), next)
  BY <1>3, <1>5, CoveredAppend DEF CoveredTo
<1>12. InOrder(units, Drafted', Frontier') /\ CoveredTo(units, Drafted', next') /\ chunks' \in Seq(Drafts)
  BY <1>1, <1>2, <1>3, <1>5, <1>10, <1>11, AppendAt
<1>13. ASSUME NEW c \in 1..end
       PROVE  Covered(units, chunks', next, c)
  <2>1. CASE c <= cut
    <3>1. Covered(units, chunks, next, c)
      BY <1>3, <1>4, <2>1
    <3> QED BY <1>1, <1>3, <1>5, <3>1, CoveredAppend
  <2>2. CASE c > cut
    <3>1. \E i \in DOMAIN d.spans : d.spans[i].node = units[next].node /\ d.spans[i].from < c /\ c <= d.spans[i].to
      BY <1>5, <1>7, <2>2
    <3> QED BY <1>1, <1>3, <1>5, <3>1, CoveredAppend
  <2> QED BY <1>3, <1>7, <2>1, <2>2
<1>14. ASSUME NEW k \in DOMAIN chunks'
       PROVE  EndsBy(units, chunks'[k], next, end)
  <2> DEFINE n == Len(chunks)
  <2>1. /\ n \in Nat /\ DOMAIN chunks = 1..n /\ DOMAIN chunks' = 1..n + 1
        /\ \A x \in 1..n : chunks'[x] = chunks[x]
        /\ chunks'[n + 1] = d
    BY <1>1, <1>3, <1>5, AppendAt, LenProperties
  <2> HIDE DEF n
  <2>2. CASE k = n + 1
    <3> SUFFICES ASSUME NEW i \in DOMAIN d.spans, NEW u \in DOMAIN units, d.spans[i].node = units[u].node
                 PROVE  u = next /\ d.spans[i].to <= end
      BY <2>1, <2>2 DEF EndsBy
    <3>1. i = 1
      BY <1>5
    <3>2. u = next
      BY <1>3, <1>4, <1>7, <3>1, UnitsApart
    <3> QED BY <1>7, <3>1, <3>2
  <2>3. CASE k \in 1..n
    <3>1. EndsBy(units, chunks[k], next, cut) /\ chunks'[k] = chunks[k] /\ k \in DOMAIN chunks
      BY <1>4, <2>1, <2>3
    <3>2. chunks[k] \in Drafts
      BY <1>3, <3>1, ElementOfSeq
    <3> SUFFICES ASSUME NEW i \in DOMAIN chunks[k].spans, NEW u \in DOMAIN units,
                        chunks[k].spans[i].node = units[u].node, ~(u < next)
                 PROVE  u = next /\ chunks[k].spans[i].to <= end
      BY <3>1 DEF EndsBy
    <3>3. u = next /\ chunks[k].spans[i].to <= cut
      BY <3>1 DEF EndsBy
    <3>4. chunks[k].spans[i].to \in Nat
      BY <3>2, DraftIs
    <3> QED BY <1>3, <1>7, <3>3, <3>4
  <2> QED BY <2>1, <2>2, <2>3
<1>15. Splitting'
  <2>1. end <= Len(t)
    BY <1>5, <1>6
  <2> QED BY <1>1, <1>4, <1>13, <1>14, <2>1 DEF Splitting, Unit, t
<1>16. cut' \in Nat
  BY <1>1, <1>7
<1> QED BY <1>1, <1>3, <1>12, <1>15, <1>16, TurnInv

LEMMA EndSplittingInv ==
  ASSUME ChunkingInv, EndSplitting
  PROVE  ChunkingInv'
<1>1. /\ phase = "split" /\ phase' = "group" /\ UNCHANGED <<document, stack, walked, units>>
      /\ next' = next + 1 /\ cut' = cut /\ chunks' = chunks /\ cut >= Len(units[next].text)
  BY DEF EndSplitting, Unit
<1>2. Drafted = chunks /\ Frontier = next + 1 /\ Drafted' = chunks /\ Frontier' = next + 1
  BY <1>1 DEF Drafted, Frontier
<1>3. /\ ChunkingTypes /\ UnitsWalked /\ stack = <<>> /\ chunks \in Seq(Drafts) /\ cut \in Nat
      /\ DOMAIN units = 1..Len(units) /\ Len(units) \in Nat /\ next \in 1..Len(units) + 1
      /\ InOrder(units, chunks, next + 1) /\ CoveredTo(units, chunks, next)
  BY <1>1, <1>2, AtTurn
<1>4. next \in DOMAIN units /\ \A c \in 1..cut : Covered(units, chunks, next, c)
  BY <1>1 DEF ChunkingInv, Splitting
<1>5. next + 1 \in 1..Len(units) + 1
  BY <1>3, <1>4
<1>6. CoveredTo(units, chunks, next + 1)
  <2> SUFFICES ASSUME NEW u \in DOMAIN units, u < next + 1, NEW c \in 1..Len(units[u].text)
               PROVE  Covered(units, chunks, u, c)
    BY DEF CoveredTo
  <2>1. CASE u < next
    BY <1>3, <2>1 DEF CoveredTo
  <2>2. CASE u = next
    <3>1. Len(units[next].text) \in Nat
      BY <1>3, <1>4, UnitIs
    <3>2. c \in 1..cut
      BY <1>1, <1>3, <2>2, <3>1
    <3> QED BY <1>4, <2>2, <3>2
  <2> QED BY <1>3, <2>1, <2>2
<1>7. InOrder(units, Drafted', Frontier') /\ CoveredTo(units, Drafted', next')
  BY <1>1, <1>2, <1>3, <1>6
<1>8. Splitting'
  BY <1>1 DEF Splitting
<1> QED BY <1>1, <1>3, <1>5, <1>7, <1>8, TurnInv

LEMMA FinishInv ==
  ASSUME ChunkingInv, Finish
  PROVE  ChunkingInv'
<1>1. /\ phase = "group" /\ phase' = "done" /\ UNCHANGED <<document, stack, walked, units>>
      /\ next' = next /\ cut' = cut /\ chunks' = chunks /\ next > Len(units)
  BY DEF Finish
<1>2. Drafted = chunks /\ Frontier = next /\ Drafted' = chunks /\ Frontier' = next
  BY <1>1 DEF Drafted, Frontier
<1>3. /\ stack = <<>> /\ chunks \in Seq(Drafts) /\ cut \in Nat /\ next \in 1..Len(units) + 1
      /\ InOrder(units, chunks, next) /\ CoveredTo(units, chunks, next)
  BY <1>1, <1>2, AtTurn
<1>4. Splitting'
  BY <1>1 DEF Splitting
<1> QED BY <1>1, <1>2, <1>3, <1>4, TurnInv

LEMMA ChunkingStutters ==
  ASSUME ChunkingInv, UNCHANGED chunkingVars
  PROVE  ChunkingInv'
<1>1. /\ document' = document /\ stack' = stack /\ walked' = walked /\ units' = units /\ phase' = phase
      /\ next' = next /\ cursor' = cursor /\ cut' = cut /\ chunks' = chunks
  BY DEF chunkingVars
<1>2. WalkInv'
  BY <1>1, WalkStays DEF WalkInv, ChunkingInv
<1>3. Ids' = Ids /\ Places' = Places /\ Drafts' = Drafts
  BY <1>1 DEF Ids, Places, Drafts
<1>4. ChunkingTypes'
  BY <1>1, <1>3 DEF ChunkingInv, ChunkingTypes
<1>5. DraftsSound'
  BY <1>1 DEF ChunkingInv, DraftsSound, Drafted, Frontier
<1>6. Splitting' /\ Gathering' /\ Phases'
  BY <1>1, <1>3 DEF ChunkingInv, Splitting, Gathering, Phases, Unit
<1> QED BY <1>2, <1>4, <1>5, <1>6 DEF ChunkingInv, WalkInv

LEMMA ChunkingNextInv == ChunkingInv /\ [ChunkingNext]_chunkingVars => ChunkingInv'
<1> SUFFICES ASSUME ChunkingInv, [ChunkingNext]_chunkingVars PROVE ChunkingInv'
  OBVIOUS
<1>1. CASE Visit          BY <1>1, VisitInv
<1>2. CASE StartGrouping  BY <1>2, StartGroupingInv
<1>3. CASE KeepWhole      BY <1>3, KeepWholeInv
<1>4. CASE AttachHeading  BY <1>4, AttachHeadingInv
<1>5. CASE StartGathering BY <1>5, StartGatheringInv
<1>6. CASE Gather         BY <1>6, GatherInv
<1>7. CASE EndGathering   BY <1>7, EndGatheringInv
<1>8. CASE StartSplitting BY <1>8, StartSplittingInv
<1>9. CASE Split          BY <1>9, SplitInv
<1>10. CASE EndSplitting  BY <1>10, EndSplittingInv
<1>11. CASE Finish        BY <1>11, FinishInv
<1>12. CASE UNCHANGED chunkingVars
  BY <1>12, ChunkingStutters
<1> QED BY <1>1, <1>2, <1>3, <1>4, <1>5, <1>6, <1>7, <1>8, <1>9, <1>10, <1>11, <1>12 DEF ChunkingNext

-----------------------------------------------------------------------------
LEMMA RangeIs ==
  ASSUME NEW f, NEW x
  PROVE  x \in Range(f) <=> \E i \in DOMAIN f : x = f[i]
BY DEF Range

(* A child of what was walked is a child in the sense of DocumentOrder.    *)
LEMMA ChildIs ==
  ASSUME NEW id, NEW i \in Int, NEW n \in Int, ChildFrom(document, walked, id, i, n)
  PROVE  \E p \in i..n : id \in ChildrenOf(walked[p])
BY RangeIs DEF ChildFrom, ChildrenOf

LEMMA OrderFromInv == ChunkingInv => DocumentOrder
<1> SUFFICES ASSUME ChunkingInv PROVE DocumentOrder
  OBVIOUS
<1>1. DOMAIN walked = 1..Len(walked) /\ Len(walked) \in Nat
  BY LenProperties DEF ChunkingInv, ChunkingTypes
<1>2. \A i, j \in DOMAIN walked : walked[i] = walked[j] => i = j
  BY DEF ChunkingInv, WalkedOnce
<1>3. ASSUME NEW j \in DOMAIN walked
      PROVE  walked[j] \in Range(document.roots) \/ \E i \in 1..j - 1 : walked[j] \in ChildrenOf(walked[i])
  <2>1. Reached(document, walked, walked[j], j - 1)
    BY DEF ChunkingInv, ReachedAll
  <2> QED BY <2>1, RangeIs DEF Reached, ChildrenOf
<1>4. ASSUME NEW i \in DOMAIN walked, NEW j \in DOMAIN walked, Adjacent(document, walked[i], walked[j])
      PROVE  i < j /\ \A k \in i + 1..j - 1 : \E p \in i..k - 1 : walked[k] \in ChildrenOf(walked[p])
  <2>1. i < j /\ \A k \in i + 1..j - 1 : ChildFrom(document, walked, walked[k], i, k - 1)
    BY <1>4 DEF ChunkingInv, SiblingsWait
  <2>2. ASSUME NEW k \in i + 1..j - 1
        PROVE  \E p \in i..k - 1 : walked[k] \in ChildrenOf(walked[p])
    <3>1. i \in Int /\ k - 1 \in Int
      BY <1>1
    <3> QED BY <2>1, <3>1, ChildIs
  <2> QED BY <2>1, <2>2
<1>5. ASSUME phase # "walk"
      PROVE  /\ Range(document.roots) \subseteq Range(walked)
             /\ \A id \in Range(walked) : ChildrenOf(id) \subseteq Range(walked)
  <2>1. \A id : Met(walked, stack, id) => id \in Range(walked)
    <3>1. DOMAIN stack = {}
      BY <1>5 DEF ChunkingInv, Phases
    <3> QED BY <3>1, RangeIs DEF Met
  <2>2. Range(document.roots) \subseteq Range(walked)
    BY <2>1, RangeIs DEF ChunkingInv, NoneLeftOut
  <2>3. ASSUME NEW id \in Range(walked), NEW c \in ChildrenOf(id)
        PROVE  c \in Range(walked)
    <3>1. PICK i \in DOMAIN walked : id = walked[i]
      BY RangeIs
    <3>2. PICK j \in DOMAIN Below(document, walked[i]) : c = Below(document, walked[i])[j]
      BY <3>1, RangeIs DEF ChildrenOf
    <3> QED BY <2>1, <3>2 DEF ChunkingInv, NoneLeftOut
  <2> QED BY <2>2, <2>3
<1> QED BY <1>2, <1>3, <1>4, <1>5 DEF DocumentOrder

(* What holds of the chunks holds of the drafts they were appended from.   *)
LEMMA ChunksSound ==
  ASSUME ChunkingInv
  PROVE  \E v : InOrder(units, chunks, v)
<1>1. InOrder(units, Drafted, Frontier) /\ chunks \in Seq(Drafts)
  BY DEF ChunkingInv, DraftsSound, ChunkingTypes
<1>2. CASE phase = "gather"
  <2>1. cursor \in Drafts /\ Drafted = Append(chunks, cursor)
    BY <1>2 DEF ChunkingInv, Gathering, Drafted
  <2> QED BY <1>1, <2>1, InOrderPrefix
<1>3. CASE phase # "gather"
  BY <1>1, <1>3 DEF Drafted
<1> QED BY <1>2, <1>3

LEMMA TileFromInv == ChunkingInv => SpansTile
<1> SUFFICES ASSUME ChunkingInv PROVE SpansTile
  OBVIOUS
<1>1. PICK v : InOrder(units, chunks, v)
  BY ChunksSound
<1>2. ASSUME NEW k \in DOMAIN chunks, NEW l \in DOMAIN chunks,
             NEW i \in DOMAIN chunks[k].spans, NEW j \in DOMAIN chunks[l].spans, k < l \/ (k = l /\ i < j)
      PROVE  Precedes(chunks[k].spans[i], chunks[l].spans[j])
  <2>1. Ordered(units, chunks[k].spans[i], chunks[l].spans[j])
    <3>1. CASE k < l
      BY <1>1, <3>1 DEF InOrder, AllBefore
    <3>2. CASE k = l /\ i < j
      BY <1>1, <3>2 DEF InOrder, Sound
    <3> QED BY <1>2, <3>1, <3>2
  <2> QED BY <2>1 DEF Ordered, Precedes
<1>3. ASSUME phase = "done", NEW u \in DOMAIN units, NEW c \in 1..Len(units[u].text)
      PROVE  \E k \in DOMAIN chunks : \E i \in DOMAIN chunks[k].spans : Covers(chunks[k].spans[i], u, c)
  <2>1. CoveredTo(units, chunks, next)
    BY <1>3 DEF ChunkingInv, DraftsSound, Drafted
  <2>2. u < next
    <3>1. DOMAIN units = 1..Len(units) /\ Len(units) \in Nat /\ next > Len(units) /\ next \in 1..Len(units) + 1
      BY <1>3, LenProperties DEF ChunkingInv, ChunkingTypes, Phases
    <3> QED BY <3>1
  <2>3. Covered(units, chunks, u, c)
    BY <2>1, <2>2 DEF CoveredTo
  <2> QED BY <2>3 DEF Covered, Covers
<1> QED BY <1>2, <1>3 DEF SpansTile

LEMMA CitedFromInv == ChunkingInv => CitedText
<1> SUFFICES ASSUME ChunkingInv, NEW k \in DOMAIN chunks, NEW i \in DOMAIN chunks[k].spans
             PROVE  LET s == chunks[k].spans[i] IN
                    \E u \in DOMAIN units : \E at \in 0 .. Len(chunks[k].text) :
                       /\ units[u].node = s.node
                       /\ s.from < s.to /\ s.to <= Len(units[u].text) /\ at + s.to - s.from <= Len(chunks[k].text)
                       /\ \A c \in s.from + 1 .. s.to : chunks[k].text[at + c - s.from] = units[u].text[c]
  BY DEF CitedText
<1>1. PICK v : InOrder(units, chunks, v)
  BY ChunksSound
<1>2. Cites(units, chunks[k].text, chunks[k].spans[i], v)
  BY <1>1 DEF InOrder, Sound
<1> QED BY <1>2 DEF Cites, SpanOf, Shows

LEMMA BudgetFromInv == ChunkingInv => ChunkFitsBudget
<1> SUFFICES ASSUME ChunkingInv, NEW k \in DOMAIN chunks
             PROVE  /\ Overflows(chunks[k]) => chunks[k].kind = "table" /\ Len(chunks[k].spans) = 1
                    /\ \A i \in DOMAIN chunks[k].spans : \A u \in DOMAIN units :
                         chunks[k].spans[i].node = units[u].node /\ (units[u].kind = "table" \/ ~Overflows(units[u])) =>
                           chunks[k].spans[i].from = 0 /\ chunks[k].spans[i].to = Len(units[u].text)
  BY DEF ChunkFitsBudget
<1>1. PICK v : InOrder(units, chunks, v)
  BY ChunksSound
<1>2. Sound(units, chunks[k], v)
  BY <1>1 DEF InOrder
<1>3. Overflows(chunks[k]) => chunks[k].kind = "table" /\ Len(chunks[k].spans) = 1
  BY <1>2 DEF Sound
<1>4. ASSUME NEW i \in DOMAIN chunks[k].spans, NEW u \in DOMAIN units, chunks[k].spans[i].node = units[u].node,
             units[u].kind = "table" \/ ~Overflows(units[u])
      PROVE  chunks[k].spans[i].from = 0 /\ chunks[k].spans[i].to = Len(units[u].text)
  <2>1. PICK w \in DOMAIN units : SpanOf(units, chunks[k].spans[i], w) /\ Whole(units, chunks[k].spans[i], w)
    BY <1>2 DEF Sound, Cites
  <2>2. u = w
    BY <1>4, <2>1, UnitsApart DEF SpanOf, ChunkingInv
  <2> QED BY <1>4, <2>1, <2>2 DEF Whole
<1> QED BY <1>3, <1>4

LEMMA DistinctFromInv == ChunkingInv => ChunksAreDistinct
<1> SUFFICES ASSUME ChunkingInv PROVE ChunksAreDistinct
  OBVIOUS
<1>1. PICK v : InOrder(units, chunks, v)
  BY ChunksSound
<1>2. DOMAIN chunks = 1..Len(chunks) /\ Len(chunks) \in Nat
  BY LenProperties DEF ChunkingInv, ChunkingTypes
<1>3. DOMAIN units = 1..Len(units) /\ Len(units) \in Nat
  BY LenProperties DEF ChunkingInv, ChunkingTypes
<1>4. ASSUME NEW k \in DOMAIN chunks
      PROVE  /\ chunks[k] \in Drafts /\ 1 \in DOMAIN chunks[k].spans
             /\ chunks[k].node = chunks[k].spans[1].node /\ chunks[k].from = chunks[k].spans[1].from
             /\ chunks[k].to = chunks[k].spans[1].to /\ chunks[k].from < chunks[k].to
  <2>1. chunks[k] \in Drafts
    BY ElementOfSeq DEF ChunkingInv, ChunkingTypes
  <2>2. Sound(units, chunks[k], v)
    BY <1>1 DEF InOrder
  <2>3. 1 \in DOMAIN chunks[k].spans
    <3>1. chunks[k].spans \in Seq(Places) /\ chunks[k].spans # <<>>
      BY <2>1, <2>2, DraftIs DEF Sound
    <3> QED BY <3>1
  <2>4. chunks[k].spans[1].from < chunks[k].spans[1].to
    BY <2>2, <2>3 DEF Sound, Cites, SpanOf
  <2> QED BY <2>1, <2>2, <2>3, <2>4 DEF Sound
<1>5. ASSUME NEW k \in DOMAIN chunks, NEW l \in DOMAIN chunks, k < l, ChunkId(chunks[k]) = ChunkId(chunks[l])
      PROVE  FALSE
  <2>1. Ordered(units, chunks[k].spans[1], chunks[l].spans[1])
    BY <1>1, <1>4, <1>5 DEF InOrder, AllBefore
  <2>2. PICK u \in DOMAIN units, w \in DOMAIN units :
          /\ units[u].node = chunks[k].node /\ units[w].node = chunks[l].node
          /\ u < w \/ (u = w /\ chunks[k].to <= chunks[l].from)
    BY <1>4, <2>1 DEF Ordered
  <2>3. chunks[k].node = chunks[l].node /\ chunks[k].from = chunks[l].from /\ chunks[k].to = chunks[l].to
    BY <1>5 DEF ChunkId
  <2>4. u = w
    BY <2>2, <2>3, UnitsApart DEF ChunkingInv
  <2>5. chunks[k].from \in Nat /\ chunks[k].to \in Nat
    BY <1>4, DraftIs
  <2> QED BY <1>3, <1>4, <2>2, <2>3, <2>4, <2>5
<1> SUFFICES ASSUME NEW k \in DOMAIN chunks, NEW l \in DOMAIN chunks, ChunkId(chunks[k]) = ChunkId(chunks[l])
             PROVE  k = l
  BY DEF ChunksAreDistinct
<1>6. ~(k < l) /\ ~(l < k)
  BY <1>5
<1> QED BY <1>2, <1>6

(* The chunking of every well-formed document, under every budget: the     *)
(* walk meets every node once and in document order, the chunks tile the   *)
(* units it finds, show the text they cite, exceed the budget only as a    *)
(* table that stands alone, and have an identity each (chunk_document).    *)
THEOREM ChunkingSafety == ChunkingSpec => []ChunkingSafe
<1>1. ChunkingInit => ChunkingInv
  BY ChunkingInitInv
<1>2. ChunkingInv /\ [ChunkingNext]_chunkingVars => ChunkingInv'
  BY ChunkingNextInv
<1>3. ChunkingInv => ChunkingSafe
  <2> SUFFICES ASSUME ChunkingInv PROVE ChunkingSafe
    OBVIOUS
  <2>1. UnitsAreLeaves
    BY DEF ChunkingInv, UnitsWalked, UnitsAreLeaves
  <2> QED BY <2>1, OrderFromInv, TileFromInv, CitedFromInv, BudgetFromInv, DistinctFromInv DEF ChunkingSafe
<1> QED BY <1>1, <1>2, <1>3, PTL DEF ChunkingSpec
=============================================================================
