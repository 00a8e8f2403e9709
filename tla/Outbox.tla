------------------------------- MODULE Outbox -------------------------------
(***************************************************************************)
(* The job-event stream: transactions that append to outbox_events, the    *)
(* SSE generator that tails the table for every connection, and the        *)
(* browser's job store that listens to it.                                 *)
(*                                                                         *)
(* An event is named by its seq.  The table hands seq out when the row is  *)
(* INSERTED; the row becomes visible when its transaction COMMITS, so rows *)
(* may appear in an order that is not the order of seq.  Only terminal     *)
(* events are ever appended and a job has one of them, so the set of       *)
(* committed events is also the authoritative state of the jobs: a job     *)
(* read by the browser is the set of events its snapshot contains.  The    *)
(* reads one resynchronisation makes are answered by one snapshot.         *)
(* dispatched_at, which mark_dispatched writes and nothing reads, is left  *)
(* out.                                                                    *)
(***************************************************************************)
EXTENDS Integers, FiniteSetsExt, Sequences

CONSTANTS
  Browsers,     \* clients of the stream
  Limit,        \* SSE_BATCH_LIMIT
  MaxReads,     \* a bound on the resynchronisations a browser has in flight
  MaxOpen,      \* a bound on the transactions under way
  MaxSeq,       \* a bound on the events
  MaxFaults     \* a bound on drops, new subscriptions and restores together

ASSUME LimitAssumption == Limit \in Nat \ {0}
ASSUME BoundsAssumption ==
  MaxSeq \in Nat /\ MaxOpen \in Nat /\ MaxFaults \in Nat /\ MaxReads \in Nat \ {0}

VARIABLES
  lastSeq,     \* the identity column of outbox_events
  open,        \* the rows inserted by transactions that have not ended
  committed,   \* the visible rows
  late,        \* history: the rows that became visible after a higher one
  conn,        \* per browser, whether its EventSource has a live connection
  cursor,      \* per connection, _event_frames's cursor
  batch,       \* per connection, the fetched rows not yielded yet
  wire,        \* per connection, the frames on their way
  lastId,      \* per browser, the Last-Event-ID of its EventSource, 0 for none
  start,       \* history: the position the browser's subscription began at
  got,         \* history: the events the browser received
  view,        \* per browser, the job states it shows
  seen,        \* history: every job state the browser was ever answered
  reads,       \* per browser, its resynchronisations: how many are asked for, and the
               \* answers it has not applied
  faults       \* how many of them have happened

table  == <<lastSeq, open, committed, late>>
server == <<cursor, batch>>
store  == <<view, seen, reads>>
vars   == <<table, conn, server, wire, lastId, start, got, store, faults>>

-----------------------------------------------------------------------------
Seqs == 1..MaxSeq

Gap == 0   \* the resync frame; it has no id line

(* max_job_event_seq *)
MaxCommitted == Max(committed \cup {0})

(* stream_job_events: seq > after, in sequence order, at most Limit rows.  *)
StreamInclusive(after) == {s \in committed : s >= after}   \* mutated form

StreamUnordered(after) ==                                 \* mutated form
  LET new == {s \in committed : s > after}
  IN  {s \in new : Cardinality({t \in new : t > s}) < Limit}

StreamExceptLast(after) ==                                \* mutated form
  LET new == {s \in committed : s > after /\ s < MaxCommitted}
  IN  {s \in new : Cardinality({t \in new : t < s}) < Limit}

Stream(after) ==
  LET new == {s \in committed : s > after}
  IN  {s \in new : Cardinality({t \in new : t < s}) < Limit}

NoReads == [asked |-> 0, answers |-> {}]

ReadsInFlight(b) == reads[b].asked + Cardinality(reads[b].answers)

ResyncUnlessReading(b) ==                                 \* mutated form
  reads' = IF reads[b] = NoReads THEN [reads EXCEPT ![b].asked = 1] ELSE reads

(* resync(): one more read of every watched job.                           *)
Resync(b) ==
  /\ ReadsInFlight(b) < MaxReads
  /\ reads' = [reads EXCEPT ![b].asked = @ + 1]

Init ==
  /\ lastSeq = 0 /\ committed = {} /\ late = {}
  /\ open = {}
  /\ conn = [b \in Browsers |-> FALSE]
  /\ cursor = [b \in Browsers |-> 0]
  /\ batch = [b \in Browsers |-> {}]
  /\ wire = [b \in Browsers |-> <<>>]
  /\ lastId = [b \in Browsers |-> 0]
  /\ start = [b \in Browsers |-> 0]
  /\ got = [b \in Browsers |-> {}]
  /\ view = [b \in Browsers |-> {}] /\ seen = [b \in Browsers |-> {}]
  /\ reads = [b \in Browsers |-> [NoReads EXCEPT !.asked = 1]]
  /\ faults = 0

-----------------------------------------------------------------------------
(* The transactions that end a job: append_outbox inside them, then COMMIT *)
(* or ROLLBACK.  A rolled-back seq is never used again.                    *)

AppendOutbox ==
  /\ lastSeq < MaxSeq /\ Cardinality(open) < MaxOpen
  /\ lastSeq' = lastSeq + 1
  /\ open' = open \cup {lastSeq + 1}
  /\ UNCHANGED <<committed, late, conn, server, wire, lastId, start, got, store, faults>>

Commit(s) ==
  /\ s \in open
  /\ committed' = committed \cup {s}
  /\ late' = IF s < MaxCommitted THEN late \cup {s} ELSE late
  /\ open' = open \ {s}
  /\ UNCHANGED <<lastSeq, conn, server, wire, lastId, start, got, store, faults>>

Rollback(s) ==
  /\ s \in open
  /\ open' = open \ {s}
  /\ UNCHANGED <<lastSeq, committed, late, conn, server, wire, lastId, start, got,
                 store, faults>>

(* External: the database is restored from a backup taken when seq k was   *)
(* the last one given; every server process starts over.  What was told or *)
(* read of the undone events is forgotten, because their seq is given out  *)
(* again.                                                                  *)
Restore(k) ==
  /\ faults < MaxFaults
  /\ lastSeq' = k
  /\ committed' = committed \cap 1..k
  /\ late' = late \cap 1..k
  /\ open' = {}
  /\ conn' = [b \in Browsers |-> FALSE]
  /\ cursor' = [b \in Browsers |-> 0]
  /\ batch' = [b \in Browsers |-> {}]
  /\ wire' = [b \in Browsers |-> <<>>]
  /\ got' = [b \in Browsers |-> got[b] \cap 1..k]
  /\ seen' = [b \in Browsers |-> seen[b] \cap 1..k]
  /\ view' = [b \in Browsers |-> view[b] \cap 1..k]
  /\ reads' = [b \in Browsers |->
                 [reads[b] EXCEPT !.answers = {snap \cap 1..k : snap \in @}]]
  /\ faults' = faults + 1
  /\ UNCHANGED <<lastId, start>>

-----------------------------------------------------------------------------
(* _event_frames, one connection.                                          *)

(* The position a stream starts from: the tail for a new subscription or   *)
(* for a client that is ahead of the table, else where the client was.     *)
OpenAtTrustingId(b) ==                                    \* mutated form
  IF lastId[b] = 0 THEN MaxCommitted ELSE lastId[b]

OpenAtTail(b) == MaxCommitted                             \* mutated form

IsGap(b) == lastId[b] > MaxCommitted

OpenAt(b) == IF lastId[b] = 0 \/ IsGap(b) THEN MaxCommitted ELSE lastId[b]

(* The resync frame of a gap leaves the Last-Event-ID as it was, so a      *)
(* client may later come back with the seq of an undone event: that, too,  *)
(* begins a new subscription, wherever the stream then starts.             *)
Resumes(b) == lastId[b] \in got[b] /\ ~IsGap(b)

Open(b) ==
  /\ ~conn[b]
  /\ conn' = [conn EXCEPT ![b] = TRUE]
  /\ cursor' = [cursor EXCEPT ![b] = OpenAt(b)]
  /\ wire' = [wire EXCEPT ![b] = IF IsGap(b) THEN <<Gap>> ELSE <<>>]
  /\ start' = [start EXCEPT ![b] = IF Resumes(b) THEN @ ELSE OpenAt(b)]
  /\ UNCHANGED <<table, batch, lastId, got, store, faults>>

(* A fetch that finds nothing sends a keepalive and sleeps: no state.      *)
Fetch(b) ==
  /\ conn[b] /\ batch[b] = {}
  /\ Stream(cursor[b]) # {}
  /\ batch' = [batch EXCEPT ![b] = Stream(cursor[b])]
  /\ UNCHANGED <<table, conn, cursor, wire, lastId, start, got, store, faults>>

Yield(b) ==
  LET s == Min(batch[b]) IN
  /\ conn[b] /\ batch[b] # {}
  /\ wire' = [wire EXCEPT ![b] = Append(@, s)]
  /\ cursor' = [cursor EXCEPT ![b] = s]
  /\ batch' = [batch EXCEPT ![b] = @ \ {s}]
  /\ UNCHANGED <<table, conn, lastId, start, got, store, faults>>

-----------------------------------------------------------------------------
(* The browser: an EventSource and the job store's resync().               *)

(* A frame arrives.  The browser remembers its id and the store resyncs.   *)
Receive(b) ==
  /\ conn[b] /\ wire[b] # <<>>
  /\ LET s == Head(wire[b]) IN
     /\ lastId' = [lastId EXCEPT ![b] = IF s = Gap THEN @ ELSE s]
     /\ got' = [got EXCEPT ![b] = IF s = Gap THEN @ ELSE @ \cup {s}]
  /\ wire' = [wire EXCEPT ![b] = Tail(@)]
  /\ Resync(b)
  /\ UNCHANGED <<table, conn, server, start, view, seen, faults>>

(* The connection goes, and with it the generator and the frames under     *)
(* way.  The EventSource reconnects by itself (Open); onerror resyncs.     *)
Drop(b) ==
  /\ conn[b] /\ faults < MaxFaults
  /\ conn' = [conn EXCEPT ![b] = FALSE]
  /\ cursor' = [cursor EXCEPT ![b] = 0]
  /\ batch' = [batch EXCEPT ![b] = {}]
  /\ wire' = [wire EXCEPT ![b] = <<>>]
  /\ Resync(b)
  /\ faults' = faults + 1
  /\ UNCHANGED <<table, lastId, start, got, view, seen>>

(* watch(): another job id.  The effect closes the EventSource, resyncs    *)
(* and makes a new one, which has no Last-Event-ID.                        *)
Watch(b) ==
  /\ faults < MaxFaults
  /\ conn' = [conn EXCEPT ![b] = FALSE]
  /\ cursor' = [cursor EXCEPT ![b] = 0]
  /\ batch' = [batch EXCEPT ![b] = {}]
  /\ wire' = [wire EXCEPT ![b] = <<>>]
  /\ lastId' = [lastId EXCEPT ![b] = 0]
  /\ Resync(b)
  /\ faults' = faults + 1
  /\ UNCHANGED <<table, start, got, view, seen>>

(* The server answers a read from what is committed; the answers arrive    *)
(* and setJobs applies them in any order.                                  *)
Serve(b) ==
  /\ reads[b].asked > 0
  /\ reads' = [reads EXCEPT ![b].asked = @ - 1, ![b].answers = @ \cup {committed}]
  /\ UNCHANGED <<table, conn, server, wire, lastId, start, got, view, seen, faults>>

SetJobs(b) ==
  /\ \E snap \in reads[b].answers :
       /\ view' = [view EXCEPT ![b] = snap]
       /\ seen' = [seen EXCEPT ![b] = @ \cup snap]
       /\ reads' = [reads EXCEPT ![b].answers = @ \ {snap}]
  /\ UNCHANGED <<table, conn, server, wire, lastId, start, got, faults>>

-----------------------------------------------------------------------------
Database == AppendOutbox \/ \E s \in Seqs : Commit(s) \/ Rollback(s)

Connection(b) == Open(b) \/ Fetch(b) \/ Yield(b)

Answers(b) == Serve(b) \/ SetJobs(b)

Next ==
  \/ Database
  \/ \E k \in 0..lastSeq : Restore(k)
  \/ \E b \in Browsers : Connection(b) \/ Receive(b) \/ Answers(b) \/ Drop(b) \/ Watch(b)

Spec == Init /\ [][Next]_vars

(* The generator loops until its connection goes, an EventSource retries   *)
(* by itself, TCP delivers what was written and HTTP reads are answered.   *)
(* Nothing makes a transaction end, a connection drop or a user watch.     *)
LiveSpec ==
  /\ Spec
  /\ \A b \in Browsers :
       /\ WF_vars(Open(b)) /\ WF_vars(Fetch(b)) /\ WF_vars(Yield(b))
       /\ WF_vars(Receive(b)) /\ WF_vars(Answers(b))

-----------------------------------------------------------------------------
(* Properties                                                              *)

(* A live stream never waits beyond the end of the table, where it would   *)
(* be silent until seq has caught up: the gap branch restarts it, even if  *)
(* the table has been restored to an older state.                          *)
CursorWithinTable ==
  \A b \in Browsers : conn[b] => cursor[b] <= MaxCommitted

(* Every variable keeps its type, a connection's batch lies ahead of its   *)
(* cursor (a fetch of stream_job_events repeats no event) and its cursor   *)
(* within the table.                                                       *)
TypeOK ==
  /\ lastSeq \in 0..MaxSeq /\ open \subseteq 1..lastSeq \ committed
  /\ committed \subseteq Seqs /\ late \subseteq committed
  /\ conn \in [Browsers -> BOOLEAN]
  /\ cursor \in [Browsers -> 0..MaxSeq] /\ lastId \in [Browsers -> 0..MaxSeq]
  /\ start \in [Browsers -> 0..MaxSeq]
  /\ batch \in [Browsers -> SUBSET Seqs]
  /\ \A b \in Browsers : \A s \in batch[b] : s > cursor[b]
  /\ wire \in [Browsers -> Seq(0..MaxSeq)]
  /\ got \in [Browsers -> SUBSET Seqs] /\ view \in [Browsers -> SUBSET Seqs]
  /\ seen \in [Browsers -> SUBSET Seqs]
  /\ reads \in [Browsers -> [asked : 0..MaxReads, answers : SUBSET SUBSET Seqs]]
  /\ faults \in 0..MaxFaults
  /\ CursorWithinTable

(* What the browser was or will be told over its present connection.       *)
Told(b) == got[b] \cup {wire[b][i] : i \in 1..Len(wire[b])}

(* At-least-once, the part the code keeps: whatever the drops, reconnects  *)
(* and lost frames, the stream never moves past an event of the            *)
(* subscription that the browser has not been told of, except an event     *)
(* that became visible after a later one.  This is what resuming from      *)
(* Last-Event-ID, and not from what the server had sent, is for.           *)
NothingSkipped ==
  \A b \in Browsers : conn[b] =>
    \A s \in committed \ late : start[b] < s /\ s <= cursor[b] => s \in Told(b)

(* Each event of a subscription that is visible in order reaches the       *)
(* browser in the end, unless it subscribes anew behind the event (a new   *)
(* EventSource, a reconnect before its first event, a position from before *)
(* a restore) or a restored backup does not hold the event.                *)
EventuallyReceived ==
  \A b \in Browsers, s \in Seqs :
    (s \in committed \ late /\ start[b] < s)
      ~> (s \in got[b] \/ start[b] >= s \/ s \notin committed)

(* pg_outbox.py and job_routes.py claim at-least-once delivery without     *)
(* exception.  A transaction that takes its seq first and commits second   *)
(* is overtaken by the cursor and its event is never sent.                 *)
AtLeastOnce ==
  \A b \in Browsers : conn[b] =>
    \A s \in committed : start[b] < s /\ s <= cursor[b] => s \in Told(b)

(* A browser whose stream is open and drained and whose reads have all     *)
(* been answered has nothing left that would make it look again.           *)
Settled(b) ==
  /\ conn[b] /\ wire[b] = <<>> /\ batch[b] = {} /\ cursor[b] >= MaxCommitted
  /\ reads[b] = NoReads

(* Every event of the subscription that is visible in order makes the      *)
(* browser read the jobs AFTER it: a read in flight when the event arrives *)
(* may have been served before it and does not count.                      *)
ReadAfterEvent ==
  \A b \in Browsers : Settled(b) =>
    \A s \in committed \ late : start[b] < s => s \in seen[b]

(* What the stream owes a browser, together: it moves past nothing untold, *)
(* and what it tells is followed by a read (_event_frames, resync).        *)
StreamSafe == NothingSkipped /\ ReadAfterEvent

(* The feed of one browser: the visible events are the log, its            *)
(* Last-Event-ID is its place.                                             *)
Feed(b) == INSTANCE EventFeed WITH
  Events <- Seqs,
  log    <- committed,
  behind <- late,
  from   <- start[b],
  heard  <- got[b],
  place  <- lastId[b]

(* Whatever drops, reconnects and new subscriptions there are, an          *)
(* EventSource that resumes from its Last-Event-ID hears the events in     *)
(* order, each once, and none that is visible in order is left out         *)
(* (_event_frames, stream_job_events).                                     *)
ImplementsFeed ==
  /\ \A b \in Browsers : Feed(b)!Init
  /\ [][\A b \in Browsers : [Feed(b)!Next]_(Feed(b)!feed)]_vars
=============================================================================
