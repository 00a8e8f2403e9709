----------------------------- MODULE BlobStore -----------------------------
(***************************************************************************)
(* One content-addressed object of the blob store: its file under          *)
(* objects/, its blob_objects row, the references to it, and the three     *)
(* parties that touch them without a common lock: writers that put the     *)
(* content and create a source for it, workers that erase purged sources,  *)
(* and the garbage collector.                                              *)
(*                                                                         *)
(* Objects of different content share no path and no row, so one content   *)
(* is modelled.  Each step is one system call on the file or one           *)
(* statement or transaction on the tables; the order of the steps is the   *)
(* crash-consistency protocol.  Bytes are never wrong, only absent: a file *)
(* is written and validated under a temporary name before it is linked.    *)
(***************************************************************************)
EXTENDS Integers, FiniteSets

CONSTANTS
  Writers,   \* requests or jobs that store the content, each for its own source
  Direct,    \* the writers that commit their reference with the row
  Erasers,   \* workers that run source.purge_erase
  NoTask,    \* the task of an idle eraser
  MaxRows, MaxCrashes, MaxZombies, MaxPowerLosses, MaxPasses  \* bounds

ASSUME WritersAssumption == Direct \subseteq Writers /\ NoTask \notin Writers
ASSUME BoundsAssumption ==
  /\ MaxRows \in Nat /\ MaxCrashes \in Nat /\ MaxZombies \in Nat
  /\ MaxPowerLosses \in Nat /\ MaxPasses \in Nat

VARIABLES
  file,     \* the object file: absent, volatile (linked, not fsynced) or durable
  fileOld,  \* its mtime is a safety delay ago
  row,      \* the blob_objects row
  lastRow,  \* the last row id given out
  source,   \* per writer, the state of the source it creates
  ref,      \* per writer, the row its source refers to, 0 for none
  task,     \* per source, its purge task
  put,      \* per writer, where it is, the row it read and the row it got
  erase,    \* per eraser, where it is, its task and the row it will delete
  gc,       \* the garbage collector and what it has read
  raced,    \* history: a put ran together with an eraser or a pass, or reused a
            \* file that was not durable yet
  spent     \* how much of each bound is used up

disk   == <<file, fileOld>>
tables == <<row, lastRow, source, ref, task>>
steps  == <<disk, tables, put, erase, gc, spent>>
vars   == <<steps, raced>>

-----------------------------------------------------------------------------
NoRow == [id |-> 0, state |-> "absent", old |-> FALSE]

NoSnapshot == [pc |-> "idle", file |-> FALSE, fileOld |-> FALSE, row |-> NoRow,
               refs |-> FALSE]

NoPut == [pc |-> "idle", seen |-> NoRow, blob |-> 0]

NoErase == [pc |-> "idle", task |-> NoTask, doomed |-> 0]

Present == file # "absent"

Referenced(id) == \E w \in Writers : ref[w] = id

Putting == \E w \in Writers : put[w].pc # "idle"
Erasing == \E e \in Erasers : erase[e].pc # "idle"
Collecting == gc.pc # "idle"

Handling(w) == \E e \in Erasers : erase[e].pc # "idle" /\ erase[e].task = w

Quiet == ~Putting /\ ~Erasing /\ ~Collecting

Init ==
  /\ file = "absent" /\ fileOld = FALSE /\ row = NoRow /\ lastRow = 0
  /\ source = [w \in Writers |-> "none"] /\ ref = [w \in Writers |-> 0]
  /\ task = [w \in Writers |-> "none"]
  /\ put = [w \in Writers |-> NoPut] /\ erase = [e \in Erasers |-> NoErase]
  /\ gc = NoSnapshot /\ raced = FALSE
  /\ spent = [crashes |-> 0, zombies |-> 0, losses |-> 0, passes |-> 0]

-----------------------------------------------------------------------------
(* FilesystemBlobStore.put and SourceCatalog.acquire.                      *)

GoTo(w, p) == put' = [put EXCEPT ![w].pc = p]

Leave(w) == put' = [put EXCEPT ![w] = NoPut]

(* _finalize once the temporary is validated: is the object there already? *)
Check(w) ==
  /\ put[w].pc = "idle"
  /\ GoTo(w, IF Present THEN "verify" ELSE "link")
  /\ UNCHANGED <<disk, tables, erase, gc, spent>>

(* _require_identical on an existing object; it opens the file, which may  *)
(* be gone by now, and the put fails.  Nothing is fsynced on this path.    *)
Verify(w) ==
  /\ put[w].pc = "verify"
  /\ IF Present THEN GoTo(w, "commit") ELSE Leave(w)
  /\ UNCHANGED <<disk, tables, erase, gc, spent>>

(* os.link: publish the temporary, or find that somebody else just did.    *)
Link(w) ==
  /\ put[w].pc = "link"
  /\ IF Present
     THEN GoTo(w, "verifylink") /\ UNCHANGED disk
     ELSE GoTo(w, "sync") /\ file' = "volatile" /\ fileOld' = FALSE
  /\ UNCHANGED <<tables, erase, gc, spent>>

VerifyLink(w) ==
  /\ put[w].pc = "verifylink"
  /\ IF Present THEN GoTo(w, "sync") ELSE Leave(w)
  /\ UNCHANGED <<disk, tables, erase, gc, spent>>

SyncNothing(w) ==                                         \* mutated form
  /\ put[w].pc = "sync"
  /\ GoTo(w, "commit")
  /\ UNCHANGED <<disk, tables, erase, gc, spent>>

(* fsync of the bucket and of objects/.                                    *)
Sync(w) ==
  /\ put[w].pc = "sync"
  /\ file' = IF Present THEN "durable" ELSE file
  /\ GoTo(w, "commit")
  /\ UNCHANGED <<fileOld, tables, erase, gc, spent>>

(* commit_finalized reads the row ...                                      *)
CommitRead(w) ==
  /\ put[w].pc = "commit"
  /\ put' = [put EXCEPT ![w].pc = "write", ![w].seen = row]
  /\ UNCHANGED <<disk, tables, erase, gc, spent>>

(* ... and inserts it, finalizes it or leaves it as it is, and adds the    *)
(* reference, in the same transaction.                                     *)
Inserts(w) == put[w].seen = NoRow /\ row = NoRow /\ lastRow < MaxRows

Finalizes(w) == put[w].seen.state = "purged" /\ row.id = put[w].seen.id

Reuses(w) == put[w].seen.state = "finalized" /\ row.id = put[w].seen.id

(* The unique constraint, a foreign key or "absent after its commit".      *)
CommitFails(w) ==
  \/ put[w].seen = NoRow /\ row # NoRow
  \/ put[w].seen # NoRow /\ row.id # put[w].seen.id

RowAfterCommit(w) ==
  row' = CASE Inserts(w)   -> [id |-> lastRow + 1, state |-> "finalized", old |-> FALSE]
           [] Finalizes(w) -> [row EXCEPT !.state = "finalized", !.old = FALSE]
           [] OTHER        -> row

CommitWrite(w) ==
  /\ put[w].pc = "write"
  /\ Inserts(w) \/ Finalizes(w) \/ Reuses(w)
  /\ RowAfterCommit(w)
  /\ lastRow' = IF Inserts(w) THEN lastRow + 1 ELSE lastRow
  /\ IF w \in Direct
     THEN /\ ref' = [ref EXCEPT ![w] = row'.id]
          /\ source' = [source EXCEPT ![w] = "live"]
          /\ Leave(w)
     ELSE /\ put' = [put EXCEPT ![w] = [NoPut EXCEPT !.pc = "acquire", !.blob = row'.id]]
          /\ UNCHANGED <<ref, source>>
  /\ UNCHANGED <<disk, task, erase, gc, spent>>

CommitError(w) ==
  /\ put[w].pc = "write" /\ CommitFails(w)
  /\ Leave(w)
  /\ UNCHANGED <<disk, tables, erase, gc, spent>>

(* acquire: a new source refers to the row put returned, whatever state    *)
(* the row is in by now; it only has to exist.  An origin the notebook     *)
(* already has, tombstoned or not, is returned as it is.                   *)
Acquire(w) ==
  /\ put[w].pc = "acquire"
  /\ IF source[w] = "none" /\ row.id = put[w].blob
     THEN /\ source' = [source EXCEPT ![w] = "live"]
          /\ ref' = [ref EXCEPT ![w] = put[w].blob]
     ELSE UNCHANGED <<source, ref>>
  /\ Leave(w)
  /\ UNCHANGED <<disk, row, lastRow, task, erase, gc, spent>>

(* The process dies; the request is not resumed but may be made again.     *)
WriterCrash(w) ==
  /\ put[w].pc # "idle" /\ spent.crashes < MaxCrashes
  /\ Leave(w)
  /\ spent' = [spent EXCEPT !.crashes = @ + 1]
  /\ UNCHANGED <<disk, tables, erase, gc>>

-----------------------------------------------------------------------------
(* PgSourcePurge: mark and enqueue in the request, erase in a job.         *)

Mark(w) ==
  /\ source[w] = "live" /\ w \notin Direct
  /\ source' = [source EXCEPT ![w] = "tombstoned"]
  /\ task' = [task EXCEPT ![w] = "marked"]
  /\ UNCHANGED <<disk, row, lastRow, ref, put, erase, gc, spent>>

(* A transaction of its own: the request may die before it.                *)
EnqueueErase(w) ==
  /\ task[w] = "marked"
  /\ task' = [task EXCEPT ![w] = "queued"]
  /\ UNCHANGED <<disk, row, lastRow, source, ref, put, erase, gc, spent>>

(* A worker gets the job: for the first time, again after the worker that  *)
(* had it died, or again while that worker is still at it (it reports, and *)
(* so renews its lease, before and after erase but not during it).         *)
DeliveredOnce(w) == task[w] = "queued" /\ ~Handling(w)   \* mutated form
Delivered(w) == task[w] \in {"queued", "running"} /\ ~Handling(w)

Redelivered(w) == task[w] \in {"running", "completed"} /\ spent.zombies < MaxZombies

(* The first transaction, up to its read of what is unreferenced: it sees  *)
(* its own deletes and the references of others as last committed.         *)
ScanUnreferenced(e, w) ==
  LET shared == \E v \in Writers \ {w} : ref[v] = ref[w] IN
  erase' = [erase EXCEPT ![e] = [pc |-> "erasing", task |-> w,
                                 doomed |-> IF shared THEN 0 ELSE ref[w]]]

EraseScan(e, w) ==
  /\ erase[e].pc = "idle"
  /\ \A f \in Erasers : ~(erase[f].pc = "erasing" /\ erase[f].task = w)  \* task row FOR UPDATE
  /\ \/ Delivered(w) /\ UNCHANGED spent
     \/ ~Delivered(w) /\ Redelivered(w) /\ spent' = [spent EXCEPT !.zombies = @ + 1]
  /\ ScanUnreferenced(e, w)
  /\ UNCHANGED <<disk, tables, put, gc>>

PurgedKeepingTime(r) == [r EXCEPT !.state = "purged"]     \* mutated form
PurgedRow(r) == [r EXCEPT !.state = "purged", !.old = FALSE]

EraseCommit(e) ==
  /\ erase[e].pc = "erasing"
  /\ ref' = [ref EXCEPT ![erase[e].task] = 0]
  /\ row' = IF erase[e].doomed # 0 /\ row.id = erase[e].doomed
            THEN PurgedRow(row) ELSE row
  /\ task' = [task EXCEPT ![erase[e].task] = "running"]
  /\ erase' = [erase EXCEPT ![e].pc = IF erase[e].doomed # 0 THEN "unlinking" ELSE "dropping"]
  /\ UNCHANGED <<disk, lastRow, source, put, gc, spent>>

(* delete_final: unlink and fsync the bucket.                              *)
UnlinkForgotten(e) ==                                     \* mutated form
  /\ erase[e].pc = "unlinking"
  /\ erase' = [erase EXCEPT ![e].pc = "dropping"]
  /\ UNCHANGED <<disk, tables, put, gc, spent>>

Unlink(e) ==
  /\ erase[e].pc = "unlinking"
  /\ file' = "absent" /\ fileOld' = FALSE
  /\ erase' = [erase EXCEPT ![e].pc = "dropping"]
  /\ UNCHANGED <<tables, put, gc, spent>>

(* The second transaction deletes the row, and by cascade whatever refers  *)
(* to it, and completes the task.                                          *)
Drop(e) ==
  LET gone == erase[e].doomed # 0 /\ row.id = erase[e].doomed IN
  /\ erase[e].pc = "dropping"
  /\ row' = IF gone THEN NoRow ELSE row
  /\ ref' = [w \in Writers |-> IF gone /\ ref[w] = erase[e].doomed THEN 0 ELSE ref[w]]
  /\ task' = [task EXCEPT ![erase[e].task] = "completed"]
  /\ erase' = [erase EXCEPT ![e] = NoErase]
  /\ UNCHANGED <<disk, lastRow, source, put, gc, spent>>

EraserCrash(e) ==
  /\ erase[e].pc # "idle" /\ spent.crashes < MaxCrashes
  /\ erase' = [erase EXCEPT ![e] = NoErase]
  /\ spent' = [spent EXCEPT !.crashes = @ + 1]
  /\ UNCHANGED <<disk, tables, put, gc>>

-----------------------------------------------------------------------------
(* CollectBlobGarbage: ReconcileBlobs reads the disk, then the rows, then  *)
(* the references; deletion follows from what was read.                    *)

GcList ==
  /\ gc.pc = "idle" /\ spent.passes < MaxPasses
  /\ gc' = [NoSnapshot EXCEPT !.pc = "rows", !.file = Present, !.fileOld = fileOld]
  /\ spent' = [spent EXCEPT !.passes = @ + 1]
  /\ UNCHANGED <<disk, tables, put, erase>>

GcRows ==
  /\ gc.pc = "rows"
  /\ gc' = [gc EXCEPT !.pc = "refs", !.row = row]
  /\ UNCHANGED <<disk, tables, put, erase, spent>>

GcRefs ==
  /\ gc.pc = "refs"
  /\ gc' = [gc EXCEPT !.pc = "delete", !.refs = Referenced(gc.row.id)]
  /\ UNCHANGED <<disk, tables, put, erase, spent>>

(* UNREFERENCED_FINAL with the file present, past the safety delay, which  *)
(* runs from finalized_at, or from the mtime without a finalized row.      *)
Garbage ==
  /\ gc.file
  /\ \/ gc.row.state # "finalized" /\ gc.fileOld
     \/ gc.row.state = "finalized" /\ ~gc.refs /\ gc.row.old

GcDelete ==
  /\ gc.pc = "delete"
  /\ IF Garbage THEN file' = "absent" /\ fileOld' = FALSE ELSE UNCHANGED disk
  /\ gc' = NoSnapshot
  /\ UNCHANGED <<tables, put, erase, spent>>

-----------------------------------------------------------------------------
(* The safety delay is a day or more; a put, an erase or a pass is not in  *)
(* progress for that long, and the kernel has written the directory out.   *)
DelayElapses ==
  /\ Quiet
  /\ file' = IF Present THEN "durable" ELSE file
  /\ fileOld' = Present
  /\ row' = [row EXCEPT !.old = row.state = "finalized"]
  /\ UNCHANGED <<lastRow, source, ref, task, put, erase, gc, spent>>

(* External: power fails.  A directory entry that was not fsynced may be   *)
(* gone; the database keeps what was committed; every process starts over. *)
PowerLoss ==
  /\ spent.losses < MaxPowerLosses
  /\ \E f \in (IF file = "volatile" THEN {"absent", "durable"} ELSE {file}) :
       /\ file' = f
       /\ fileOld' = (fileOld /\ f # "absent")
  /\ put' = [w \in Writers |-> NoPut] /\ erase' = [e \in Erasers |-> NoErase]
  /\ gc' = NoSnapshot
  /\ spent' = [spent EXCEPT !.losses = @ + 1]
  /\ UNCHANGED tables

Put(w) ==
  Check(w) \/ Verify(w) \/ Link(w) \/ VerifyLink(w) \/ Sync(w) \/ CommitRead(w)
    \/ CommitWrite(w) \/ CommitError(w) \/ Acquire(w)

Erase(e) ==
  (\E w \in Writers : EraseScan(e, w)) \/ EraseCommit(e) \/ Unlink(e) \/ Drop(e)

Collect == GcList \/ GcRows \/ GcRefs \/ GcDelete

Step ==
  \/ \E w \in Writers : Put(w) \/ WriterCrash(w) \/ Mark(w) \/ EnqueueErase(w)
  \/ \E e \in Erasers : Erase(e) \/ EraserCrash(e)
  \/ Collect \/ DelayElapses \/ PowerLoss

ReusedVolatile ==
  file = "volatile" /\ \E w \in Writers : put[w].pc = "verify" /\ put'[w].pc = "commit"

Watch == raced' = (raced \/ (Putting' /\ (Erasing' \/ Collecting')) \/ ReusedVolatile)

Next == Step /\ Watch

Spec == Init /\ [][Next]_vars

(* The queue delivers an erase job until it is done (JobQueue); a worker   *)
(* that has one goes on with it.                                           *)
EraseIsTaken(w) == (\E e \in Erasers : EraseScan(e, w)) /\ Watch

EraseGoesOn(e) == (EraseCommit(e) \/ Unlink(e) \/ Drop(e)) /\ Watch

LiveSpec ==
  /\ Spec
  /\ \A w \in Writers : WF_vars(EraseIsTaken(w))
  /\ \A e \in Erasers : WF_vars(EraseGoesOn(e))

-----------------------------------------------------------------------------
(* Properties                                                              *)

RowSet == [id : 0..MaxRows, state : {"absent", "finalized", "purged"}, old : BOOLEAN]

WriterPoints == {"idle", "verify", "link", "verifylink", "sync", "commit", "write", "acquire"}

(* Every variable keeps its type; a row has an id exactly when it exists,  *)
(* and only a finalized row and a present file have an age.                *)
TypeOK ==
  /\ file \in {"absent", "volatile", "durable"} /\ fileOld \in BOOLEAN
  /\ row \in RowSet /\ lastRow \in 0..MaxRows
  /\ (row.id = 0) = (row.state = "absent") /\ row.id <= lastRow
  /\ (fileOld => Present) /\ (row.old => row.state = "finalized")
  /\ source \in [Writers -> {"none", "live", "tombstoned"}]
  /\ ref \in [Writers -> 0..MaxRows]
  /\ task \in [Writers -> {"none", "marked", "queued", "running", "completed"}]
  /\ put \in [Writers -> [pc : WriterPoints, seen : RowSet, blob : 0..MaxRows]]
  /\ erase \in [Erasers -> [pc : {"idle", "erasing", "unlinking", "dropping"},
                            task : Writers \cup {NoTask}, doomed : 0..MaxRows]]
  /\ gc \in [pc : {"idle", "rows", "refs", "delete"}, file : BOOLEAN, fileOld : BOOLEAN,
             row : RowSet, refs : BOOLEAN]
  /\ raced \in BOOLEAN
  /\ spent \in [crashes : 0..MaxCrashes, zombies : 0..MaxZombies,
                losses : 0..MaxPowerLosses, passes : 0..MaxPasses]

(* FilesystemBlobStore.get succeeds for the blob of this source.           *)
Readable(w) == ref[w] # 0 /\ row.id = ref[w] /\ row.state = "finalized" /\ Present

(* filesystem_store.py: never a database reference to data that is         *)
(* missing.  A source that was not deleted can be read, through every      *)
(* interleaving of writers and a crash at any point.                       *)
LiveIsReadable == \A w \in Writers : source[w] = "live" => Readable(w)

(* The same in the presence of erasers, the garbage collector and power    *)
(* failures, for as long as no put has been under way together with either *)
(* of the former, and none relied on a file another one had still to       *)
(* fsync.                                                                  *)
ReadableUnlessRaced == ~raced => LiveIsReadable

Completes(w) == task[w] # "completed" /\ task'[w] = "completed"

NothingRefers == \A w \in Writers : ref[w] = 0

Erased == file = "absent" /\ row.state = "absent"

(* "Controlled copies were erased" (pg_purge.py:43): a purge task that is  *)
(* reported completed has erased the bytes and the row, unless another     *)
(* source refers to them or another worker is still erasing.  Puts during  *)
(* a purge are left aside.                                                 *)
CompletedMeansErased ==
  [][\A w \in Writers :
       Completes(w) /\ ~raced' /\ ~Erasing' /\ NothingRefers' => Erased']_vars

(* What remains of it where one worker erases: a purge in which no process *)
(* died and no job was handed out twice erases what nothing refers to,     *)
(* whichever of several sources of the content is purged last.             *)
UndisturbedPurgeErases ==
  [][\A w \in Writers :
       Completes(w) /\ ~raced' /\ spent.crashes = 0 /\ spent.zombies = 0 /\ NothingRefers'
         => Erased']_vars

(* A purge whose job was enqueued completes, whether or not a worker dies  *)
(* between its two transactions.                                           *)
EventuallyErased == \A w \in Writers : task[w] = "queued" ~> task[w] = "completed"
=============================================================================
