----------------------------- MODULE BlobProofs -----------------------------
(***************************************************************************)
(* BlobStore: a source that was not deleted can be read, through every     *)
(* interleaving of any number of writers, erasers, collector passes,       *)
(* crashes and power failures, as long as no put was under way together    *)
(* with an eraser or the collector.                                        *)
(*                                                                         *)
(* The invariant says what that depends on.  Always: a reference has its   *)
(* row (the foreign key), and an eraser works for a source that was        *)
(* deleted.  Unless raced: what an eraser has doomed is used by nobody     *)
(* else, because no reference appears behind its back; a put that has      *)
(* passed the fsync has a durable file; the row a put will refer to is     *)
(* finalized; and a collector that could delete what a live source needs   *)
(* has seen its row and its reference.                                     *)
(***************************************************************************)
EXTENDS BlobStore, TLAPS

(* A reference has its row: the foreign key of blob_references.            *)
RefersToRow == \A w \in Writers : ref[w] # 0 => ref[w] = row.id

(* Only a tombstoned source has a purge task.                              *)
TasksAreOfDeleted ==
  \A w \in Writers : task[w] # "none" => source[w] = "tombstoned" /\ w \notin Direct

(* An eraser at work has a task, and unlinks only what it has doomed.      *)
Works(e) ==
  /\ erase[e].pc = "idle" => erase[e].doomed = 0
  /\ erase[e].pc # "idle" => erase[e].task \in Writers /\ task[erase[e].task] # "none"
  /\ erase[e].pc = "unlinking" => erase[e].doomed # 0

ErasersHaveTasks == \A e \in Erasers : Works(e)

(* A put under way together with an eraser or a pass is noticed.           *)
RacesAreSeen == Putting /\ (Erasing \/ Collecting) => raced

(* What a live source refers to is finalized and its file durable.         *)
Kept(w) == source[w] = "live" => ref[w] # 0 /\ row.state = "finalized" /\ file = "durable"

LiveIsKept == \A w \in Writers : Kept(w)

(* Nobody but the eraser's own source refers to what it has doomed.        *)
DoomedIsUnused ==
  \A e \in Erasers : erase[e].doomed # 0 =>
    \A v \in Writers : v # erase[e].task => ref[v] = 0

(* A put knows the file is there, later durable, and its row finalized.    *)
PutIsSafe(w) ==
  /\ put[w].pc \in {"verify", "verifylink", "sync"} => Present
  /\ put[w].pc \in {"commit", "write", "acquire"} => file = "durable"
  /\ put[w].pc = "write" /\ put[w].seen.state = "finalized" =>
       row.id = put[w].seen.id /\ row.state = "finalized"
  /\ put[w].pc = "acquire" => row.id = put[w].blob /\ row.state = "finalized"

PutsAreSafe == \A w \in Writers : PutIsSafe(w)

(* The collector has read the row and the reference of a live source.      *)
Saw(w) ==
  source[w] = "live" =>
    /\ gc.pc \in {"refs", "delete"} => gc.row.id = ref[w] /\ gc.row.state = "finalized"
    /\ gc.pc = "delete" => gc.refs

CollectorSawTheLive == \A w \in Writers : Saw(w)

Undisturbed == LiveIsKept /\ DoomedIsUnused /\ PutsAreSafe /\ CollectorSawTheLive

-----------------------------------------------------------------------------
(* Types.                                                                  *)

PutSet == [pc : WriterPoints, seen : RowSet, blob : 0..MaxRows]

EraseSet == [pc : {"idle", "erasing", "unlinking", "dropping"},
             task : Writers \cup {NoTask}, doomed : 0..MaxRows]

GcSet == [pc : {"idle", "rows", "refs", "delete"}, file : BOOLEAN, fileOld : BOOLEAN,
          row : RowSet, refs : BOOLEAN]

SpentSet == [crashes : 0..MaxCrashes, zombies : 0..MaxZombies,
             losses : 0..MaxPowerLosses, passes : 0..MaxPasses]

DiskOK == file \in {"absent", "volatile", "durable"} /\ (fileOld => Present) /\ fileOld \in BOOLEAN

RowOK ==
  /\ row \in RowSet /\ lastRow \in 0..MaxRows
  /\ (row.id = 0) = (row.state = "absent") /\ row.id <= lastRow
  /\ (row.old => row.state = "finalized")

TablesOK ==
  /\ source \in [Writers -> {"none", "live", "tombstoned"}]
  /\ ref \in [Writers -> 0..MaxRows]
  /\ task \in [Writers -> {"none", "marked", "queued", "running", "completed"}]

ActorsOK ==
  /\ put \in [Writers -> PutSet] /\ erase \in [Erasers -> EraseSet]
  /\ gc \in GcSet /\ spent \in SpentSet


(* A put has read a row, or that there is none.                            *)
RowsWereSeen == \A w \in Writers : put[w].seen.id = 0 <=> put[w].seen.state = "absent"

Base == DiskOK /\ RowOK /\ TablesOK /\ ActorsOK /\ RefersToRow /\ TasksAreOfDeleted /\ ErasersHaveTasks
        /\ RowsWereSeen

BlobInv == Base /\ raced \in BOOLEAN /\ RacesAreSeen /\ (~raced => Undisturbed)

-----------------------------------------------------------------------------
LEMMA TypeParts == TypeOK <=> DiskOK /\ RowOK /\ TablesOK /\ ActorsOK /\ raced \in BOOLEAN
BY DEF TypeOK, DiskOK, RowOK, TablesOK, ActorsOK, PutSet, EraseSet, GcSet, SpentSet

LEMMA Constants ==
  /\ NoRow \in RowSet /\ NoPut \in PutSet /\ NoErase \in EraseSet /\ NoSnapshot \in GcSet
  /\ NoRow.id = 0 /\ NoRow.state = "absent" /\ NoRow.old = FALSE
BY BoundsAssumption DEF NoRow, NoPut, NoErase, NoSnapshot, RowSet, PutSet, EraseSet, GcSet, WriterPoints


LEMMA InitIsSafe == Init => BlobInv
<1> SUFFICES ASSUME Init PROVE BlobInv
  OBVIOUS
<1>1. DiskOK
  BY DEF Init, DiskOK
<1>2. RowOK /\ TablesOK
  BY Constants, BoundsAssumption DEF Init, RowOK, TablesOK
<1>3. ActorsOK
  BY Constants, BoundsAssumption DEF Init, ActorsOK, SpentSet
<1>4. RefersToRow /\ TasksAreOfDeleted
  BY DEF Init, RefersToRow, TasksAreOfDeleted
<1>5. ErasersHaveTasks
  BY DEF Init, ErasersHaveTasks, Works, NoErase
<1>9. RowsWereSeen
  BY DEF Init, RowsWereSeen, NoPut, NoRow
<1>6. raced \in BOOLEAN /\ RacesAreSeen
  BY DEF Init, RacesAreSeen, Putting, NoPut
<1>7. LiveIsKept /\ CollectorSawTheLive
  BY DEF Init, LiveIsKept, Kept, CollectorSawTheLive, Saw
<1>8. DoomedIsUnused /\ PutsAreSafe
  BY DEF Init, DoomedIsUnused, PutsAreSafe, PutIsSafe, NoErase, NoPut
<1> QED BY <1>1, <1>2, <1>3, <1>4, <1>5, <1>6, <1>7, <1>8, <1>9 DEF BlobInv, Base, Undisturbed

(* Where a put stands is well typed after each of its moves.               *)
LEMMA PutMoves ==
  ASSUME ActorsOK, NEW w \in Writers, NEW p \in WriterPoints
  PROVE  /\ [put EXCEPT ![w].pc = p] \in [Writers -> PutSet]
         /\ [put EXCEPT ![w] = NoPut] \in [Writers -> PutSet]
<1>1. put[w] \in PutSet
  BY DEF ActorsOK
<1>2. [put[w] EXCEPT !.pc = p] \in PutSet
  BY <1>1 DEF PutSet
<1> QED BY <1>2, Constants DEF ActorsOK

(* The steps of a put that leave the tables alone.                         *)
LEMMA DiskStepBase ==
  ASSUME Base, NEW w \in Writers,
         Check(w) \/ Verify(w) \/ Link(w) \/ VerifyLink(w) \/ Sync(w) \/ CommitError(w)
  PROVE  Base'
<1>0. \E p \in WriterPoints : put' = [put EXCEPT ![w].pc = p] \/ put' = [put EXCEPT ![w] = NoPut]
  BY Zenon DEF Check, Verify, Link, VerifyLink, Sync, CommitError, GoTo, Leave, WriterPoints
<1>1. UNCHANGED <<tables, erase, gc, spent>>
  BY DEF Check, Verify, Link, VerifyLink, Sync, CommitError
<1>5. put' \in [Writers -> PutSet] /\ RowsWereSeen'
  <2>1. put \in [Writers -> PutSet] /\ RowsWereSeen
    BY DEF Base, ActorsOK
  <2>2. PICK p \in WriterPoints : put' = [put EXCEPT ![w].pc = p] \/ put' = [put EXCEPT ![w] = NoPut]
    BY <1>0
  <2>3. put' \in [Writers -> PutSet]
    <3>1. ActorsOK
      BY DEF Base
    <3>2. /\ [put EXCEPT ![w].pc = p] \in [Writers -> PutSet]
          /\ [put EXCEPT ![w] = NoPut] \in [Writers -> PutSet]
      BY <3>1, PutMoves
    <3> QED BY <2>2, <3>2
  <2>4. \A v \in Writers : put'[v].seen = put[v].seen \/ put'[v] = NoPut
    BY <2>1, <2>2 DEF PutSet
  <2>5. NoPut.seen.id = 0 /\ NoPut.seen.state = "absent"
    BY DEF NoPut, NoRow
  <2> QED BY <2>1, <2>3, <2>4, <2>5 DEF RowsWereSeen
<1>2. DiskOK'
  <2>1. CASE file' = file /\ fileOld' = fileOld
    BY <2>1 DEF Base, DiskOK, Present
  <2>2. CASE Link(w) /\ ~Present
    BY <2>2 DEF Link, DiskOK, Present
  <2>3. CASE Sync(w)
    BY <2>3 DEF Base, Sync, DiskOK, Present
  <2> QED BY <2>1, <2>2, <2>3 DEF Check, Verify, Link, VerifyLink, CommitError, disk
<1>3. RowOK' /\ TablesOK' /\ ActorsOK'
  BY <1>1, <1>5 DEF Base, RowOK, TablesOK, ActorsOK, tables
<1>4. RefersToRow' /\ TasksAreOfDeleted' /\ ErasersHaveTasks'
  BY <1>1 DEF Base, RefersToRow, TasksAreOfDeleted, ErasersHaveTasks, Works, tables
<1> QED BY <1>2, <1>3, <1>4, <1>5 DEF Base

LEMMA CommitReadBase ==
  ASSUME Base, NEW w \in Writers, CommitRead(w)
  PROVE  Base'
<1>1. UNCHANGED <<disk, tables, erase, gc, spent>>
  BY DEF CommitRead
<1>2. put' \in [Writers -> PutSet]
  <2>1. put[w] \in PutSet /\ row \in RowSet
    BY DEF Base, ActorsOK, RowOK
  <2>2. [put[w] EXCEPT !.pc = "write", !.seen = row] \in PutSet
    BY <2>1 DEF PutSet, WriterPoints
  <2>3. put' = [put EXCEPT ![w] = [put[w] EXCEPT !.pc = "write", !.seen = row]]
    BY DEF CommitRead
  <2> QED BY <2>2, <2>3 DEF Base, ActorsOK
<1>3. DiskOK' /\ RowOK' /\ TablesOK' /\ ActorsOK'
  BY <1>1, <1>2 DEF Base, DiskOK, RowOK, TablesOK, ActorsOK, Present, disk, tables
<1>4. RefersToRow' /\ TasksAreOfDeleted' /\ ErasersHaveTasks'
  BY <1>1 DEF Base, RefersToRow, TasksAreOfDeleted, ErasersHaveTasks, Works, tables
<1>5. RowsWereSeen'
  <2>1. \A v \in Writers : put'[v].seen = put[v].seen \/ put'[v].seen = row
    BY DEF CommitRead, Base, ActorsOK, PutSet
  <2> QED BY <2>1 DEF RowsWereSeen, Base, RowOK
<1> QED BY <1>3, <1>4, <1>5 DEF Base

(* The row a put has committed: finalized, and nobody referred to another. *)
LEMMA RowCommitted ==
  ASSUME Base, NEW w \in Writers, CommitWrite(w)
  PROVE  /\ RowOK' /\ row'.id # 0 /\ (Inserts(w) \/ row'.id = row.id)
         /\ Inserts(w) => row.id = 0
         /\ row'.id \in 0..MaxRows
         /\ Finalizes(w) \/ Inserts(w) => row'.state = "finalized"
         /\ ~(Finalizes(w) \/ Inserts(w)) => row' = row
<1> DEFINE new == [id |-> lastRow + 1, state |-> "finalized", old |-> FALSE]
           fin == [row EXCEPT !.state = "finalized", !.old = FALSE]
<1>0. /\ row \in RowSet /\ lastRow \in 0..MaxRows /\ MaxRows \in Nat
      /\ row.id \in 0..MaxRows /\ row.id <= lastRow
      /\ row.id = 0 <=> row.state = "absent"
  BY BoundsAssumption DEF Base, RowOK, RowSet
<1>4. put[w].seen.id = 0 <=> put[w].seen.state = "absent"
  BY DEF Base, RowsWereSeen
<1>1. CASE Inserts(w)
  <2>1. row' = new /\ lastRow' = lastRow + 1 /\ lastRow < MaxRows /\ row = NoRow
    <3>1. /\ row' = CASE Inserts(w) -> new [] Finalizes(w) -> fin [] OTHER -> row
          /\ lastRow' = IF Inserts(w) THEN lastRow + 1 ELSE lastRow
      BY DEF CommitWrite, RowAfterCommit
    <3>2. ~Finalizes(w)
      BY <1>1, Constants DEF Inserts, Finalizes
    <3> HIDE DEF new, fin
    <3> QED BY <1>1, <3>1, <3>2 DEF Inserts
  <2>2. new \in RowSet /\ new.id = lastRow + 1 /\ new.state = "finalized" /\ new.old = FALSE
    BY <1>0, <2>1 DEF RowSet
  <2> HIDE DEF new
  <2> QED BY <1>0, <1>1, <2>1, <2>2, Constants DEF RowOK
<1>2. CASE ~Inserts(w) /\ Finalizes(w)
  <2>1. row' = fin /\ lastRow' = lastRow
    BY <1>2 DEF CommitWrite, RowAfterCommit
  <2>2. fin \in RowSet /\ fin.id = row.id /\ fin.state = "finalized" /\ fin.old = FALSE
    BY <1>0 DEF RowSet
  <2> HIDE DEF fin
  <2>3. row.id # 0
    BY <1>4, <1>2 DEF Finalizes
  <2>4. RowOK'
    BY <1>0, <2>1, <2>2, <2>3 DEF RowOK
  <2> QED BY <1>0, <1>2, <2>1, <2>2, <2>3, <2>4
<1>3. CASE ~Inserts(w) /\ ~Finalizes(w)
  <2>1. row' = row /\ lastRow' = lastRow /\ Reuses(w)
    BY <1>3 DEF CommitWrite, RowAfterCommit
  <2>2. row.id # 0
    BY <1>4, <2>1 DEF Reuses
  <2>3. RowOK'
    BY <2>1 DEF RowOK, Base
  <2> QED BY <1>0, <1>3, <2>1, <2>2, <2>3
<1> QED BY <1>1, <1>2, <1>3

LEMMA CommitWriteBase ==
  ASSUME Base, NEW w \in Writers, CommitWrite(w)
  PROVE  Base'
<1>1. UNCHANGED <<disk, task, erase, gc, spent>>
  BY DEF CommitWrite
<1>2. /\ RowOK' /\ row'.id # 0 /\ (Inserts(w) \/ row'.id = row.id) /\ (Inserts(w) => row.id = 0)
      /\ row'.id \in 0..MaxRows
  BY RowCommitted
<1>3. ref \in [Writers -> 0..MaxRows] /\ source \in [Writers -> {"none", "live", "tombstoned"}]
  BY DEF Base, TablesOK
<1>4. \/ w \in Direct /\ ref' = [ref EXCEPT ![w] = row'.id] /\ source' = [source EXCEPT ![w] = "live"]
      \/ UNCHANGED <<ref, source>>
  BY DEF CommitWrite
<1>5. TablesOK'
  BY <1>1, <1>2, <1>3, <1>4 DEF Base, TablesOK
<1>6. put' \in [Writers -> PutSet] /\ RowsWereSeen'
  <2> DEFINE got == [NoPut EXCEPT !.pc = "acquire", !.blob = row'.id]
  <2>1. put' = [put EXCEPT ![w] = NoPut] \/ put' = [put EXCEPT ![w] = got]
    BY DEF CommitWrite, Leave
  <2>2. got \in PutSet /\ got.seen = NoRow
    BY <1>2, Constants DEF PutSet, NoPut, WriterPoints
  <2>3. NoPut \in PutSet /\ NoPut.seen = NoRow /\ NoRow.id = 0 /\ NoRow.state = "absent"
    BY Constants DEF NoPut
  <2>4. put \in [Writers -> PutSet] /\ RowsWereSeen
    BY DEF Base, ActorsOK
  <2> HIDE DEF got
  <2>5. put' \in [Writers -> PutSet]
    BY <2>1, <2>2, <2>3, <2>4
  <2>6. \A v \in Writers : put'[v].seen = put[v].seen \/ put'[v].seen = NoRow
    BY <2>1, <2>2, <2>3, <2>4
  <2> QED BY <2>3, <2>4, <2>5, <2>6 DEF RowsWereSeen
<1>7. DiskOK' /\ ActorsOK'
  BY <1>1, <1>6 DEF Base, DiskOK, ActorsOK, Present, disk
<1>8. RefersToRow'
  <2> SUFFICES ASSUME NEW v \in Writers, ref'[v] # 0
               PROVE  ref'[v] = row'.id
    BY DEF RefersToRow
  <2>1. ref'[v] = row'.id \/ ref'[v] = ref[v]
    BY <1>3, <1>4
  <2>2. ref[v] # 0 => ref[v] = row.id
    BY DEF Base, RefersToRow
  <2> QED BY <1>2, <2>1, <2>2
<1>9. TasksAreOfDeleted'
  BY <1>1, <1>3, <1>4 DEF Base, TasksAreOfDeleted
<1>10. ErasersHaveTasks'
  BY <1>1 DEF Base, ErasersHaveTasks, Works
<1> QED BY <1>2, <1>5, <1>6, <1>7, <1>8, <1>9, <1>10 DEF Base

LEMMA AcquireBase ==
  ASSUME Base, NEW w \in Writers, Acquire(w)
  PROVE  Base'
<1>1. UNCHANGED <<disk, row, lastRow, task, erase, gc, spent>> /\ put' = [put EXCEPT ![w] = NoPut]
  BY DEF Acquire, Leave
<1>2. /\ ref \in [Writers -> 0..MaxRows] /\ source \in [Writers -> {"none", "live", "tombstoned"}]
      /\ put \in [Writers -> PutSet] /\ put[w].blob \in 0..MaxRows
      /\ NoPut \in PutSet /\ NoPut.seen.id = 0 /\ NoPut.seen.state = "absent"
  BY Constants DEF Base, TablesOK, ActorsOK, PutSet, NoPut
<1>3. \/ /\ source[w] = "none" /\ row.id = put[w].blob
         /\ source' = [source EXCEPT ![w] = "live"] /\ ref' = [ref EXCEPT ![w] = put[w].blob]
      \/ UNCHANGED <<source, ref>>
  BY DEF Acquire
<1>4. TablesOK' /\ RefersToRow' /\ TasksAreOfDeleted'
  BY <1>1, <1>2, <1>3 DEF Base, TablesOK, RefersToRow, TasksAreOfDeleted
<1>5. put' \in [Writers -> PutSet] /\ RowsWereSeen'
  BY <1>1, <1>2 DEF Base, RowsWereSeen
<1>6. DiskOK' /\ RowOK' /\ ActorsOK' /\ ErasersHaveTasks'
  BY <1>1, <1>5 DEF Base, DiskOK, RowOK, ActorsOK, ErasersHaveTasks, Works, Present, disk
<1> QED BY <1>4, <1>5, <1>6 DEF Base

(* A process that dies, and one more of a bound used up.                   *)
LEMMA WriterCrashBase ==
  ASSUME Base, NEW w \in Writers, WriterCrash(w)
  PROVE  Base'
<1>1. /\ UNCHANGED <<disk, tables, erase, gc>> /\ put' = [put EXCEPT ![w] = NoPut]
      /\ spent' = [spent EXCEPT !.crashes = @ + 1] /\ spent.crashes < MaxCrashes
  BY DEF WriterCrash, Leave
<1>2. spent' \in SpentSet
  BY <1>1, BoundsAssumption DEF Base, ActorsOK, SpentSet
<1>3. put' \in [Writers -> PutSet] /\ RowsWereSeen'
  <2>1. NoPut \in PutSet /\ NoPut.seen.id = 0 /\ NoPut.seen.state = "absent"
    BY Constants DEF NoPut
  <2> QED BY <1>1, <2>1 DEF Base, ActorsOK, RowsWereSeen
<1>4. DiskOK' /\ RowOK' /\ TablesOK' /\ ActorsOK'
  BY <1>1, <1>2, <1>3 DEF Base, DiskOK, RowOK, TablesOK, ActorsOK, Present, disk, tables
<1>5. RefersToRow' /\ TasksAreOfDeleted' /\ ErasersHaveTasks'
  BY <1>1 DEF Base, RefersToRow, TasksAreOfDeleted, ErasersHaveTasks, Works, tables
<1> QED BY <1>3, <1>4, <1>5 DEF Base

LEMMA DeletionBase ==
  ASSUME Base, NEW w \in Writers, Mark(w) \/ EnqueueErase(w)
  PROVE  Base'
<1>1. UNCHANGED <<disk, row, lastRow, ref, put, erase, gc, spent>>
  BY DEF Mark, EnqueueErase
<1>2. /\ source \in [Writers -> {"none", "live", "tombstoned"}]
      /\ task \in [Writers -> {"none", "marked", "queued", "running", "completed"}]
  BY DEF Base, TablesOK
<1>3. TablesOK' /\ TasksAreOfDeleted' /\ (\A v \in Writers : task[v] # "none" => task'[v] # "none")
  BY <1>1, <1>2 DEF Mark, EnqueueErase, Base, TablesOK, TasksAreOfDeleted
<1>4. DiskOK' /\ RowOK' /\ ActorsOK' /\ RefersToRow' /\ RowsWereSeen'
  BY <1>1 DEF Base, DiskOK, RowOK, ActorsOK, RefersToRow, RowsWereSeen, Present, disk
<1>5. ErasersHaveTasks'
  BY <1>1, <1>3 DEF Base, ErasersHaveTasks, Works
<1> QED BY <1>3, <1>4, <1>5 DEF Base

LEMMA EraseScanBase ==
  ASSUME Base, NEW e \in Erasers, NEW w \in Writers, EraseScan(e, w)
  PROVE  Base'
<1> DEFINE x == erase'[e].doomed
           new == [pc |-> "erasing", task |-> w, doomed |-> x]
<1>1. UNCHANGED <<disk, tables, put, gc>>
  BY DEF EraseScan
<1>2. /\ erase \in [Erasers -> EraseSet] /\ ref[w] \in 0..MaxRows /\ 0 \in 0..MaxRows
      /\ spent \in SpentSet
  BY BoundsAssumption DEF Base, ActorsOK, TablesOK
<1>3. \E d \in 0..MaxRows : erase' = [erase EXCEPT ![e] = [pc |-> "erasing", task |-> w, doomed |-> d]]
  BY <1>2 DEF EraseScan, ScanUnreferenced
<1>4. PICK d \in 0..MaxRows : erase' = [erase EXCEPT ![e] = [pc |-> "erasing", task |-> w, doomed |-> d]]
  BY <1>3
<1>5. [pc |-> "erasing", task |-> w, doomed |-> d] \in EraseSet
  BY DEF EraseSet
<1>6. erase' \in [Erasers -> EraseSet]
  BY <1>2, <1>4, <1>5
<1>7. spent' \in SpentSet
  <2>1. spent' = spent \/ (spent.zombies < MaxZombies /\ spent' = [spent EXCEPT !.zombies = @ + 1])
    BY DEF EraseScan, Redelivered
  <2> QED BY <1>2, <2>1, BoundsAssumption DEF SpentSet
<1>8. task[w] # "none"
  BY DEF EraseScan, Delivered, Redelivered
<1>9. ErasersHaveTasks'
  BY <1>1, <1>2, <1>4, <1>8 DEF Base, ErasersHaveTasks, Works, tables
<1>10. DiskOK' /\ RowOK' /\ TablesOK' /\ ActorsOK'
  BY <1>1, <1>6, <1>7 DEF Base, DiskOK, RowOK, TablesOK, ActorsOK, Present, disk, tables
<1>11. RefersToRow' /\ TasksAreOfDeleted' /\ RowsWereSeen'
  BY <1>1 DEF Base, RefersToRow, TasksAreOfDeleted, RowsWereSeen, tables
<1> QED BY <1>9, <1>10, <1>11 DEF Base

(* The row of purged bytes is still that row.                              *)
LEMMA PurgedRowOK ==
  ASSUME RowOK, row.id # 0
  PROVE  /\ PurgedRow(row) \in RowSet /\ PurgedRow(row).id = row.id
         /\ PurgedRow(row).state = "purged" /\ PurgedRow(row).old = FALSE
BY DEF RowOK, RowSet, PurgedRow

LEMMA EraseCommitBase ==
  ASSUME Base, NEW e \in Erasers, EraseCommit(e)
  PROVE  Base'
<1> DEFINE t == erase[e].task
           p == IF erase[e].doomed # 0 THEN "unlinking" ELSE "dropping"
<1>1. /\ UNCHANGED <<disk, lastRow, source, put, gc, spent>>
      /\ ref' = [ref EXCEPT ![t] = 0] /\ task' = [task EXCEPT ![t] = "running"]
      /\ erase' = [erase EXCEPT ![e].pc = p]
      /\ row' = IF erase[e].doomed # 0 /\ row.id = erase[e].doomed THEN PurgedRow(row) ELSE row
      /\ erase[e].pc = "erasing"
  BY DEF EraseCommit
<1>2. /\ erase \in [Erasers -> EraseSet] /\ erase[e] \in EraseSet /\ t \in Writers /\ task[t] # "none"
      /\ ref \in [Writers -> 0..MaxRows] /\ 0 \in 0..MaxRows
      /\ task \in [Writers -> {"none", "marked", "queued", "running", "completed"}]
  BY <1>1, BoundsAssumption DEF Base, ActorsOK, TablesOK, ErasersHaveTasks, Works
<1>3. RowOK' /\ row'.id = row.id
  <2>1. CASE erase[e].doomed # 0 /\ row.id = erase[e].doomed
    <3>1. RowOK /\ row.id # 0 /\ row' = PurgedRow(row)
      BY <1>1, <2>1 DEF Base
    <3>2. /\ row' \in RowSet /\ row'.id = row.id /\ row'.state = "purged" /\ row'.old = FALSE
      BY <3>1, PurgedRowOK
    <3> QED BY <1>1, <3>1, <3>2 DEF RowOK
  <2>2. CASE ~(erase[e].doomed # 0 /\ row.id = erase[e].doomed)
    BY <1>1, <2>2 DEF Base, RowOK
  <2> QED BY <2>1, <2>2
<1>4. TablesOK' /\ RefersToRow'
  BY <1>1, <1>2, <1>3 DEF Base, TablesOK, RefersToRow
<1>5. erase' \in [Erasers -> EraseSet]
  <2>1. [erase[e] EXCEPT !.pc = p] \in EraseSet
    BY <1>2 DEF EraseSet
  <2> QED BY <1>1, <1>2, <2>1
<1>6. TasksAreOfDeleted'
  BY <1>1, <1>2 DEF Base, TasksAreOfDeleted
<1>7. ErasersHaveTasks'
  <2> SUFFICES ASSUME NEW f \in Erasers PROVE Works(f)'
    BY DEF ErasersHaveTasks
  <2>1. Works(f)
    BY DEF Base, ErasersHaveTasks
  <2>2. task'[erase[f].task] = task[erase[f].task] \/ task'[erase[f].task] = "running"
    BY <1>1, <1>2
  <2>3. CASE f = e
    <3>1. erase'[f] = [erase[f] EXCEPT !.pc = p]
      BY <1>1, <1>2, <2>3
    <3>2. erase'[f].pc = p /\ erase'[f].task = t /\ erase'[f].doomed = erase[f].doomed
      BY <1>2, <2>3, <3>1 DEF EraseSet
    <3> QED BY <1>2, <2>2, <2>3, <3>2 DEF Works
  <2>4. CASE f # e
    BY <1>1, <1>2, <2>1, <2>2, <2>4 DEF Works
  <2> QED BY <2>3, <2>4
<1>8. DiskOK' /\ ActorsOK' /\ RowsWereSeen'
  BY <1>1, <1>5 DEF Base, DiskOK, ActorsOK, RowsWereSeen, Present, disk
<1> QED BY <1>3, <1>4, <1>6, <1>7, <1>8 DEF Base

LEMMA UnlinkBase ==
  ASSUME Base, NEW e \in Erasers, Unlink(e)
  PROVE  Base'
<1>1. /\ UNCHANGED <<tables, put, gc, spent>> /\ file' = "absent" /\ fileOld' = FALSE
      /\ erase' = [erase EXCEPT ![e].pc = "dropping"] /\ erase[e].pc = "unlinking"
  BY DEF Unlink
<1>2. erase \in [Erasers -> EraseSet] /\ erase[e] \in EraseSet
  BY DEF Base, ActorsOK
<1>3. [erase[e] EXCEPT !.pc = "dropping"] \in EraseSet
  BY <1>2 DEF EraseSet
<1>4. erase' \in [Erasers -> EraseSet]
  BY <1>1, <1>2, <1>3
<1>5. \A f \in Erasers : /\ erase'[f].task = erase[f].task /\ erase'[f].doomed = erase[f].doomed
                         /\ erase'[f].pc = erase[f].pc \/ (f = e /\ erase'[f].pc = "dropping")
  BY <1>1, <1>2 DEF EraseSet
<1>6. ErasersHaveTasks'
  BY <1>1, <1>5 DEF Base, ErasersHaveTasks, Works, tables
<1>7. DiskOK' /\ RowOK' /\ TablesOK' /\ ActorsOK'
  BY <1>1, <1>4 DEF Base, DiskOK, RowOK, TablesOK, ActorsOK, Present, tables
<1>8. RefersToRow' /\ TasksAreOfDeleted' /\ RowsWereSeen'
  BY <1>1 DEF Base, RefersToRow, TasksAreOfDeleted, RowsWereSeen, tables
<1> QED BY <1>6, <1>7, <1>8 DEF Base

LEMMA DropBase ==
  ASSUME Base, NEW e \in Erasers, Drop(e)
  PROVE  Base'
<1> DEFINE t == erase[e].task
           gone == erase[e].doomed # 0 /\ row.id = erase[e].doomed
<1>1. /\ UNCHANGED <<disk, lastRow, source, put, gc, spent>>
      /\ row' = IF gone THEN NoRow ELSE row
      /\ ref' = [w \in Writers |-> IF gone /\ ref[w] = erase[e].doomed THEN 0 ELSE ref[w]]
      /\ task' = [task EXCEPT ![t] = "completed"]
      /\ erase' = [erase EXCEPT ![e] = NoErase] /\ erase[e].pc = "dropping"
  BY DEF Drop
<1>2. /\ erase \in [Erasers -> EraseSet] /\ t \in Writers /\ task[t] # "none"
      /\ ref \in [Writers -> 0..MaxRows] /\ 0 \in 0..MaxRows
      /\ task \in [Writers -> {"none", "marked", "queued", "running", "completed"}]
  BY <1>1, BoundsAssumption DEF Base, ActorsOK, TablesOK, ErasersHaveTasks, Works
<1>3. RowOK'
  <2>1. lastRow \in Nat /\ 0 <= lastRow
    BY BoundsAssumption DEF Base, RowOK
  <2> HIDE DEF gone
  <2>2. CASE gone
    BY <1>1, <2>1, <2>2, Constants DEF Base, RowOK
  <2>3. CASE ~gone
    BY <1>1, <2>3 DEF Base, RowOK
  <2> QED BY <2>2, <2>3
<1>4. RefersToRow'
  <2> SUFFICES ASSUME NEW v \in Writers, ref'[v] # 0
               PROVE  ref'[v] = row'.id
    BY DEF RefersToRow
  <2>1. ref'[v] = ref[v] /\ ref[v] = row.id
    BY <1>1 DEF Base, RefersToRow
  <2>2. ~gone
    BY <1>1, <2>1
  <2>3. row' = row
    BY <1>1, <2>2
  <2> QED BY <2>1, <2>3
<1>5. TablesOK'
  <2> HIDE DEF gone
  <2>1. ref' \in [Writers -> 0..MaxRows]
    BY <1>1, <1>2
  <2>2. task' \in [Writers -> {"none", "marked", "queued", "running", "completed"}]
    BY <1>1, <1>2
  <2> QED BY <1>1, <2>1, <2>2 DEF Base, TablesOK
<1>6. TasksAreOfDeleted'
  BY <1>1, <1>2 DEF Base, TasksAreOfDeleted
<1>7. erase' \in [Erasers -> EraseSet]
  BY <1>1, <1>2, Constants
<1>8. ErasersHaveTasks'
  <2>1. NoErase.pc = "idle" /\ NoErase.doomed = 0
    BY DEF NoErase
  <2>2. \A w \in Writers : task[w] # "none" => task'[w] # "none"
    BY <1>1, <1>2
  <2> QED BY <1>1, <1>2, <2>1, <2>2 DEF Base, ErasersHaveTasks, Works
<1>9. DiskOK' /\ ActorsOK' /\ RowsWereSeen'
  BY <1>1, <1>7 DEF Base, DiskOK, ActorsOK, RowsWereSeen, Present, disk
<1> QED BY <1>3, <1>4, <1>5, <1>6, <1>8, <1>9 DEF Base

LEMMA EraserCrashBase ==
  ASSUME Base, NEW e \in Erasers, EraserCrash(e)
  PROVE  Base'
<1>1. /\ UNCHANGED <<disk, tables, put, gc>> /\ erase' = [erase EXCEPT ![e] = NoErase]
      /\ spent' = [spent EXCEPT !.crashes = @ + 1] /\ spent.crashes < MaxCrashes
  BY DEF EraserCrash
<1>2. spent' \in SpentSet
  BY <1>1, BoundsAssumption DEF Base, ActorsOK, SpentSet
<1>3. erase' \in [Erasers -> EraseSet]
  BY <1>1, Constants DEF Base, ActorsOK
<1>4. ErasersHaveTasks'
  <2>1. NoErase.pc = "idle" /\ NoErase.doomed = 0
    BY DEF NoErase
  <2> QED BY <1>1, <2>1 DEF Base, ActorsOK, ErasersHaveTasks, Works, tables
<1>5. DiskOK' /\ RowOK' /\ TablesOK' /\ ActorsOK'
  BY <1>1, <1>2, <1>3 DEF Base, DiskOK, RowOK, TablesOK, ActorsOK, Present, disk, tables
<1>6. RefersToRow' /\ TasksAreOfDeleted' /\ RowsWereSeen'
  BY <1>1 DEF Base, RefersToRow, TasksAreOfDeleted, RowsWereSeen, tables
<1> QED BY <1>4, <1>5, <1>6 DEF Base

LEMMA CollectBase ==
  ASSUME Base, Collect
  PROVE  Base'
<1>1. UNCHANGED <<tables, put, erase>>
  BY DEF Collect, GcList, GcRows, GcRefs, GcDelete
<1>2. DiskOK'
  <2>1. CASE UNCHANGED disk
    BY <2>1 DEF Base, DiskOK, Present, disk
  <2>2. CASE file' = "absent" /\ fileOld' = FALSE
    BY <2>2 DEF DiskOK, Present
  <2> QED BY <2>1, <2>2 DEF Collect, GcList, GcRows, GcRefs, GcDelete
<1>3. gc' \in GcSet
  <2>1. gc \in GcSet /\ row \in RowSet /\ fileOld \in BOOLEAN
    BY DEF Base, ActorsOK, RowOK, DiskOK
  <2>2. CASE GcList
    <3>1. [NoSnapshot EXCEPT !.pc = "rows", !.file = Present, !.fileOld = fileOld] \in GcSet
      BY <2>1, Constants DEF GcSet, Present, NoSnapshot
    <3> QED BY <2>2, <3>1 DEF GcList
  <2>3. CASE GcRows
    <3>1. [gc EXCEPT !.pc = "refs", !.row = row] \in GcSet
      BY <2>1 DEF GcSet
    <3> QED BY <2>3, <3>1 DEF GcRows
  <2>4. CASE GcRefs
    <3>1. \A b \in BOOLEAN : [gc EXCEPT !.pc = "delete", !.refs = b] \in GcSet
      BY <2>1 DEF GcSet
    <3>2. Referenced(gc.row.id) \in BOOLEAN
      BY Zenon DEF Referenced
    <3> QED BY <2>4, <3>1, <3>2, Zenon DEF GcRefs
  <2>5. CASE GcDelete
    BY <2>5, Constants DEF GcDelete
  <2> QED BY <2>2, <2>3, <2>4, <2>5 DEF Collect
<1>4. spent' \in SpentSet
  <2>1. spent' = spent \/ (spent.passes < MaxPasses /\ spent' = [spent EXCEPT !.passes = @ + 1])
    BY DEF Collect, GcList, GcRows, GcRefs, GcDelete
  <2> QED BY <2>1, BoundsAssumption DEF Base, ActorsOK, SpentSet
<1>5. RowOK' /\ TablesOK' /\ ActorsOK'
  BY <1>1, <1>3, <1>4 DEF Base, RowOK, TablesOK, ActorsOK, tables
<1>6. RefersToRow' /\ TasksAreOfDeleted' /\ ErasersHaveTasks' /\ RowsWereSeen'
  BY <1>1 DEF Base, RefersToRow, TasksAreOfDeleted, ErasersHaveTasks, Works, RowsWereSeen, tables
<1> QED BY <1>2, <1>5, <1>6 DEF Base

LEMMA DelayBase ==
  ASSUME Base, DelayElapses
  PROVE  Base'
<1> DEFINE aged == [row EXCEPT !.old = row.state = "finalized"]
<1>1. /\ UNCHANGED <<lastRow, source, ref, task, put, erase, gc, spent>>
      /\ file' = (IF Present THEN "durable" ELSE file) /\ fileOld' = Present /\ row' = aged
  BY DEF DelayElapses
<1>2. DiskOK'
  BY <1>1 DEF Base, DiskOK, Present
<1>3. /\ aged \in RowSet /\ aged.id = row.id /\ aged.state = row.state
      /\ aged.old => row.state = "finalized"
  BY DEF Base, RowOK, RowSet
<1> HIDE DEF aged
<1>4. RowOK' /\ RefersToRow'
  BY <1>1, <1>3 DEF Base, RowOK, RefersToRow
<1>5. TablesOK' /\ ActorsOK' /\ TasksAreOfDeleted' /\ ErasersHaveTasks' /\ RowsWereSeen'
  BY <1>1 DEF Base, TablesOK, ActorsOK, TasksAreOfDeleted, ErasersHaveTasks, Works, RowsWereSeen
<1> QED BY <1>2, <1>4, <1>5 DEF Base

LEMMA PowerLossBase ==
  ASSUME Base, PowerLoss
  PROVE  Base'
<1>1. /\ UNCHANGED tables /\ put' = [w \in Writers |-> NoPut] /\ erase' = [e \in Erasers |-> NoErase]
      /\ gc' = NoSnapshot /\ spent' = [spent EXCEPT !.losses = @ + 1]
      /\ spent.losses < MaxPowerLosses
  BY DEF PowerLoss
<1>2. DiskOK'
  BY DEF PowerLoss, Base, DiskOK, Present
<1>3. spent' \in SpentSet
  BY <1>1, BoundsAssumption DEF Base, ActorsOK, SpentSet
<1>4. RowOK' /\ TablesOK' /\ ActorsOK'
  BY <1>1, <1>3, Constants DEF Base, RowOK, TablesOK, ActorsOK, tables
<1>5. ErasersHaveTasks' /\ RowsWereSeen'
  BY <1>1 DEF ErasersHaveTasks, Works, RowsWereSeen, NoErase, NoPut, NoRow
<1>6. RefersToRow' /\ TasksAreOfDeleted'
  BY <1>1 DEF Base, RefersToRow, TasksAreOfDeleted, tables
<1> QED BY <1>2, <1>4, <1>5, <1>6 DEF Base

LEMMA BaseNext == Base /\ [Step]_steps => Base'
<1> SUFFICES ASSUME Base, [Step]_steps PROVE Base'
  OBVIOUS
<1>1. CASE UNCHANGED steps
  BY <1>1 DEF steps, disk, tables, Base, DiskOK, RowOK, TablesOK, ActorsOK, RefersToRow, TasksAreOfDeleted,
    ErasersHaveTasks, Works, RowsWereSeen, Present
<1>2. ASSUME NEW w \in Writers, Put(w) PROVE Base'
  BY <1>2, DiskStepBase, CommitReadBase, CommitWriteBase, AcquireBase DEF Put
<1>3. ASSUME NEW e \in Erasers, Erase(e) PROVE Base'
  BY <1>3, EraseScanBase, EraseCommitBase, UnlinkBase, DropBase DEF Erase
<1> QED BY <1>1, <1>2, <1>3, WriterCrashBase, DeletionBase, EraserCrashBase, CollectBase, DelayBase,
           PowerLossBase DEF Step

-----------------------------------------------------------------------------
(* What holds unless raced.                                                *)

NotMixed == ~(Putting /\ (Erasing \/ Collecting))

Calm == Base /\ Undisturbed /\ NotMixed

(* While a put is under way nobody erases and nobody collects.             *)
LEMMA PutsAlone ==
  ASSUME Calm, NEW w \in Writers, put[w].pc # "idle"
  PROVE  (\A e \in Erasers : erase[e].pc = "idle" /\ erase[e].doomed = 0) /\ gc.pc = "idle"
BY DEF Calm, Base, NotMixed, Putting, Erasing, Collecting, ErasersHaveTasks, Works

(* While one erases nothing is put.                                        *)
LEMMA ErasesAlone ==
  ASSUME Calm, NEW e \in Erasers, erase[e].pc # "idle"
  PROVE  \A w \in Writers : put[w].pc = "idle"
BY DEF Calm, NotMixed, Putting, Erasing

(* What an eraser has doomed no live source uses.                          *)
LEMMA NobodyLives ==
  ASSUME Calm, NEW e \in Erasers, erase[e].doomed # 0
  PROVE  \A w \in Writers : source[w] # "live"
<1> SUFFICES ASSUME NEW w \in Writers, source[w] = "live" PROVE FALSE
  OBVIOUS
<1>1. ref[w] # 0
  BY DEF Calm, Undisturbed, LiveIsKept, Kept
<1>2. w = erase[e].task
  BY <1>1 DEF Calm, Undisturbed, DoomedIsUnused
<1>3. task[w] # "none"
  BY <1>2 DEF Calm, Base, ErasersHaveTasks, Works
<1> QED BY <1>3 DEF Calm, Base, TasksAreOfDeleted

LEMMA DiskStepCalm ==
  ASSUME Calm, NotMixed', ~ReusedVolatile, NEW w \in Writers,
         Check(w) \/ Verify(w) \/ Link(w) \/ VerifyLink(w) \/ Sync(w) \/ CommitError(w)
  PROVE  Undisturbed'
<1>1. UNCHANGED <<tables, erase, gc, spent>>
  BY DEF Check, Verify, Link, VerifyLink, Sync, CommitError
<1>2. /\ Present => Present'
      /\ file = "durable" => file' = "durable"
  BY DEF Check, Verify, Link, VerifyLink, Sync, CommitError, disk, Present
<1>3. put \in [Writers -> PutSet] /\ put[w] \in PutSet
  BY DEF Calm, Base, ActorsOK
<1>4. \A v \in Writers : v # w => put'[v] = put[v]
  BY <1>3, Zenon DEF Check, Verify, Link, VerifyLink, Sync, CommitError, GoTo, Leave
<1>5. PutIsSafe(w)
  BY DEF Calm, Undisturbed, PutsAreSafe
<1>6. PutIsSafe(w)'
  <2>1. CASE Check(w)
    BY <1>3, <2>1 DEF Check, GoTo, PutIsSafe, Present, disk, PutSet
  <2>2. CASE Verify(w)
    <3>1. CASE Present
      <4>1. put'[w].pc = "commit"
        BY <1>3, <2>2, <3>1 DEF Verify, GoTo, PutSet
      <4>2. file # "volatile"
        BY <2>2, <4>1 DEF Verify, ReusedVolatile
      <4>3. file' = file /\ file = "durable"
        BY <2>2, <3>1, <4>2 DEF Verify, disk, Present, Calm, Base, DiskOK
      <4> QED BY <4>1, <4>3 DEF PutIsSafe
    <3>2. CASE ~Present
      BY <1>3, <2>2, <3>2 DEF Verify, Leave, NoPut, PutIsSafe
    <3> QED BY <3>1, <3>2
  <2>3. CASE Link(w)
    BY <1>3, <2>3 DEF Link, GoTo, PutIsSafe, Present, disk, PutSet
  <2>4. CASE VerifyLink(w)
    BY <1>3, <2>4 DEF VerifyLink, GoTo, Leave, NoPut, PutIsSafe, Present, disk, PutSet
  <2>5. CASE Sync(w)
    <3>1. file' = "durable" /\ put'[w].pc = "commit"
      BY <1>3, <1>5, <2>5 DEF Sync, GoTo, PutIsSafe, PutSet
    <3> QED BY <3>1 DEF PutIsSafe
  <2>6. CASE CommitError(w)
    BY <1>3, <2>6 DEF CommitError, Leave, NoPut, PutIsSafe
  <2> QED BY <2>1, <2>2, <2>3, <2>4, <2>5, <2>6
<1>7. PutsAreSafe'
  <2> SUFFICES ASSUME NEW v \in Writers, v # w PROVE PutIsSafe(v)'
    BY <1>6 DEF PutsAreSafe
  <2>1. PutIsSafe(v) /\ put'[v] = put[v] /\ row' = row
    BY <1>1, <1>4 DEF Calm, Undisturbed, PutsAreSafe, tables
  <2> QED BY <1>2, <2>1 DEF PutIsSafe
<1>8. LiveIsKept'
  BY <1>1, <1>2 DEF Calm, Undisturbed, LiveIsKept, Kept, tables
<1>9. DoomedIsUnused' /\ CollectorSawTheLive'
  BY <1>1 DEF Calm, Undisturbed, DoomedIsUnused, CollectorSawTheLive, Saw, tables
<1> QED BY <1>7, <1>8, <1>9 DEF Undisturbed

LEMMA CommitReadCalm ==
  ASSUME Calm, NEW w \in Writers, CommitRead(w)
  PROVE  Undisturbed'
<1>1. UNCHANGED <<disk, tables, erase, gc, spent>>
  BY DEF CommitRead
<1>2. put \in [Writers -> PutSet]
  BY DEF Calm, Base, ActorsOK
<1>3. PutsAreSafe'
  <2> SUFFICES ASSUME NEW v \in Writers PROVE PutIsSafe(v)'
    BY DEF PutsAreSafe
  <2>1. PutIsSafe(v)
    BY DEF Calm, Undisturbed, PutsAreSafe
  <2>2. CASE v = w
    <3>1. put'[v] = [put[v] EXCEPT !.pc = "write", !.seen = row] /\ put[v].pc = "commit"
      BY <1>2, <2>2 DEF CommitRead
    <3>2. put'[v].pc = "write" /\ put'[v].seen = row
      BY <1>2, <3>1 DEF PutSet
    <3> QED BY <1>1, <2>1, <3>1, <3>2 DEF PutIsSafe, disk, tables
  <2>3. CASE v # w
    BY <1>1, <1>2, <2>1, <2>3 DEF CommitRead, PutIsSafe, Present, disk, tables
  <2> QED BY <2>2, <2>3
<1>4. LiveIsKept' /\ DoomedIsUnused' /\ CollectorSawTheLive'
  BY <1>1 DEF Calm, Undisturbed, LiveIsKept, Kept, DoomedIsUnused, CollectorSawTheLive, Saw, disk, tables
<1> QED BY <1>3, <1>4 DEF Undisturbed

LEMMA CommitWriteCalm ==
  ASSUME Calm, NEW w \in Writers, CommitWrite(w)
  PROVE  Undisturbed'
<1>1. UNCHANGED <<disk, task, erase, gc, spent>> /\ put[w].pc = "write"
  BY DEF CommitWrite
<1>2. /\ \A e \in Erasers : erase[e].pc = "idle" /\ erase[e].doomed = 0
      /\ gc.pc = "idle"
  BY <1>1, PutsAlone
<1>3. put \in [Writers -> PutSet] /\ file = "durable" /\ PutIsSafe(w)
  BY <1>1 DEF Calm, Base, ActorsOK, Undisturbed, PutsAreSafe, PutIsSafe
<1>4. /\ row'.id # 0 /\ (Inserts(w) \/ row'.id = row.id) /\ (Inserts(w) => row.id = 0)
      /\ row'.state = "finalized"
      /\ row.state = "finalized" => row.id = row'.id
  <2>1. Base
    BY DEF Calm
  <2>2. /\ row'.id # 0 /\ (Inserts(w) \/ row'.id = row.id) /\ (Inserts(w) => row.id = 0)
        /\ Finalizes(w) \/ Inserts(w) => row'.state = "finalized"
        /\ ~(Finalizes(w) \/ Inserts(w)) => row' = row
    BY <2>1, RowCommitted
  <2>3. ~(Finalizes(w) \/ Inserts(w)) => row.state = "finalized"
    BY <1>1, <1>3 DEF CommitWrite, Reuses, PutIsSafe
  <2>4. row.state = "finalized" => row.id # 0
    BY DEF Calm, Base, RowOK
  <2> QED BY <2>2, <2>3, <2>4
<1>5. \/ w \in Direct /\ ref' = [ref EXCEPT ![w] = row'.id] /\ source' = [source EXCEPT ![w] = "live"]
      \/ UNCHANGED <<ref, source>>
  BY DEF CommitWrite
<1>6. LiveIsKept'
  <2> SUFFICES ASSUME NEW v \in Writers, source'[v] = "live"
               PROVE  ref'[v] # 0 /\ row'.state = "finalized" /\ file' = "durable"
    BY DEF LiveIsKept, Kept
  <2>1. (source[v] = "live" /\ ref'[v] = ref[v]) \/ ref'[v] = row'.id
    BY <1>5 DEF Calm, Base, TablesOK
  <2>2. source[v] = "live" => ref[v] # 0
    BY DEF Calm, Undisturbed, LiveIsKept, Kept
  <2> QED BY <1>1, <1>3, <1>4, <2>1, <2>2 DEF disk
<1>7. PutsAreSafe'
  <2> SUFFICES ASSUME NEW v \in Writers PROVE PutIsSafe(v)'
    BY DEF PutsAreSafe
  <2>1. PutIsSafe(v)
    BY DEF Calm, Undisturbed, PutsAreSafe
  <2>2. CASE v # w
    <3>1. put'[v] = put[v]
      BY <1>3, <2>2 DEF CommitWrite, Leave
    <3>2. file' = file
      BY <1>1 DEF disk
    <3> QED BY <1>4, <2>1, <3>1, <3>2 DEF PutIsSafe, Present
  <2>3. CASE v = w
    <3> DEFINE got == [NoPut EXCEPT !.pc = "acquire", !.blob = row'.id]
    <3>1. put'[v] = NoPut \/ put'[v] = got
      BY <1>3, <2>3 DEF CommitWrite, Leave
    <3>2. got.pc = "acquire" /\ got.blob = row'.id /\ NoPut.pc = "idle"
      BY DEF NoPut
    <3> HIDE DEF got
    <3> QED BY <1>1, <1>3, <1>4, <3>1, <3>2 DEF PutIsSafe, disk
  <2> QED BY <2>2, <2>3
<1>8. DoomedIsUnused' /\ CollectorSawTheLive'
  BY <1>1, <1>2 DEF DoomedIsUnused, CollectorSawTheLive, Saw
<1> QED BY <1>6, <1>7, <1>8 DEF Undisturbed

LEMMA AcquireCalm ==
  ASSUME Calm, NEW w \in Writers, Acquire(w)
  PROVE  Undisturbed'
<1>1. UNCHANGED <<disk, row, lastRow, task, erase, gc, spent>> /\ put[w].pc = "acquire"
  BY DEF Acquire
<1>2. /\ \A e \in Erasers : erase[e].pc = "idle" /\ erase[e].doomed = 0
      /\ gc.pc = "idle"
  BY <1>1, PutsAlone
<1>3. /\ put \in [Writers -> PutSet] /\ file = "durable"
      /\ row.id = put[w].blob /\ row.state = "finalized" /\ row.id # 0
  BY <1>1 DEF Calm, Base, ActorsOK, RowOK, Undisturbed, PutsAreSafe, PutIsSafe
<1>4. \/ ref' = [ref EXCEPT ![w] = put[w].blob] /\ source' = [source EXCEPT ![w] = "live"]
      \/ UNCHANGED <<ref, source>>
  BY DEF Acquire
<1>5. LiveIsKept'
  <2> SUFFICES ASSUME NEW v \in Writers, source'[v] = "live"
               PROVE  ref'[v] # 0 /\ row'.state = "finalized" /\ file' = "durable"
    BY DEF LiveIsKept, Kept
  <2>1. (source[v] = "live" /\ ref'[v] = ref[v]) \/ ref'[v] = row.id
    BY <1>3, <1>4 DEF Calm, Base, TablesOK
  <2>2. source[v] = "live" => ref[v] # 0
    BY DEF Calm, Undisturbed, LiveIsKept, Kept
  <2> QED BY <1>1, <1>3, <2>1, <2>2 DEF disk
<1>6. PutsAreSafe'
  <2> SUFFICES ASSUME NEW v \in Writers PROVE PutIsSafe(v)'
    BY DEF PutsAreSafe
  <2>1. PutIsSafe(v) /\ (put'[v] = put[v] \/ put'[v] = NoPut)
    BY <1>3 DEF Acquire, Leave, Calm, Undisturbed, PutsAreSafe
  <2> QED BY <1>1, <2>1 DEF PutIsSafe, Present, disk, NoPut
<1>7. DoomedIsUnused' /\ CollectorSawTheLive'
  BY <1>1, <1>2 DEF DoomedIsUnused, CollectorSawTheLive, Saw
<1> QED BY <1>5, <1>6, <1>7 DEF Undisturbed

(* A writer that dies, a source that is deleted: less to keep.             *)
LEMMA LeavingCalm ==
  ASSUME Calm, NEW w \in Writers, WriterCrash(w) \/ Mark(w) \/ EnqueueErase(w)
  PROVE  Undisturbed'
<1>1. UNCHANGED <<disk, row, ref, erase, gc>>
  BY DEF WriterCrash, Mark, EnqueueErase, tables
<1>2. \A v \in Writers : put'[v] = put[v] \/ put'[v] = NoPut
  BY DEF WriterCrash, Mark, EnqueueErase, Leave, Calm, Base, ActorsOK
<1>3. \A v \in Writers : source'[v] = "live" => source[v] = "live"
  BY DEF WriterCrash, Mark, EnqueueErase, tables, Calm, Base, TablesOK
<1>4. LiveIsKept' /\ CollectorSawTheLive'
  BY <1>1, <1>3 DEF Calm, Undisturbed, LiveIsKept, Kept, CollectorSawTheLive, Saw, disk
<1>5. PutsAreSafe'
  BY <1>1, <1>2 DEF Calm, Undisturbed, PutsAreSafe, PutIsSafe, NoPut, Present, disk
<1>6. DoomedIsUnused'
  BY <1>1 DEF Calm, Undisturbed, DoomedIsUnused
<1> QED BY <1>4, <1>5, <1>6 DEF Undisturbed

LEMMA EraseScanCalm ==
  ASSUME Calm, NEW e \in Erasers, NEW w \in Writers, EraseScan(e, w)
  PROVE  Undisturbed'
<1> DEFINE shared == \E v \in Writers \ {w} : ref[v] = ref[w]
<1>1. /\ UNCHANGED <<disk, tables, put, gc>>
      /\ erase' = [erase EXCEPT ![e] = [pc |-> "erasing", task |-> w,
                                        doomed |-> IF shared THEN 0 ELSE ref[w]]]
  BY DEF EraseScan, ScanUnreferenced
<1>2. erase \in [Erasers -> EraseSet]
  BY DEF Calm, Base, ActorsOK
<1>3. DoomedIsUnused'
  <2> SUFFICES ASSUME NEW f \in Erasers, erase'[f].doomed # 0,
                      NEW v \in Writers, v # erase'[f].task
               PROVE  ref'[v] = 0
    BY DEF DoomedIsUnused
  <2>1. ref' = ref
    BY <1>1 DEF tables
  <2>2. CASE f = e
    <3>1. erase'[f] = [pc |-> "erasing", task |-> w, doomed |-> IF shared THEN 0 ELSE ref[w]]
      BY <1>1, <1>2, <2>2
    <3>2. ~shared /\ ref[w] # 0 /\ v # w
      BY <3>1
    <3>3. ref[w] = row.id /\ (ref[v] # 0 => ref[v] = row.id) /\ ref[v] # ref[w]
      BY <3>2 DEF Calm, Base, RefersToRow
    <3> QED BY <2>1, <3>3
  <2>3. CASE f # e
    BY <1>1, <1>2, <2>1, <2>3 DEF Calm, Undisturbed, DoomedIsUnused
  <2> QED BY <2>2, <2>3
<1>4. LiveIsKept' /\ PutsAreSafe' /\ CollectorSawTheLive'
  BY <1>1 DEF Calm, Undisturbed, LiveIsKept, Kept, PutsAreSafe, PutIsSafe, CollectorSawTheLive, Saw, Present,
    disk, tables
<1> QED BY <1>3, <1>4 DEF Undisturbed

(* The other steps of an eraser: they take away only what nobody else uses.*)
LEMMA EraseCalm ==
  ASSUME Calm, NEW e \in Erasers, EraseCommit(e) \/ Unlink(e) \/ Drop(e) \/ EraserCrash(e)
  PROVE  Undisturbed'
<1>1. UNCHANGED <<source, put, gc>>
  BY DEF EraseCommit, Unlink, Drop, EraserCrash, tables
<1>2. erase[e].pc # "idle" /\ erase \in [Erasers -> EraseSet] /\ erase[e].task \in Writers
  BY DEF EraseCommit, Unlink, Drop, EraserCrash, Calm, Base, ActorsOK, ErasersHaveTasks, Works
<1>3. \A f \in Erasers : erase'[f].doomed # 0 =>
        erase'[f].doomed = erase[f].doomed /\ erase'[f].task = erase[f].task
  BY <1>2 DEF EraseCommit, Unlink, Drop, EraserCrash, EraseSet, NoErase
<1>4. ref \in [Writers -> 0..MaxRows]
  BY DEF Calm, Base, TablesOK
<1>5. \A v \in Writers : ref[v] = 0 => ref'[v] = 0
  BY <1>2, <1>4 DEF EraseCommit, Unlink, Drop, EraserCrash, tables
<1>6. DoomedIsUnused'
  BY <1>3, <1>5 DEF Calm, Undisturbed, DoomedIsUnused
<1>7. PutsAreSafe'
  <2>1. \A w \in Writers : put'[w].pc = "idle"
    BY <1>1, <1>2, ErasesAlone
  <2> QED BY <2>1 DEF PutsAreSafe, PutIsSafe
<1>8. ASSUME NEW w \in Writers, source[w] = "live"
      PROVE  ref'[w] = ref[w] /\ UNCHANGED <<row, file>>
  <2>1. erase[e].doomed = 0
    BY <1>8, NobodyLives
  <2>2. w # erase[e].task
    BY <1>2, <1>8 DEF Calm, Base, TasksAreOfDeleted, ErasersHaveTasks, Works
  <2>3. CASE EraseCommit(e)
    BY <1>2, <1>4, <2>1, <2>2, <2>3 DEF EraseCommit, disk
  <2>4. CASE Unlink(e)
    BY <2>1, <2>4 DEF Unlink, Calm, Base, ErasersHaveTasks, Works
  <2>5. CASE Drop(e)
    BY <1>4, <2>1, <2>5 DEF Drop, disk
  <2>6. CASE EraserCrash(e)
    BY <2>6 DEF EraserCrash, disk, tables
  <2> QED BY <2>3, <2>4, <2>5, <2>6
<1>9. LiveIsKept'
  BY <1>1, <1>8 DEF Calm, Undisturbed, LiveIsKept, Kept
<1>10. CollectorSawTheLive'
  BY <1>1, <1>8 DEF Calm, Undisturbed, CollectorSawTheLive, Saw
<1> QED BY <1>6, <1>7, <1>9, <1>10 DEF Undisturbed

(* What a live source needs is no garbage.                                 *)
LEMMA CollectCalm ==
  ASSUME Calm, NotMixed', Collect
  PROVE  Undisturbed'
<1>1. UNCHANGED <<tables, put, erase>> /\ gc \in GcSet /\ gc' \in GcSet
  <2>1. Base /\ Base'
    BY CollectBase DEF Calm
  <2> QED BY <2>1 DEF Collect, GcList, GcRows, GcRefs, GcDelete, Base, ActorsOK
<1>2. gc.pc = "delete" => \A w \in Writers : put[w].pc = "idle"
  BY DEF Calm, NotMixed, Collecting, Putting
<1>3. ASSUME NEW w \in Writers, source[w] = "live"
      PROVE  file' = file
  <2>1. gc.pc = "delete" => gc.row.state = "finalized" /\ gc.refs
    BY <1>3 DEF Calm, Undisturbed, CollectorSawTheLive, Saw
  <2>2. gc.pc = "delete" => ~Garbage
    BY <2>1 DEF Garbage
  <2> QED BY <2>2 DEF Collect, GcList, GcRows, GcRefs, GcDelete, disk
<1>4. LiveIsKept'
  BY <1>1, <1>3 DEF Calm, Undisturbed, LiveIsKept, Kept, tables
<1>5. DoomedIsUnused'
  BY <1>1 DEF Calm, Undisturbed, DoomedIsUnused, tables
<1>6. PutsAreSafe'
  <2>1. CASE GcDelete
    <3>1. \A w \in Writers : put'[w].pc = "idle"
      BY <1>1, <1>2, <2>1 DEF GcDelete
    <3> QED BY <3>1 DEF PutsAreSafe, PutIsSafe
  <2>2. CASE ~GcDelete
    <3>1. UNCHANGED <<disk, row>>
      BY <2>2 DEF Collect, GcList, GcRows, GcRefs, tables
    <3> QED BY <1>1, <3>1 DEF Calm, Undisturbed, PutsAreSafe, PutIsSafe, Present, disk
  <2> QED BY <2>1, <2>2
<1>7. CollectorSawTheLive'
  <2> SUFFICES ASSUME NEW w \in Writers, source[w] = "live"
               PROVE  /\ gc'.pc \in {"refs", "delete"} => gc'.row.id = ref[w] /\ gc'.row.state = "finalized"
                      /\ gc'.pc = "delete" => gc'.refs
    BY <1>1 DEF CollectorSawTheLive, Saw, tables
  <2>1. /\ gc.pc \in {"refs", "delete"} => gc.row.id = ref[w] /\ gc.row.state = "finalized"
        /\ gc.pc = "delete" => gc.refs
    BY DEF Calm, Undisturbed, CollectorSawTheLive, Saw
  <2>2. ref[w] = row.id /\ row.state = "finalized"
    BY DEF Calm, Base, RefersToRow, Undisturbed, LiveIsKept, Kept
  <2>3. CASE GcList
    BY <2>3 DEF GcList, NoSnapshot
  <2>4. CASE GcRows
    <3>1. gc'.pc = "refs" /\ gc'.row = row
      BY <1>1, <2>4 DEF GcRows, GcSet
    <3> QED BY <2>2, <3>1
  <2>5. CASE GcRefs
    <3>1. gc'.pc = "delete" /\ gc'.row = gc.row /\ gc'.refs = Referenced(gc.row.id) /\ gc.pc = "refs"
      BY <1>1, <2>5 DEF GcRefs, GcSet
    <3>2. Referenced(gc.row.id)
      BY <2>1, <3>1 DEF Referenced
    <3> QED BY <2>1, <3>1, <3>2
  <2>6. CASE GcDelete
    BY <2>6 DEF GcDelete, NoSnapshot
  <2> QED BY <2>3, <2>4, <2>5, <2>6 DEF Collect
<1> QED BY <1>4, <1>5, <1>6, <1>7 DEF Undisturbed

LEMMA DelayCalm ==
  ASSUME Calm, DelayElapses
  PROVE  Undisturbed'
<1>1. /\ UNCHANGED <<source, ref, put, erase, gc>>
      /\ file = "durable" => file' = "durable"
      /\ row'.state = row.state
  BY DEF DelayElapses, Present, Calm, Base, RowOK, RowSet
<1>2. \A w \in Writers : put[w].pc = "idle"
  BY DEF DelayElapses, Quiet, Putting
<1>3. LiveIsKept' /\ PutsAreSafe'
  BY <1>1, <1>2 DEF Calm, Undisturbed, LiveIsKept, Kept, PutsAreSafe, PutIsSafe
<1>4. DoomedIsUnused' /\ CollectorSawTheLive'
  BY <1>1 DEF Calm, Undisturbed, DoomedIsUnused, CollectorSawTheLive, Saw
<1> QED BY <1>3, <1>4 DEF Undisturbed

(* A durable file survives.                                                *)
LEMMA PowerLossCalm ==
  ASSUME Calm, PowerLoss
  PROVE  Undisturbed'
<1>1. /\ UNCHANGED <<row, source, ref>>
      /\ put' = [w \in Writers |-> NoPut] /\ erase' = [e \in Erasers |-> NoErase] /\ gc' = NoSnapshot
      /\ file = "durable" => file' = "durable"
  BY DEF PowerLoss, tables
<1>2. LiveIsKept'
  BY <1>1 DEF Calm, Undisturbed, LiveIsKept, Kept
<1>3. PutsAreSafe' /\ DoomedIsUnused' /\ CollectorSawTheLive'
  BY <1>1 DEF PutsAreSafe, PutIsSafe, DoomedIsUnused, CollectorSawTheLive, Saw, NoPut, NoErase, NoSnapshot
<1> QED BY <1>2, <1>3 DEF Undisturbed

LEMMA CalmNext ==
  ASSUME Calm, NotMixed', ~ReusedVolatile, [Step]_steps
  PROVE  Undisturbed'
<1>1. CASE UNCHANGED steps
  BY <1>1 DEF steps, disk, tables, Calm, Undisturbed, LiveIsKept, Kept, DoomedIsUnused, PutsAreSafe, PutIsSafe,
    CollectorSawTheLive, Saw, Present
<1>2. ASSUME NEW w \in Writers, Put(w) PROVE Undisturbed'
  BY <1>2, DiskStepCalm, CommitReadCalm, CommitWriteCalm, AcquireCalm DEF Put
<1>3. ASSUME NEW e \in Erasers, Erase(e) \/ EraserCrash(e) PROVE Undisturbed'
  BY <1>3, EraseScanCalm, EraseCalm DEF Erase
<1> QED BY <1>1, <1>2, <1>3, LeavingCalm, CollectCalm, DelayCalm, PowerLossCalm DEF Step

-----------------------------------------------------------------------------
(* The theorems.                                                           *)

LEMMA BlobNext == BlobInv /\ [Next]_vars => BlobInv'
<1> SUFFICES ASSUME BlobInv, [Next]_vars PROVE BlobInv'
  OBVIOUS
<1>1. [Step]_steps
  BY DEF Next, vars
<1>2. Base'
  BY <1>1, BaseNext DEF BlobInv
<1>3. CASE UNCHANGED vars
  <2>1. UNCHANGED <<put, erase, gc, raced>> /\ NotMixed' = NotMixed /\ (Undisturbed => Undisturbed')
    BY <1>3 DEF vars, steps, disk, tables, NotMixed, Putting, Erasing, Collecting, Undisturbed, LiveIsKept, Kept,
      DoomedIsUnused, PutsAreSafe, PutIsSafe, CollectorSawTheLive, Saw, Present
  <2>2. RacesAreSeen'
    BY <2>1 DEF BlobInv, RacesAreSeen, Putting, Erasing, Collecting
  <2> QED BY <1>2, <2>1, <2>2 DEF BlobInv
<1>4. CASE Next
  <2>1. raced' = (raced \/ (Putting' /\ (Erasing' \/ Collecting')) \/ ReusedVolatile)
    BY <1>4 DEF Next, Watch
  <2>2. raced' \in BOOLEAN /\ RacesAreSeen'
    BY <2>1 DEF RacesAreSeen
  <2>3. ASSUME ~raced' PROVE Undisturbed'
    <3>1. ~raced /\ NotMixed' /\ ~ReusedVolatile
      BY <2>1, <2>3 DEF NotMixed
    <3>2. Calm
      BY <3>1 DEF BlobInv, RacesAreSeen, Calm, NotMixed
    <3> QED BY <1>1, <3>1, <3>2, CalmNext
  <2> QED BY <1>2, <2>2, <2>3 DEF BlobInv
<1> QED BY <1>3, <1>4

LEMMA BlobInvAlways == Spec => []BlobInv
BY InitIsSafe, BlobNext, PTL DEF Spec

(* File, row, references, tasks and the steps of every actor keep their    *)
(* types, and a row has an id exactly when it exists.                      *)
THEOREM BlobTypeCorrect == Spec => []TypeOK
<1>1. BlobInv => TypeOK
  BY TypeParts DEF BlobInv, Base
<1> QED BY <1>1, BlobInvAlways, PTL

(* A source that was not deleted is readable (FilesystemBlobStore.get finds*)
(* a finalized row and its file), whatever crashes, as long as no put ran  *)
(* together with an eraser or the collector and none relied on a file that *)
(* another had still to fsync.                                             *)
THEOREM LiveStaysReadable == Spec => []ReadableUnlessRaced
<1>1. BlobInv => ReadableUnlessRaced
  <2> SUFFICES ASSUME BlobInv, ~raced, NEW w \in Writers, source[w] = "live"
               PROVE  Readable(w)
    BY DEF ReadableUnlessRaced, LiveIsReadable
  <2>1. ref[w] # 0 /\ row.state = "finalized" /\ file = "durable"
    BY DEF BlobInv, Undisturbed, LiveIsKept, Kept
  <2>2. row.id = ref[w]
    BY <2>1 DEF BlobInv, Base, RefersToRow
  <2> QED BY <2>1, <2>2 DEF Readable, Present
<1> QED BY <1>1, BlobInvAlways, PTL

-----------------------------------------------------------------------------
(* A purge that nothing disturbs erases.  Where one worker erases, a task  *)
(* is with it from its delivery to its completion, and what it does not    *)
(* erase itself somebody else refers to.                                   *)

(* One worker runs source.purge_erase.                                     *)
OneEraser == \A e, f \in Erasers : e = f

(* No process has died and no job was handed out twice.                    *)
Smooth == ~raced /\ spent.crashes = 0 /\ spent.zombies = 0

(* What the eraser at work will not erase is shared, what it will is this  *)
(* row, and after unlink the file is gone.                                 *)
UnlinkedOrShared(e) ==
  /\ erase[e].pc = "erasing" => task[erase[e].task] = "queued"
  /\ erase[e].pc # "idle" /\ erase[e].doomed = 0 =>
       \E v \in Writers : v # erase[e].task /\ ref[v] # 0
  /\ erase[e].doomed # 0 => row.id = erase[e].doomed
  /\ erase[e].doomed # 0 /\ erase[e].pc = "dropping" => file = "absent"

(* A task that waits has its reference, one that runs its worker.          *)
TaskWaitsOrRuns(w) ==
  /\ task[w] \in {"marked", "queued"} => ref[w] # 0
  /\ task[w] = "running" => Handling(w)

PurgeRuns ==
  /\ \A w \in Writers : TaskWaitsOrRuns(w)
  /\ \A e \in Erasers : UnlinkedOrShared(e)

LEMMA PurgeInit == Init => PurgeRuns
BY DEF Init, PurgeRuns, TaskWaitsOrRuns, UnlinkedOrShared, NoErase

(* A step into a smooth state was smooth: the bounds are only used up.     *)
LEMMA SmoothBefore ==
  ASSUME BlobInv, Next, Smooth'
  PROVE  /\ Smooth /\ Calm /\ Calm'
         /\ \A w \in Writers : ~WriterCrash(w)
         /\ \A e \in Erasers : ~EraserCrash(e)
         /\ \A e \in Erasers, w \in Writers : EraseScan(e, w) => Delivered(w)
<1>1. spent \in SpentSet /\ spent.crashes \in Nat /\ spent.zombies \in Nat
  BY BoundsAssumption DEF BlobInv, Base, ActorsOK, SpentSet
<1>2. ~raced /\ ~raced'
  BY DEF Smooth, Next, Watch
<1>3. Calm /\ Calm'
  <2>1. BlobInv'
    BY BlobNext DEF Next
  <2> QED BY <1>2, <2>1 DEF BlobInv, Calm, NotMixed, RacesAreSeen
<1>4. ASSUME spent' = [spent EXCEPT !.crashes = @ + 1] PROVE FALSE
  BY <1>1, <1>4 DEF Smooth, SpentSet
<1>5. ASSUME spent' = [spent EXCEPT !.zombies = @ + 1] PROVE FALSE
  BY <1>1, <1>5 DEF Smooth, SpentSet
<1>6. /\ \A w \in Writers : ~WriterCrash(w)
      /\ \A e \in Erasers : ~EraserCrash(e)
      /\ \A e \in Erasers, w \in Writers : EraseScan(e, w) => Delivered(w)
  BY <1>4, <1>5 DEF WriterCrash, EraserCrash, EraseScan
<1>7. spent'.crashes = spent.crashes /\ spent'.zombies = spent.zombies
  <2>1. ASSUME NEW w \in Writers, Put(w) \/ Mark(w) \/ EnqueueErase(w) PROVE spent' = spent
    BY <2>1 DEF Put, Check, Verify, Link, VerifyLink, Sync, CommitRead, CommitWrite, CommitError, Acquire, Mark,
      EnqueueErase
  <2>2. ASSUME NEW e \in Erasers, Erase(e) PROVE spent' = spent
    BY <1>5, <2>2 DEF Erase, EraseScan, EraseCommit, Unlink, Drop
  <2>3. CASE Collect
    BY <1>1, <2>3 DEF Collect, GcList, GcRows, GcRefs, GcDelete, SpentSet
  <2>4. CASE DelayElapses \/ PowerLoss
    BY <1>1, <2>4 DEF DelayElapses, PowerLoss, SpentSet
  <2> QED BY <1>6, <2>1, <2>2, <2>3, <2>4 DEF Next, Step
<1> QED BY <1>2, <1>3, <1>6, <1>7 DEF Smooth

(* A put under way leaves no purge at work, and takes no reference away.   *)
LEMMA PutPurge ==
  ASSUME Calm, Calm', PurgeRuns, NEW w \in Writers, Put(w)
  PROVE  PurgeRuns'
<1>1. UNCHANGED <<task, erase>>
  BY DEF Put, Check, Verify, Link, VerifyLink, Sync, CommitRead, CommitWrite, CommitError, Acquire, tables
<1>2. \A e \in Erasers : erase[e].pc = "idle" /\ erase[e].doomed = 0
  <2>1. put[w].pc # "idle" \/ put'[w].pc # "idle"
    BY DEF Put, Check, Verify, Link, VerifyLink, Sync, CommitRead, CommitWrite, CommitError, Acquire, GoTo, Calm,
      Base, ActorsOK, PutSet
  <2>2. CASE put[w].pc # "idle"
    BY <2>2, PutsAlone
  <2>3. CASE put'[w].pc # "idle"
    <3>1. \A e \in Erasers : erase'[e].pc = "idle"
      BY <2>3 DEF Calm, NotMixed, Putting, Erasing
    <3> QED BY <1>1, <3>1 DEF Calm, Base, ErasersHaveTasks, Works
  <2> QED BY <2>1, <2>2, <2>3
<1>3. \A v \in Writers : ref[v] # 0 => ref'[v] # 0
  <2>1. CASE CommitWrite(w)
    <3>1. row'.id # 0
      BY <2>1, RowCommitted DEF Calm
    <3> QED BY <2>1, <3>1 DEF CommitWrite, Calm, Base, TablesOK
  <2>2. CASE Acquire(w)
    <3>1. row.id = put[w].blob /\ row.state = "finalized"
      BY <2>2 DEF Acquire, Calm, Undisturbed, PutsAreSafe, PutIsSafe
    <3>2. put[w].blob # 0
      BY <3>1 DEF Calm, Base, RowOK
    <3> QED BY <2>2, <3>2 DEF Acquire, Calm, Base, TablesOK
  <2> QED BY <2>1, <2>2 DEF Put, Check, Verify, Link, VerifyLink, Sync, CommitRead, CommitError, tables
<1> QED BY <1>1, <1>2, <1>3 DEF PurgeRuns, TaskWaitsOrRuns, UnlinkedOrShared, Handling

LEMMA DeletionPurge ==
  ASSUME Calm, PurgeRuns, NEW w \in Writers, Mark(w) \/ EnqueueErase(w)
  PROVE  PurgeRuns'
<1>1. UNCHANGED <<file, row, ref, erase>>
  BY DEF Mark, EnqueueErase, disk
<1>2. task \in [Writers -> {"none", "marked", "queued", "running", "completed"}]
  BY DEF Calm, Base, TablesOK
<1>3. ref[w] # 0 /\ task[w] # "running" /\ task[w] # "queued"
  <2>1. CASE Mark(w)
    BY <2>1 DEF Mark, Calm, Undisturbed, LiveIsKept, Kept, Base, TasksAreOfDeleted
  <2>2. CASE EnqueueErase(w)
    BY <2>2 DEF EnqueueErase, PurgeRuns, TaskWaitsOrRuns
  <2> QED BY <2>1, <2>2
<1>4. \A v \in Writers : task'[v] = task[v] \/ (v = w /\ task'[v] \in {"marked", "queued"})
  BY <1>2 DEF Mark, EnqueueErase
<1>5. \A v \in Writers : TaskWaitsOrRuns(v)'
  BY <1>1, <1>3, <1>4 DEF PurgeRuns, TaskWaitsOrRuns, Handling
<1>6. \A e \in Erasers : UnlinkedOrShared(e)'
  <2> SUFFICES ASSUME NEW e \in Erasers PROVE UnlinkedOrShared(e)'
    OBVIOUS
  <2>1. UnlinkedOrShared(e)
    BY DEF PurgeRuns
  <2>2. erase[e].pc = "erasing" => erase[e].task \in Writers /\ task'[erase[e].task] = "queued"
    BY <1>3, <1>4, <2>1 DEF UnlinkedOrShared, Calm, Base, ErasersHaveTasks, Works
  <2> QED BY <1>1, <2>1, <2>2 DEF UnlinkedOrShared
<1> QED BY <1>5, <1>6 DEF PurgeRuns

LEMMA ScanPurge ==
  ASSUME Calm, PurgeRuns, OneEraser, NEW e \in Erasers, NEW w \in Writers, EraseScan(e, w), Delivered(w)
  PROVE  PurgeRuns'
<1> DEFINE shared == \E v \in Writers \ {w} : ref[v] = ref[w]
<1>1. /\ UNCHANGED <<disk, tables>>
      /\ erase' = [erase EXCEPT ![e] = [pc |-> "erasing", task |-> w,
                                        doomed |-> IF shared THEN 0 ELSE ref[w]]]
      /\ erase \in [Erasers -> EraseSet]
  BY DEF EraseScan, ScanUnreferenced, Calm, Base, ActorsOK
<1>2. task[w] = "queued" /\ ref[w] # 0 /\ ref[w] = row.id
  BY DEF Delivered, PurgeRuns, TaskWaitsOrRuns, Calm, Base, RefersToRow
<1>3. erase'[e].pc = "erasing" /\ erase'[e].task = w /\ erase'[e].doomed = IF shared THEN 0 ELSE ref[w]
  BY <1>1
<1>4. UnlinkedOrShared(e)'
  <2>1. shared => \E v \in Writers : v # w /\ ref[v] # 0
    BY <1>2
  <2> HIDE DEF shared
  <2> QED BY <1>1, <1>2, <1>3, <2>1 DEF UnlinkedOrShared, tables
<1>5. \A f \in Erasers : UnlinkedOrShared(f)'
  BY <1>4 DEF OneEraser
<1>6. erase[e].pc = "idle"
  BY DEF EraseScan
<1>7. \A v \in Writers : task[v] # "running"
  BY <1>6 DEF PurgeRuns, TaskWaitsOrRuns, Handling, OneEraser
<1>8. \A v \in Writers : TaskWaitsOrRuns(v)'
  BY <1>1, <1>7 DEF PurgeRuns, TaskWaitsOrRuns, tables
<1> QED BY <1>5, <1>8 DEF PurgeRuns

LEMMA ErasePurge ==
  ASSUME Calm, PurgeRuns, OneEraser, NEW e \in Erasers, EraseCommit(e) \/ Unlink(e) \/ Drop(e)
  PROVE  PurgeRuns'
<1> DEFINE t == erase[e].task
<1>1. /\ erase[e].pc # "idle" /\ t \in Writers /\ erase[e] \in EraseSet /\ erase \in [Erasers -> EraseSet]
      /\ ref \in [Writers -> 0..MaxRows]
      /\ task \in [Writers -> {"none", "marked", "queued", "running", "completed"}]
  BY DEF EraseCommit, Unlink, Drop, Calm, Base, ErasersHaveTasks, Works, ActorsOK, TablesOK
<1>2. UnlinkedOrShared(e) /\ \A v \in Writers : TaskWaitsOrRuns(v)
  BY DEF PurgeRuns
<1>3. \A v \in Writers : v # t /\ task[v] # "none" => task[v] # "running"
  <2> SUFFICES ASSUME NEW v \in Writers, task[v] = "running" PROVE v = t
    OBVIOUS
  <2>1. PICK f \in Erasers : erase[f].task = v
    BY <1>2 DEF TaskWaitsOrRuns, Handling
  <2> QED BY <2>1 DEF OneEraser
<1>4. \A v \in Writers : v # t => ref'[v] = ref[v] /\ task'[v] = task[v]
  <2> SUFFICES ASSUME NEW v \in Writers, v # t PROVE ref'[v] = ref[v] /\ task'[v] = task[v]
    OBVIOUS
  <2>1. CASE Drop(e)
    <3>1. erase[e].doomed # 0 => ref[v] = 0
      BY DEF Calm, Undisturbed, DoomedIsUnused
    <3> QED BY <1>1, <2>1, <3>1 DEF Drop
  <2>2. CASE EraseCommit(e)
    BY <1>1, <2>2 DEF EraseCommit
  <2>3. CASE Unlink(e)
    BY <2>3 DEF Unlink, tables
  <2> QED BY <2>1, <2>2, <2>3
<1>5. CASE EraseCommit(e)
  <2> DEFINE p == IF erase[e].doomed # 0 THEN "unlinking" ELSE "dropping"
  <2>1. erase'[e] = [erase[e] EXCEPT !.pc = p] /\ task'[t] = "running" /\ row'.id = row.id
    BY <1>1, <1>5 DEF EraseCommit, PurgedRow, Calm, Base, RowOK, RowSet
  <2>2. /\ erase'[e].task = t /\ erase'[e].doomed = erase[e].doomed
        /\ erase'[e].pc = p /\ p # "erasing" /\ p # "idle"
        /\ erase[e].doomed # 0 => p # "dropping"
    BY <1>1, <2>1 DEF EraseSet
  <2> HIDE DEF p
  <2>3. UnlinkedOrShared(e)'
    BY <1>1, <1>2, <1>4, <2>1, <2>2 DEF UnlinkedOrShared
  <2>4. \A v \in Writers : TaskWaitsOrRuns(v)'
    BY <1>2, <1>3, <1>4, <2>1, <2>2 DEF TaskWaitsOrRuns, Handling
  <2> QED BY <2>3, <2>4 DEF PurgeRuns, OneEraser
<1>6. CASE Unlink(e)
  <2>1. erase'[e] = [erase[e] EXCEPT !.pc = "dropping"] /\ UNCHANGED tables /\ file' = "absent"
    BY <1>1, <1>6 DEF Unlink
  <2>2. erase'[e].task = t /\ erase'[e].doomed = erase[e].doomed /\ erase'[e].pc = "dropping"
    BY <1>1, <2>1 DEF EraseSet
  <2>3. UnlinkedOrShared(e)'
    BY <1>1, <1>2, <2>1, <2>2 DEF UnlinkedOrShared, tables
  <2>4. \A v \in Writers : TaskWaitsOrRuns(v)'
    BY <1>2, <1>3, <2>1, <2>2 DEF TaskWaitsOrRuns, Handling, tables
  <2> QED BY <2>3, <2>4 DEF PurgeRuns, OneEraser
<1>7. CASE Drop(e)
  <2>1. erase'[e] = NoErase /\ task'[t] = "completed"
    BY <1>1, <1>7 DEF Drop
  <2>2. NoErase.pc = "idle" /\ NoErase.doomed = 0
    BY DEF NoErase
  <2>3. UnlinkedOrShared(e)'
    BY <2>1, <2>2 DEF UnlinkedOrShared
  <2>4. \A v \in Writers : TaskWaitsOrRuns(v)'
    BY <1>2, <1>3, <1>4, <2>1 DEF TaskWaitsOrRuns
  <2> QED BY <2>3, <2>4 DEF PurgeRuns, OneEraser
<1> QED BY <1>5, <1>6, <1>7

LEMMA RestPurge ==
  ASSUME Calm, PurgeRuns, Collect \/ DelayElapses
  PROVE  PurgeRuns'
<1>1. /\ UNCHANGED <<ref, task, erase>> /\ row'.id = row.id
      /\ file = "absent" => file' = "absent"
  BY DEF Collect, GcList, GcRows, GcRefs, GcDelete, DelayElapses, disk, tables, Present, Calm, Base, RowOK, RowSet
<1> QED BY <1>1 DEF PurgeRuns, TaskWaitsOrRuns, UnlinkedOrShared, Handling

LEMMA PurgeNext ==
  ASSUME OneEraser, MaxPowerLosses = 0
  PROVE  BlobInv /\ (Smooth => PurgeRuns) /\ [Next]_vars => (Smooth => PurgeRuns)'
<1> SUFFICES ASSUME BlobInv, Smooth => PurgeRuns, [Next]_vars, Smooth' PROVE PurgeRuns'
  OBVIOUS
<1>1. CASE UNCHANGED vars
  BY <1>1 DEF vars, steps, disk, tables, Smooth, PurgeRuns, TaskWaitsOrRuns, UnlinkedOrShared, Handling
<1>2. CASE Next
  <2>1. /\ Calm /\ Calm' /\ PurgeRuns
        /\ \A w \in Writers : ~WriterCrash(w)
        /\ \A e \in Erasers : ~EraserCrash(e)
        /\ \A e \in Erasers, w \in Writers : EraseScan(e, w) => Delivered(w)
    BY <1>2, SmoothBefore
  <2>2. ~PowerLoss
    BY BoundsAssumption DEF PowerLoss, BlobInv, Base, ActorsOK, SpentSet
  <2>3. ASSUME NEW e \in Erasers, Erase(e) PROVE PurgeRuns'
    BY <2>1, <2>3, ScanPurge, ErasePurge DEF Erase
  <2>4. ASSUME NEW w \in Writers, Put(w) \/ Mark(w) \/ EnqueueErase(w) PROVE PurgeRuns'
    BY <2>1, <2>4, PutPurge, DeletionPurge
  <2> QED BY <1>2, <2>1, <2>2, <2>3, <2>4, RestPurge DEF Next, Step
<1> QED BY <1>1, <1>2

(* Where one worker erases and the power does not fail: a purge in which no*)
(* process died and no job was handed out twice, and which no put met, has *)
(* erased file and row when it is reported completed, unless another       *)
(* source refers to them.                                                  *)
THEOREM UndisturbedPurges ==
  ASSUME OneEraser, MaxPowerLosses = 0
  PROVE  Spec => UndisturbedPurgeErases
<1> DEFINE PurgeInv == Smooth => PurgeRuns
           Erases == \A w \in Writers :
             Completes(w) /\ ~raced' /\ spent.crashes = 0 /\ spent.zombies = 0 /\ NothingRefers' => Erased'
<1>1. Init => PurgeInv
  BY PurgeInit
<1>2. BlobInv /\ PurgeInv /\ [Next]_vars => PurgeInv'
  BY PurgeNext
<1>3. BlobInv /\ PurgeInv /\ [Next]_vars => [Erases]_vars
  <2> SUFFICES ASSUME BlobInv, PurgeInv, Next, NEW w \in Writers, Completes(w), ~raced',
                      spent.crashes = 0, spent.zombies = 0, NothingRefers'
               PROVE  Erased'
    OBVIOUS
  <2>1. ~raced
    BY DEF Next, Watch
  <2>2. PurgeRuns /\ Calm
    BY <2>1 DEF Smooth, BlobInv, RacesAreSeen, Calm, NotMixed
  <2>3. task \in [Writers -> {"none", "marked", "queued", "running", "completed"}]
    BY <2>2 DEF Calm, Base, TablesOK
  <2>4. PICK e \in Erasers : Drop(e)
    <3>1. ~(UNCHANGED task)
      BY DEF Completes
    <3>2. ASSUME NEW v \in Writers PROVE ~Mark(v) /\ ~EnqueueErase(v)
      BY <2>3 DEF Mark, EnqueueErase, Completes
    <3>3. ASSUME NEW v \in Writers PROVE ~Put(v) /\ ~WriterCrash(v)
      BY <3>1 DEF Put, Check, Verify, Link, VerifyLink, Sync, CommitRead, CommitWrite, CommitError, Acquire,
        WriterCrash, tables
    <3>4. ASSUME NEW f \in Erasers, NEW v \in Writers PROVE ~EraseScan(f, v)
      BY <3>1 DEF EraseScan, tables
    <3>5. ASSUME NEW f \in Erasers PROVE ~EraseCommit(f) /\ ~Unlink(f) /\ ~EraserCrash(f)
      BY <2>3, <3>1 DEF EraseCommit, Unlink, EraserCrash, tables, Completes
    <3>6. ~Collect /\ ~DelayElapses /\ ~PowerLoss
      BY <3>1 DEF Collect, GcList, GcRows, GcRefs, GcDelete, DelayElapses, PowerLoss, tables
    <3> QED BY <3>2, <3>3, <3>4, <3>5, <3>6 DEF Next, Step, Erase
  <2>5. UnlinkedOrShared(e) /\ erase[e].pc = "dropping"
    BY <2>2, <2>4 DEF PurgeRuns, Drop
  <2>6. erase[e].doomed # 0
    <3> SUFFICES ASSUME erase[e].doomed = 0 PROVE FALSE
      OBVIOUS
    <3>1. PICK v \in Writers : ref[v] # 0
      BY <2>5 DEF UnlinkedOrShared
    <3>2. ref'[v] = ref[v]
      BY <2>4 DEF Drop
    <3> QED BY <3>1, <3>2 DEF NothingRefers
  <2>7. file' = "absent" /\ row' = NoRow
    BY <2>4, <2>5, <2>6 DEF UnlinkedOrShared, Drop, disk
  <2> QED BY <2>7, Constants DEF Erased
<1>4. UndisturbedPurgeErases <=> [][Erases]_vars
  BY DEF UndisturbedPurgeErases
<1> QED BY <1>1, <1>2, <1>3, <1>4, BlobInvAlways, PTL DEF Spec

=============================================================================
