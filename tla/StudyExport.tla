----------------------------- MODULE StudyExport -----------------------------
(***************************************************************************)
(* What readers do with one published artifact version: the study state    *)
(* each user keeps for it, the snapshots frozen from that state, and the   *)
(* two-stage export that is authorized again when it is downloaded         *)
(* (application/artifact_study.py and artifact_export.py,                  *)
(* adapters/artifact_store.py and artifact_export.py,                      *)
(* api/artifact_routes.py).                                                *)
(*                                                                         *)
(* upsert_user_state is one transaction at READ COMMITTED: its SELECT and  *)
(* its write are two actions, and the write waits for nobody.              *)
(***************************************************************************)
EXTENDS Naturals, FiniteSets

CONSTANTS
  Readers,        \* users with access to the notebook
  StudyRequests,  \* study requests in progress at a time
  Exports,        \* exports in progress at a time
  MaxStudyWrites, MaxAccessChanges   \* bounds

ASSUME StudyAssumption == Readers # {}

VARIABLES
  study,       \* per user, the user_artifact_state row of the version
  held,        \* per user, every state the row has had
  studying,    \* the study requests
  snapshots,   \* study_session_snapshots
  access,      \* per user: still a member, and a restriction on a source
  export,      \* the exports
  studyUsed    \* how much of each bound is used up

studyVars == <<study, held, studying, snapshots, access, export, studyUsed>>

-----------------------------------------------------------------------------
NoState == [exists |-> FALSE, revision |-> 0, value |-> 0]

IdleStudy == [pc |-> "idle", user |-> CHOOSE u \in Readers : TRUE, expected |-> {},
              read |-> NoState, value |-> 0]

IdleExport == [pc |-> "idle", user |-> CHOOSE u \in Readers : TRUE, seen |-> {}]

MayRead(u) == access[u].member

(* What a download has met since it began: for the properties only.        *)
AccessFacts(a) == (IF a.member THEN {"member"} ELSE {}) \cup (IF a.restricted THEN {} ELSE {"unrestricted"})

Leave(s) == studying' = [studying EXCEPT ![s] = IdleStudy]

-----------------------------------------------------------------------------
(* PUT state: with If-Match or without.                                    *)

BeginStudyWrite(s) ==
  /\ studying[s].pc = "idle"
  /\ studyUsed.writes < MaxStudyWrites
  /\ \E u \in Readers, matched \in {TRUE, FALSE} :
       /\ MayRead(u)
       /\ studying' = [studying EXCEPT ![s] =
            [pc |-> "select", user |-> u, read |-> NoState, value |-> studyUsed.writes + 1,
             expected |-> IF matched THEN {study[u].revision} ELSE {}]]
  /\ studyUsed' = [studyUsed EXCEPT !.writes = @ + 1]
  /\ UNCHANGED <<study, held, snapshots, access, export>>

(* The row uq_user_artifact_state_user_version gives the user.             *)
SharedRow(u) == CHOOSE o \in Readers : study[o].exists \/ ~ \E p \in Readers : study[p].exists  \* mutated form
RowOf(u) == u

SelectState(s) ==
  /\ studying[s].pc = "select"
  /\ LET row == study[RowOf(studying[s].user)] IN
       IF row.exists /\ studying[s].expected \notin {{}, {row.revision}}
       THEN Leave(s)
       ELSE studying' = [studying EXCEPT ![s].pc = "write", ![s].read = row]
  /\ UNCHANGED <<study, held, snapshots, access, export, studyUsed>>

(* An insert that finds the row there violates the constraint; an update   *)
(* compares nothing any more and moves the revision it finds.              *)
NextRevisionAsRead(u, read) == read.revision + 1          \* mutated form
NextRevision(u, read) == study[u].revision + 1

WriteState(s) ==
  /\ studying[s].pc = "write"
  /\ LET me == studying[s]
         u  == RowOf(me.user)
     IN IF ~me.read.exists /\ study[u].exists
        THEN UNCHANGED <<study, held>>
        ELSE /\ study' = [study EXCEPT ![u] =
                  [exists |-> TRUE, value |-> me.value,
                   revision |-> IF me.read.exists THEN NextRevision(u, me.read) ELSE 0]]
             /\ held' = [held EXCEPT ![me.user] = @ \cup {me.value}]
  /\ Leave(s)
  /\ UNCHANGED <<snapshots, access, export, studyUsed>>

(* POST state/snapshot: the state is read in one transaction and frozen in *)
(* the next; without a state there is nothing to freeze.                   *)
HasState(u) == study[RowOf(u)].exists

BeginSnapshot(s) ==
  /\ studying[s].pc = "idle"
  /\ \E u \in Readers :
       /\ MayRead(u)
       /\ HasState(u)
       /\ studying' = [studying EXCEPT ![s] =
            [IdleStudy EXCEPT !.pc = "freeze", !.user = u, !.read = study[RowOf(u)]]]
  /\ UNCHANGED <<study, held, snapshots, access, export, studyUsed>>

FreezeSnapshot(s) ==
  /\ studying[s].pc = "freeze"
  /\ snapshots' = snapshots \cup {[user |-> studying[s].user, value |-> studying[s].read.value]}
  /\ Leave(s)
  /\ UNCHANGED <<study, held, access, export, studyUsed>>

-----------------------------------------------------------------------------
(* Export: the request is authorized and answered with a grant; the        *)
(* download derives the frozen inputs again and authorizes again, first by *)
(* membership, then by the restrictions of the sources, each in a          *)
(* transaction of its own.                                                 *)

GrantStands(u) == MayRead(u)                              \* mutated form
Unrestricted(u) == ~access[u].restricted

RequestExport(x) ==
  /\ export[x].pc = "idle"
  /\ \E u \in Readers :
       /\ MayRead(u) /\ Unrestricted(u)
       /\ export' = [export EXCEPT ![x] = [pc |-> "granted", user |-> u, seen |-> {}]]
  /\ UNCHANGED <<study, held, studying, snapshots, access, studyUsed>>

BeginDownload(x) ==
  /\ export[x].pc = "granted"
  /\ MayRead(export[x].user)
  /\ export' = [export EXCEPT ![x].pc = "membership", ![x].seen = AccessFacts(access[export[x].user])]
  /\ UNCHANGED <<study, held, studying, snapshots, access, studyUsed>>

CheckMembership(x) ==
  /\ export[x].pc = "membership"
  /\ export' = [export EXCEPT ![x].pc = IF MayRead(export[x].user) THEN "restrictions" ELSE "denied"]
  /\ UNCHANGED <<study, held, studying, snapshots, access, studyUsed>>

CheckRestrictions(x) ==
  /\ export[x].pc = "restrictions"
  /\ export' = [export EXCEPT ![x].pc = IF Unrestricted(export[x].user) THEN "released" ELSE "denied"]
  /\ UNCHANGED <<study, held, studying, snapshots, access, studyUsed>>

EndExport(x) ==
  /\ export[x].pc \in {"granted", "denied", "released"}
  /\ export' = [export EXCEPT ![x] = IdleExport]
  /\ UNCHANGED <<study, held, studying, snapshots, access, studyUsed>>

(* A member leaves or comes back, a source is restricted or freed. A       *)
(* download in progress has now seen the new facts, too.                   *)
ChangeAccess(u) ==
  /\ studyUsed.changes < MaxAccessChanges
  /\ studyUsed' = [studyUsed EXCEPT !.changes = @ + 1]
  /\ \/ access' = [access EXCEPT ![u].member = ~@]
     \/ access' = [access EXCEPT ![u].restricted = ~@]
  /\ export' = [x \in Exports |->
       IF export[x].user = u /\ export[x].pc \in {"membership", "restrictions"}
       THEN [export[x] EXCEPT !.seen = @ \cup AccessFacts(access'[u])]
       ELSE export[x]]
  /\ UNCHANGED <<study, held, studying, snapshots>>

-----------------------------------------------------------------------------
StudyInit ==
  /\ study = [u \in Readers |-> NoState] /\ held = [u \in Readers |-> {}]
  /\ studying = [s \in StudyRequests |-> IdleStudy]
  /\ snapshots = {}
  /\ access = [u \in Readers |-> [member |-> TRUE, restricted |-> FALSE]]
  /\ export = [x \in Exports |-> IdleExport]
  /\ studyUsed = [writes |-> 0, changes |-> 0]

StudyNext ==
  \/ \E s \in StudyRequests :
       \/ BeginStudyWrite(s) \/ SelectState(s) \/ WriteState(s)
       \/ BeginSnapshot(s) \/ FreezeSnapshot(s)
  \/ \E x \in Exports :
       \/ RequestExport(x) \/ BeginDownload(x) \/ CheckMembership(x) \/ CheckRestrictions(x) \/ EndExport(x)
  \/ \E u \in Readers : ChangeAccess(u)

StudySpec == StudyInit /\ [][StudyNext]_studyVars

-----------------------------------------------------------------------------
(* Properties.                                                             *)

(* Every row, request and export has its type, and the bounds hold.        *)
StudyTypeOK ==
  LET States == [exists : BOOLEAN, revision : 0..MaxStudyWrites, value : 0..MaxStudyWrites]
  IN
  /\ study \in [Readers -> States]
  /\ \A u \in Readers : held[u] \subseteq 1..MaxStudyWrites
  /\ studying \in [StudyRequests -> [pc : {"idle", "select", "write", "freeze"}, user : Readers,
                                     expected : {{}} \cup {{r} : r \in 0..MaxStudyWrites},
                                     read : States, value : 0..MaxStudyWrites]]
  /\ snapshots \subseteq [user : Readers, value : 1..MaxStudyWrites]
  /\ access \in [Readers -> [member : BOOLEAN, restricted : BOOLEAN]]
  /\ export \in [Exports -> [pc : {"idle", "granted", "membership", "restrictions", "denied", "released"},
                             user : Readers, seen : SUBSET {"member", "unrestricted"}]]

(* A user's row holds what that user wrote last, and nobody else's state   *)
(* ("a collaborator's study actions can only touch their own row", tables  *)
(* studio.py:150), and a snapshot one of that user's states.               *)
StudyStateIsOwn ==
  /\ \A u \in Readers : study[u].exists => study[u].value \in held[u]
  /\ \A t \in snapshots : t.value \in held[t.user]

(* The revision a client is shown names one state: as many states were     *)
(* accepted as the revision says, also when two writers read the same one. *)
RevisionCountsWrites ==
  \A u \in Readers : study[u].exists => Cardinality(held[u]) = study[u].revision + 1

(* Content is released only to a reader who was a member at some moment of *)
(* that download and not restricted at some moment of it, whatever the     *)
(* earlier grant allowed ("revalidate CURRENT authorization before         *)
(* releasing the snapshot", artifact_export.py:111).                       *)
ReleasedWhileAllowed ==
  \A x \in Exports : export[x].pc = "released" => export[x].seen = {"member", "unrestricted"}

(* What study state and exports promise a reader, together: a row of one's *)
(* own, a revision per accepted write, and no release of what may not be   *)
(* read.                                                                   *)
StudySafe ==
  /\ StudyStateIsOwn
  /\ RevisionCountsWrites
  /\ ReleasedWhileAllowed
=============================================================================
