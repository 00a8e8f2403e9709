--------------------------- MODULE NotebookProofs ----------------------------
(***************************************************************************)
(* Saving a note keeps what NotesSafe promises, for any number of          *)
(* editors, contents and revisions; study state and exports keep what      *)
(* StudySafe promises, for any number of readers, requests, exports and    *)
(* writes; chats keep what ChatSafe promises, for any number of turns,     *)
(* conversations, versions and cancellations.                              *)
(***************************************************************************)
EXTENDS Notes, StudyExport, GroundedChat, FiniteSetTheorems, TLAPS

EditorTypes ==
  [seen : Nat, listed : Nat, editing : BOOLEAN, baseline : Contents, draft : Contents,
   pc : {"idle", "sent", "answered"}, etag : Nat, body : Contents, from : Contents, knew : BOOLEAN,
   result : {"none", "conflict", "saved", "failed"}]

NotesTypes ==
  /\ revisions \in Seq(Contents) /\ Len(revisions) >= 1
  /\ replaced \in Seq([knew : BOOLEAN, from : Contents]) /\ Len(replaced) = Len(revisions) - 1
  /\ editor \in [Editors -> EditorTypes]
  /\ \A e \in Editors : editor[e].seen <= Len(revisions) /\ editor[e].listed <= Len(revisions)

(* The baseline of a draft is what is shown, in every rendering.           *)
BaselineShown == \A e \in Editors : editor[e].baseline = ShownTo(e)

(* What is sent was made from the revision its ETag names, if that one had *)
(* been found.                                                             *)
SentFromEtag ==
  \A e \in Editors :
    editor[e].pc = "sent" /\ editor[e].knew =>
      editor[e].etag \in 1..Len(revisions) /\ editor[e].from = revisions[editor[e].etag]

NotesInv == NotesTypes /\ BaselineShown /\ SentFromEtag /\ SaveKeepsOthers /\ NoRevisionRepeats

-----------------------------------------------------------------------------
LEMMA NotesInitInv == NotesInit => NotesInv
<1> SUFFICES ASSUME NotesInit PROVE NotesInv
  OBVIOUS
<1>1. PICK c \in Contents : revisions = <<c>>
  BY DEF NotesInit
<1>2. replaced = << >> /\ editor = [e \in Editors |-> ClosedEditor]
  BY DEF NotesInit
<1>3. NotesTypes
  BY <1>1, <1>2, NotesAssumption DEF NotesTypes, EditorTypes, ClosedEditor
<1>4. BaselineShown /\ SentFromEtag
  BY <1>2 DEF BaselineShown, SentFromEtag, ClosedEditor, ShownTo, ShownContent, Found
<1>5. SaveKeepsOthers /\ NoRevisionRepeats
  BY <1>1, <1>2 DEF SaveKeepsOthers, NoRevisionRepeats, CurrentNumber
<1> QED BY <1>3, <1>4, <1>5 DEF NotesInv

LEMMA ShownIsContent ==
  ASSUME NotesTypes, NEW seen \in Nat, NEW listed \in Nat, listed <= Len(revisions)
  PROVE  ShownContent(seen, listed) \in Contents
BY NotesAssumption DEF NotesTypes, ShownContent, Found

(* An editor that changes while the revisions stand.                       *)
LEMMA EditorMoves ==
  ASSUME NotesInv, NEW e \in Editors, NEW new \in EditorTypes, editor' = [editor EXCEPT ![e] = new],
         UNCHANGED <<revisions, replaced>>,
         new.seen <= Len(revisions), new.listed <= Len(revisions),
         new.baseline = ShownContent(new.seen, new.listed),
         new.pc = "sent" /\ new.knew => new.etag \in 1..Len(revisions) /\ new.from = revisions[new.etag]
  PROVE  NotesInv'
<1>1. editor'[e] = new /\ \A f \in Editors \ {e} : editor'[f] = editor[f]
  BY DEF NotesInv, NotesTypes
<1>2. NotesTypes'
  BY <1>1 DEF NotesInv, NotesTypes
<1>3. BaselineShown'
  BY <1>1 DEF NotesInv, BaselineShown, ShownTo, ShownContent
<1>4. SentFromEtag'
  BY <1>1 DEF NotesInv, SentFromEtag
<1>5. SaveKeepsOthers' /\ NoRevisionRepeats'
  BY DEF NotesInv, SaveKeepsOthers, NoRevisionRepeats, CurrentNumber
<1> QED BY <1>2, <1>3, <1>4, <1>5 DEF NotesInv

LEMMA FetchingKeepsInv ==
  ASSUME NotesInv, NEW e \in Editors, FetchNote(e) \/ FetchRevisions(e)
  PROVE  NotesInv'
<1>0. /\ editor[e] \in EditorTypes /\ editor[e].seen <= Len(revisions) /\ editor[e].listed <= Len(revisions)
      /\ Len(revisions) \in Nat
  BY DEF NotesInv, NotesTypes
<1>1. PICK seen \in Nat, listed \in Nat :
        /\ seen <= Len(revisions) /\ listed <= Len(revisions)
        /\ editor' = [editor EXCEPT ![e] = Rendered(e, seen, listed)]
  BY <1>0 DEF FetchNote, FetchRevisions, CurrentNumber, EditorTypes
<1> DEFINE new == Rendered(e, seen, listed)
           shown == ShownContent(seen, listed)
<1>2. shown \in Contents
  BY <1>1, ShownIsContent DEF NotesInv
<1>3. /\ new \in EditorTypes /\ new.seen = seen /\ new.listed = listed /\ new.baseline = shown
      /\ new.pc = editor[e].pc /\ new.knew = editor[e].knew /\ new.etag = editor[e].etag
      /\ new.from = editor[e].from
  <2>1. CASE shown = editor[e].baseline
    <3>1. new = [editor[e] EXCEPT !.seen = seen, !.listed = listed]
      BY <2>1 DEF Rendered
    <3> HIDE DEF new, shown
    <3> QED BY <1>0, <1>1, <2>1, <3>1 DEF EditorTypes
  <2>2. CASE shown # editor[e].baseline
    <3>1. new = [editor[e] EXCEPT !.seen = seen, !.listed = listed, !.baseline = shown, !.draft = shown]
      BY <2>2 DEF Rendered
    <3> HIDE DEF new, shown
    <3> QED BY <1>0, <1>1, <1>2, <3>1 DEF EditorTypes
  <2> QED BY <2>1, <2>2
<1>4. UNCHANGED <<revisions, replaced>>
  BY DEF FetchNote, FetchRevisions
<1>5. new.pc = "sent" /\ new.knew => new.etag \in 1..Len(revisions) /\ new.from = revisions[new.etag]
  BY <1>3 DEF NotesInv, SentFromEtag
<1> HIDE DEF new
<1> QED BY <1>1, <1>3, <1>4, <1>5, EditorMoves DEF new

LEMMA EditingKeepsInv ==
  ASSUME NotesInv, NEW e \in Editors,
         OpenEditor(e) \/ TypeDraft(e) \/ CancelEdit(e) \/ SubmitEdit(e) \/ HandleResult(e) \/ RequestLost(e)
  PROVE  NotesInv'
<1>0. /\ editor \in [Editors -> EditorTypes] /\ editor[e] \in EditorTypes
      /\ editor[e].seen <= Len(revisions) /\ editor[e].listed <= Len(revisions)
      /\ editor[e].baseline = ShownContent(editor[e].seen, editor[e].listed)
      /\ ShownTo(e) = editor[e].baseline
      /\ editor[e].pc = "sent" /\ editor[e].knew =>
           editor[e].etag \in 1..Len(revisions) /\ editor[e].from = revisions[editor[e].etag]
  BY DEF NotesInv, NotesTypes, BaselineShown, ShownTo, SentFromEtag
<1>a. UNCHANGED <<revisions, replaced>>
  BY DEF OpenEditor, TypeDraft, CancelEdit, SubmitEdit, HandleResult, RequestLost
<1>b. ASSUME NEW new \in EditorTypes, editor' = [editor EXCEPT ![e] = new],
             new.seen = editor[e].seen, new.listed = editor[e].listed, new.baseline = editor[e].baseline,
             \/ new.pc # "sent"
             \/ new.knew => new.etag \in 1..Len(revisions) /\ new.from = revisions[new.etag]
      PROVE  NotesInv'
  BY <1>0, <1>a, <1>b, EditorMoves
<1>1. CASE OpenEditor(e)
  <2> DEFINE new == [editor[e] EXCEPT !.editing = TRUE]
  <2>1. editor' = [editor EXCEPT ![e] = new]
    BY <1>0, <1>1 DEF OpenEditor
  <2>2. /\ new \in EditorTypes /\ new.seen = editor[e].seen /\ new.listed = editor[e].listed
        /\ new.baseline = editor[e].baseline /\ new.pc = editor[e].pc /\ new.knew = editor[e].knew
        /\ new.etag = editor[e].etag /\ new.from = editor[e].from
    BY <1>0 DEF EditorTypes
  <2> HIDE DEF new
  <2> QED BY <1>0, <1>b, <2>1, <2>2
<1>2. CASE TypeDraft(e)
  <2>1. PICK c \in Contents : editor' = [editor EXCEPT ![e].draft = c]
    BY <1>2 DEF TypeDraft
  <2> DEFINE new == [editor[e] EXCEPT !.draft = c]
  <2>2. /\ new \in EditorTypes /\ new.seen = editor[e].seen /\ new.listed = editor[e].listed
        /\ new.baseline = editor[e].baseline /\ new.pc = editor[e].pc
    BY <1>0 DEF EditorTypes
  <2>3. editor' = [editor EXCEPT ![e] = new] /\ editor[e].pc = "idle"
    BY <1>0, <1>2, <2>1 DEF TypeDraft
  <2> HIDE DEF new
  <2> QED BY <1>b, <2>2, <2>3
<1>3. CASE CancelEdit(e)
  <2> DEFINE new == [editor[e] EXCEPT !.editing = FALSE, !.draft = editor[e].baseline, !.baseline = editor[e].baseline]
  <2>1. editor' = [editor EXCEPT ![e].editing = FALSE, ![e].draft = editor[e].baseline,
                                 ![e].baseline = editor[e].baseline]
        /\ editor[e].pc = "idle"
    BY <1>0, <1>3 DEF CancelEdit
  <2>2. /\ new \in EditorTypes /\ new.seen = editor[e].seen /\ new.listed = editor[e].listed
        /\ new.baseline = editor[e].baseline /\ new.pc = editor[e].pc
    BY <1>0 DEF EditorTypes
  <2>3. editor' = [editor EXCEPT ![e] = new]
    BY <1>0, <2>1
  <2> HIDE DEF new
  <2> QED BY <1>b, <2>1, <2>2, <2>3
<1>4. CASE SubmitEdit(e)
  <2> DEFINE found == Found(editor[e].seen, editor[e].listed)
             new == [editor[e] EXCEPT !.pc = "sent", !.etag = editor[e].seen, !.body = editor[e].draft,
                                      !.from = editor[e].baseline, !.knew = found]
  <2>1. found \in BOOLEAN
    BY DEF Found
  <2>2. found => editor[e].seen \in 1..Len(revisions) /\ editor[e].baseline = revisions[editor[e].seen]
    BY <1>0 DEF Found, ShownContent, EditorTypes, NotesInv, NotesTypes
  <2>3. editor' = [editor EXCEPT ![e].pc = "sent", ![e].etag = editor[e].seen, ![e].body = editor[e].draft,
                                 ![e].from = editor[e].baseline, ![e].knew = found]
    BY <1>4 DEF SubmitEdit
  <2> HIDE DEF found
  <2>4. editor' = [editor EXCEPT ![e] = new]
    BY <1>0, <2>3
  <2>5. /\ new \in EditorTypes /\ new.seen = editor[e].seen /\ new.listed = editor[e].listed
        /\ new.baseline = editor[e].baseline /\ new.knew = found /\ new.etag = editor[e].seen
        /\ new.from = editor[e].baseline
    BY <1>0, <2>1 DEF EditorTypes
  <2> HIDE DEF new
  <2> QED BY <1>b, <2>2, <2>4, <2>5
<1>5. CASE HandleResult(e)
  <2>1. PICK result \in {editor[e].result, "failed"} :
          editor' = [editor EXCEPT
            ![e].pc = "idle", ![e].editing = @ /\ result # "saved",
            ![e].etag = 0, ![e].body = Blank, ![e].from = Blank, ![e].knew = FALSE, ![e].result = "none"]
    BY <1>5 DEF HandleResult
  <2> DEFINE open == editor[e].editing /\ result # "saved"
             new == [editor[e] EXCEPT !.pc = "idle", !.editing = open, !.etag = 0, !.body = Blank,
                                      !.from = Blank, !.knew = FALSE, !.result = "none"]
  <2>2. open \in BOOLEAN
    OBVIOUS
  <2>3. editor' = [editor EXCEPT ![e].pc = "idle", ![e].editing = open, ![e].etag = 0, ![e].body = Blank,
                                 ![e].from = Blank, ![e].knew = FALSE, ![e].result = "none"]
    BY <1>0, <2>1
  <2> HIDE DEF open
  <2>4. editor' = [editor EXCEPT ![e] = new]
    BY <1>0, <2>3
  <2>5. /\ new \in EditorTypes /\ new.seen = editor[e].seen /\ new.listed = editor[e].listed
        /\ new.baseline = editor[e].baseline /\ new.pc = "idle"
    BY <1>0, <2>2, NotesAssumption DEF EditorTypes
  <2> HIDE DEF new
  <2> QED BY <1>b, <2>4, <2>5
<1>6. CASE RequestLost(e)
  <2> DEFINE new == [editor[e] EXCEPT !.pc = "answered", !.result = "failed"]
  <2>1. editor' = [editor EXCEPT ![e] = new]
    BY <1>0, <1>6 DEF RequestLost
  <2>2. /\ new \in EditorTypes /\ new.seen = editor[e].seen /\ new.listed = editor[e].listed
        /\ new.baseline = editor[e].baseline /\ new.pc = "answered"
    BY <1>0 DEF EditorTypes
  <2> HIDE DEF new
  <2> QED BY <1>b, <2>1, <2>2
<1> QED BY <1>1, <1>2, <1>3, <1>4, <1>5, <1>6

(* The server appends only to the revision the ETag names, and only what   *)
(* differs from it.                                                        *)
LEMMA AppendingKeepsInv ==
  ASSUME NotesInv, NEW e \in Editors, AppendRevision(e)
  PROVE  NotesInv'
<1> DEFINE result == IF EtagCurrent(editor[e].etag) THEN "saved" ELSE "conflict"
           new == [editor[e] EXCEPT !.pc = "answered", !.result = result]
<1>0. /\ editor \in [Editors -> EditorTypes] /\ editor[e] \in EditorTypes
      /\ editor[e].seen <= Len(revisions) /\ editor[e].listed <= Len(revisions)
      /\ editor[e].baseline = ShownContent(editor[e].seen, editor[e].listed)
      /\ revisions \in Seq(Contents) /\ replaced \in Seq([knew : BOOLEAN, from : Contents])
      /\ Len(revisions) \in Nat \ {0} /\ Len(replaced) = Len(revisions) - 1
  BY DEF NotesInv, NotesTypes, BaselineShown, ShownTo
<1>1. editor' = [editor EXCEPT ![e].pc = "answered", ![e].result = result] /\ editor[e].pc = "sent"
  BY DEF AppendRevision
<1>2. result \in {"saved", "conflict"}
  OBVIOUS
<1> HIDE DEF result
<1>3. editor' = [editor EXCEPT ![e] = new]
  BY <1>0, <1>1
<1>4. /\ new \in EditorTypes /\ new.seen = editor[e].seen /\ new.listed = editor[e].listed
      /\ new.baseline = editor[e].baseline /\ new.pc = "answered"
  BY <1>0, <1>2 DEF EditorTypes
<1> HIDE DEF new
<1>5. CASE UNCHANGED <<revisions, replaced>>
  BY <1>0, <1>3, <1>4, <1>5, EditorMoves
<1>6. CASE ~UNCHANGED <<revisions, replaced>>
  <2> DEFINE was == [knew |-> editor[e].knew, from |-> editor[e].from]
  <2>1. /\ revisions' = Append(revisions, editor[e].body) /\ replaced' = Append(replaced, was)
        /\ editor[e].etag = Len(revisions) /\ editor[e].body # revisions[Len(revisions)]
    BY <1>6 DEF AppendRevision, EtagCurrent, SameContent, CurrentNumber
  <2>2. /\ editor[e].body \in Contents /\ was \in [knew : BOOLEAN, from : Contents]
        /\ was.knew = editor[e].knew /\ was.from = editor[e].from
    BY <1>0 DEF EditorTypes
  <2>3. was.knew => was.from = revisions[Len(revisions)]
    BY <1>1, <2>1, <2>2 DEF NotesInv, SentFromEtag
  <2> HIDE DEF was
  <2>4. /\ revisions' \in Seq(Contents) /\ Len(revisions') = Len(revisions) + 1
        /\ \A i \in 1..Len(revisions) : revisions'[i] = revisions[i]
        /\ revisions'[Len(revisions) + 1] = editor[e].body
        /\ replaced' \in Seq([knew : BOOLEAN, from : Contents]) /\ Len(replaced') = Len(replaced) + 1
        /\ \A i \in 1..Len(replaced) : replaced'[i] = replaced[i]
        /\ replaced'[Len(revisions)] = was
    BY <1>0, <2>1, <2>2
  <2>5. editor'[e] = new /\ \A f \in Editors \ {e} : editor'[f] = editor[f]
    BY <1>0, <1>3
  <2>6. \A f \in Editors : /\ editor'[f] \in EditorTypes
                           /\ editor'[f].seen = editor[f].seen /\ editor'[f].listed = editor[f].listed
                           /\ editor'[f].baseline = editor[f].baseline
                           /\ editor'[f].pc = "sent" => editor'[f] = editor[f]
    BY <1>0, <1>4, <2>5
  <2>7. NotesTypes'
    <3>1. editor' \in [Editors -> EditorTypes]
      BY <1>0, <1>3, <1>4
    <3>2. \A f \in Editors : editor'[f].seen <= Len(revisions') /\ editor'[f].listed <= Len(revisions')
      BY <1>0, <2>4, <2>6 DEF NotesInv, NotesTypes, EditorTypes
    <3> QED BY <1>0, <2>4, <3>1, <3>2 DEF NotesTypes
  <2>8. BaselineShown'
    <3> SUFFICES ASSUME NEW f \in Editors PROVE editor'[f].baseline = ShownTo(f)'
      BY DEF BaselineShown
    <3>1. /\ editor[f].seen \in Nat /\ editor[f].listed \in Nat /\ editor[f].listed <= Len(revisions)
          /\ editor[f].baseline = ShownContent(editor[f].seen, editor[f].listed)
      BY DEF NotesInv, NotesTypes, EditorTypes, BaselineShown, ShownTo
    <3>2. Found(editor[f].seen, editor[f].listed) => revisions'[editor[f].seen] = revisions[editor[f].seen]
      BY <1>0, <2>4, <3>1 DEF Found
    <3> QED BY <2>6, <3>1, <3>2 DEF ShownTo, ShownContent, Found
  <2>9. SentFromEtag'
    BY <1>0, <2>4, <2>6 DEF NotesInv, SentFromEtag
  <2>10. SaveKeepsOthers'
    <3> SUFFICES ASSUME NEW i \in 1..Len(replaced') PROVE replaced'[i].knew => replaced'[i].from = revisions'[i]
      BY DEF SaveKeepsOthers
    <3>1. CASE i \in 1..Len(replaced)
      BY <1>0, <2>4, <3>1 DEF NotesInv, SaveKeepsOthers
    <3>2. CASE i = Len(revisions)
      BY <1>0, <2>3, <2>4, <3>2
    <3> QED BY <1>0, <2>4, <3>1, <3>2
  <2>11. NoRevisionRepeats'
    <3> SUFFICES ASSUME NEW i \in 1..(Len(revisions') - 1) PROVE revisions'[i] # revisions'[i + 1]
      BY DEF NoRevisionRepeats, CurrentNumber
    <3>1. CASE i < Len(revisions)
      <4>1. i \in 1..(Len(revisions) - 1) /\ i + 1 \in 1..Len(revisions) /\ i \in 1..Len(revisions)
        BY <1>0, <3>1
      <4>2. revisions[i] # revisions[i + 1]
        BY <4>1 DEF NotesInv, NoRevisionRepeats, CurrentNumber
      <4> QED BY <2>4, <4>1, <4>2
    <3>2. CASE i = Len(revisions)
      BY <1>0, <2>1, <2>4, <3>2
    <3> QED BY <1>0, <2>4, <3>1, <3>2
  <2> QED BY <2>7, <2>8, <2>9, <2>10, <2>11 DEF NotesInv
<1> QED BY <1>5, <1>6

LEMMA NotesInvariant == NotesSpec => []NotesInv
<1>1. NotesInv /\ [NotesNext]_notesVars => NotesInv'
  <2> SUFFICES ASSUME NotesInv, [NotesNext]_notesVars PROVE NotesInv'
    OBVIOUS
  <2>1. CASE UNCHANGED notesVars
    BY <2>1 DEF notesVars, NotesInv, NotesTypes, BaselineShown, ShownTo, ShownContent, SentFromEtag,
               SaveKeepsOthers, NoRevisionRepeats, CurrentNumber
  <2>2. CASE NotesNext
    BY <2>2, FetchingKeepsInv, EditingKeepsInv, AppendingKeepsInv DEF NotesNext, EditorStep
  <2> QED BY <2>1, <2>2
<1> QED BY <1>1, NotesInitInv, PTL DEF NotesSpec

(* No accepted save replaces a revision its author had found nothing of,   *)
(* and no content is made a revision twice in a row, whatever editors,     *)
(* refetches and lost answers do.                                          *)
THEOREM NotesSafety == NotesSpec => []NotesSafe
<1>1. NotesInv => NotesSafe
  BY DEF NotesInv, NotesSafe
<1> QED BY <1>1, NotesInvariant, PTL

-----------------------------------------------------------------------------
(* Study state and exports.                                                *)

States == [exists : BOOLEAN, revision : Nat, value : Nat]

(* The states that were accepted, counted by numbers without a bound.      *)
StudyTypes ==
  /\ study \in [Readers -> States]
  /\ held \in [Readers -> SUBSET Nat]
  /\ studying \in [StudyRequests -> [pc : {"idle", "select", "write", "freeze"}, user : Readers,
                                     expected : SUBSET Nat, read : States, value : Nat]]
  /\ studyUsed \in [writes : Nat, changes : Nat]
  /\ access \in [Readers -> [member : BOOLEAN, restricted : BOOLEAN]]
  /\ export \in [Exports -> [pc : {"idle", "granted", "membership", "restrictions", "denied", "released"},
                             user : Readers, seen : SUBSET {"member", "unrestricted"}]]

(* Every write carries a state nobody has had.                             *)
Writing(s) == studying[s].pc \in {"select", "write"}

NewStates ==
  /\ \A u \in Readers : held[u] \subseteq 1..studyUsed.writes
  /\ \A s \in StudyRequests : Writing(s) =>
       /\ studying[s].value \in 1..studyUsed.writes
       /\ \A u \in Readers : studying[s].value \notin held[u]
       /\ \A t \in StudyRequests : Writing(t) /\ studying[t].value = studying[s].value => t = s

(* A row counts the states of its user, and what a request has read is one *)
(* of them; only an update finds a row that is there for good.             *)
RowsCount ==
  \A u \in Readers :
    /\ IsFiniteSet(held[u])
    /\ study[u].exists => Cardinality(held[u]) = study[u].revision + 1 /\ study[u].value \in held[u]
    /\ ~study[u].exists => held[u] = {}

ReadsAreOwn ==
  \A s \in StudyRequests :
    /\ studying[s].pc \in {"write", "freeze"} /\ studying[s].read.exists
         => study[studying[s].user].exists /\ studying[s].read.value \in held[studying[s].user]
    /\ studying[s].pc = "freeze" => studying[s].read.exists

SnapshotsAreOwn == \A t \in snapshots : t.value \in held[t.user] /\ t.user \in Readers

(* A download has met the facts of now, and those it has been checked for. *)
DownloadsSaw ==
  \A x \in Exports :
    /\ export[x].pc \in {"membership", "restrictions"} => AccessFacts(access[export[x].user]) \subseteq export[x].seen
    /\ export[x].pc = "restrictions" => "member" \in export[x].seen
    /\ export[x].pc = "released" => export[x].seen = {"member", "unrestricted"}

StudyInv ==
  StudyTypes /\ NewStates /\ RowsCount /\ ReadsAreOwn /\ SnapshotsAreOwn /\ DownloadsSaw

-----------------------------------------------------------------------------
LEMMA StudyInitInv == StudyInit => StudyInv
<1> SUFFICES ASSUME StudyInit PROVE StudyInv
  OBVIOUS
<1> USE DEF StudyInit
<1>1. (CHOOSE u \in Readers : TRUE) \in Readers
  BY StudyAssumption
<1>2. StudyTypes
  BY <1>1 DEF StudyTypes, States, NoState, IdleStudy, IdleExport
<1>3. NewStates /\ ReadsAreOwn /\ SnapshotsAreOwn /\ DownloadsSaw
  BY DEF NewStates, Writing, ReadsAreOwn, SnapshotsAreOwn, DownloadsSaw, IdleStudy, IdleExport
<1>4. RowsCount
  BY FS_EmptySet DEF RowsCount, NoState
<1> QED BY <1>2, <1>3, <1>4 DEF StudyInv

(* The requests that write no row.                                         *)
LEMMA ReadingKeepsInv ==
  ASSUME StudyInv, NEW s \in StudyRequests,
         BeginStudyWrite(s) \/ SelectState(s) \/ BeginSnapshot(s) \/ FreezeSnapshot(s)
  PROVE  StudyInv'
<1> USE DEF StudyInv, RowOf
<1>0. IdleStudy \in [pc : {"idle", "select", "write", "freeze"}, user : Readers,
                     expected : SUBSET Nat, read : States, value : Nat] /\ IdleStudy.pc = "idle"
  BY StudyAssumption DEF IdleStudy, NoState, States
<1>1. CASE BeginStudyWrite(s)
  <2>0. PICK u \in Readers, matched \in {TRUE, FALSE} :
          studying' = [studying EXCEPT ![s] =
            [pc |-> "select", user |-> u, read |-> NoState, value |-> studyUsed.writes + 1,
             expected |-> IF matched THEN {study[u].revision} ELSE {}]]
    BY <1>1 DEF BeginStudyWrite
  <2> DEFINE e == IF matched THEN {study[u].revision} ELSE {}
             new == [pc |-> "select", user |-> u, read |-> NoState, value |-> studyUsed.writes + 1, expected |-> e]
  <2>1. studying' = [studying EXCEPT ![s] = new]
    BY <2>0
  <2>2. /\ studyUsed' = [studyUsed EXCEPT !.writes = @ + 1]
        /\ UNCHANGED <<study, held, snapshots, access, export>>
    BY <1>1 DEF BeginStudyWrite
  <2>a. studyUsed.writes \in Nat /\ studyUsed' \in [writes : Nat, changes : Nat]
        /\ studyUsed'.writes = studyUsed.writes + 1
    BY <2>2 DEF StudyTypes
  <2>b. study[u] \in States
    BY DEF StudyTypes
  <2>c. e \in SUBSET Nat
    BY <2>b DEF States
  <2>d. NoState \in States
    BY DEF NoState, States
  <2>e. new \in [pc : {"idle", "select", "write", "freeze"}, user : Readers,
                 expected : SUBSET Nat, read : States, value : Nat]
    BY <2>a, <2>c, <2>d
  <2>3. StudyTypes'
    BY <2>1, <2>2, <2>a, <2>e DEF StudyTypes
  <2>4. NewStates'
    <3>1. \A r \in Readers : held'[r] \subseteq 1..studyUsed'.writes /\ studyUsed.writes + 1 \notin held[r]
      BY <2>2, <2>a DEF NewStates
    <3>2. ASSUME NEW t \in StudyRequests, Writing(t)', t # s
          PROVE  Writing(t) /\ studying'[t] = studying[t]
      BY <2>1, <3>2 DEF Writing, StudyTypes
    <3>3. studying'[s].value = studyUsed.writes + 1
      BY <2>1 DEF StudyTypes
    <3> QED BY <2>2, <2>a, <3>1, <3>2, <3>3 DEF NewStates
  <2>5. RowsCount' /\ SnapshotsAreOwn' /\ DownloadsSaw'
    BY <2>2 DEF RowsCount, SnapshotsAreOwn, DownloadsSaw, AccessFacts
  <2>6. ReadsAreOwn'
    BY <2>1, <2>2 DEF ReadsAreOwn, StudyTypes
  <2> QED BY <2>3, <2>4, <2>5, <2>6
<1>2. CASE SelectState(s)
  <2>1. \/ studying' = [studying EXCEPT ![s] = IdleStudy]
        \/ studying' = [studying EXCEPT ![s].pc = "write", ![s].read = study[studying[s].user]]
    BY <1>2 DEF SelectState, Leave
  <2>2. UNCHANGED <<study, held, snapshots, access, export, studyUsed>> /\ studying[s].pc = "select"
    BY <1>2 DEF SelectState
  <2> DEFINE w == studying[s].user
  <2>a. w \in Readers /\ study[w] \in States
    BY DEF StudyTypes
  <2>b. /\ studying' = [studying EXCEPT ![s] = studying'[s]]
        /\ \/ studying'[s] = IdleStudy
           \/ /\ studying'[s].pc = "write" /\ studying'[s].user = w /\ studying'[s].read = study[w]
              /\ studying'[s].value = studying[s].value
        /\ studying'[s] \in [pc : {"idle", "select", "write", "freeze"}, user : Readers,
                             expected : SUBSET Nat, read : States, value : Nat]
    <3>1. CASE studying' = [studying EXCEPT ![s] = IdleStudy]
      BY <1>0, <3>1 DEF StudyTypes
    <3>2. CASE studying' = [studying EXCEPT ![s].pc = "write", ![s].read = study[w]]
      <4> DEFINE Q == [pc : {"idle", "select", "write", "freeze"}, user : Readers,
                       expected : SUBSET Nat, read : States, value : Nat]
                 new == [studying[s] EXCEPT !.pc = "write", !.read = study[w]]
      <4>1. studying \in [StudyRequests -> Q] /\ studying[s] \in Q
        BY DEF StudyTypes
      <4>2. new \in Q /\ new.pc = "write" /\ new.user = w /\ new.read = study[w] /\ new.value = studying[s].value
        BY <2>a, <4>1
      <4>3. studying' = [studying EXCEPT ![s] = new]
        BY <3>2, <4>1
      <4> HIDE DEF new
      <4> QED BY <4>1, <4>2, <4>3
    <3> QED BY <2>1, <3>1, <3>2
  <2>c. \A t \in StudyRequests \ {s} : studying'[t] = studying[t]
    BY <2>b DEF StudyTypes
  <2>3. StudyTypes'
    BY <2>2, <2>b DEF StudyTypes
  <2>4. NewStates'
    BY <1>0, <2>2, <2>b, <2>c DEF NewStates, Writing
  <2>5. RowsCount' /\ SnapshotsAreOwn' /\ DownloadsSaw'
    BY <2>2 DEF RowsCount, SnapshotsAreOwn, DownloadsSaw, AccessFacts
  <2>6. ReadsAreOwn'
    <3>1. study[w].exists => study[w].value \in held[w]
      BY <2>a DEF RowsCount
    <3>2. studying'[s].pc \in {"write", "freeze"} /\ studying'[s].read.exists
            => study'[studying'[s].user].exists /\ studying'[s].read.value \in held'[studying'[s].user]
      BY <1>0, <2>2, <2>b, <3>1
    <3>3. studying'[s].pc # "freeze"
      BY <1>0, <2>b
    <3> QED BY <2>2, <2>c, <3>2, <3>3 DEF ReadsAreOwn
  <2> QED BY <2>3, <2>4, <2>5, <2>6
<1>3. CASE BeginSnapshot(s)
  <2>1. PICK u \in Readers :
          /\ study[u].exists
          /\ studying' = [studying EXCEPT ![s] =
               [IdleStudy EXCEPT !.pc = "freeze", !.user = u, !.read = study[u]]]
    BY <1>3 DEF BeginSnapshot, HasState
  <2>2. UNCHANGED <<study, held, snapshots, access, export, studyUsed>>
    BY <1>3 DEF BeginSnapshot
  <2>3. StudyTypes'
    BY <1>0, <2>1, <2>2 DEF StudyTypes
  <2>4. NewStates'
    BY <1>0, <2>1, <2>2 DEF NewStates, Writing, StudyTypes
  <2>5. RowsCount' /\ SnapshotsAreOwn' /\ DownloadsSaw'
    BY <2>2 DEF RowsCount, SnapshotsAreOwn, DownloadsSaw, AccessFacts
  <2>6. ReadsAreOwn'
    BY <1>0, <2>1, <2>2 DEF ReadsAreOwn, StudyTypes, RowsCount
  <2> QED BY <2>3, <2>4, <2>5, <2>6
<1>4. CASE FreezeSnapshot(s)
  <2>1. /\ studying[s].pc = "freeze" /\ studying' = [studying EXCEPT ![s] = IdleStudy]
        /\ snapshots' = snapshots \cup {[user |-> studying[s].user, value |-> studying[s].read.value]}
        /\ UNCHANGED <<study, held, access, export, studyUsed>>
    BY <1>4 DEF FreezeSnapshot, Leave
  <2>2. SnapshotsAreOwn'
    BY <2>1 DEF SnapshotsAreOwn, ReadsAreOwn, StudyTypes
  <2>3. StudyTypes'
    BY <1>0, <2>1 DEF StudyTypes
  <2>4. NewStates'
    BY <1>0, <2>1 DEF NewStates, Writing, StudyTypes
  <2>5. RowsCount' /\ DownloadsSaw'
    BY <2>1 DEF RowsCount, DownloadsSaw, AccessFacts
  <2>6. ReadsAreOwn'
    BY <1>0, <2>1 DEF ReadsAreOwn, StudyTypes
  <2> QED BY <2>2, <2>3, <2>4, <2>5, <2>6
<1> QED BY <1>1, <1>2, <1>3, <1>4

(* The write compares nothing, but an update adds one state and one to the *)
(* revision, whatever the row was when it was read.                        *)
LEMMA WritingKeepsInv ==
  ASSUME StudyInv, NEW s \in StudyRequests, WriteState(s)
  PROVE  StudyInv'
<1> USE DEF StudyInv, RowOf, NextRevision
<1> DEFINE u == studying[s].user
           v == studying[s].value
<1>0. IdleStudy \in [pc : {"idle", "select", "write", "freeze"}, user : Readers,
                     expected : SUBSET Nat, read : States, value : Nat] /\ IdleStudy.pc = "idle"
  BY StudyAssumption DEF IdleStudy, NoState, States
<1>1. /\ u \in Readers /\ v \in Nat /\ studying[s].pc = "write" /\ studying[s].read \in States
      /\ studying' = [studying EXCEPT ![s] = IdleStudy]
      /\ UNCHANGED <<snapshots, access, export, studyUsed>>
  BY DEF WriteState, Leave, StudyTypes
<1>2. CASE UNCHANGED <<study, held>>
  <2>1. StudyTypes'
    BY <1>0, <1>1, <1>2 DEF StudyTypes
  <2>2. NewStates'
    BY <1>0, <1>1, <1>2 DEF NewStates, Writing, StudyTypes
  <2>3. RowsCount' /\ SnapshotsAreOwn' /\ DownloadsSaw'
    BY <1>1, <1>2 DEF RowsCount, SnapshotsAreOwn, DownloadsSaw, AccessFacts
  <2>4. ReadsAreOwn'
    BY <1>0, <1>1, <1>2 DEF ReadsAreOwn, StudyTypes
  <2> QED BY <2>1, <2>2, <2>3, <2>4
<1>3. CASE ~UNCHANGED <<study, held>>
  <2> DEFINE n == IF studying[s].read.exists THEN study[u].revision + 1 ELSE 0
  <2>1. /\ study' = [study EXCEPT ![u] = [exists |-> TRUE, value |-> v, revision |-> n]]
        /\ held' = [held EXCEPT ![u] = held[u] \cup {v}]
        /\ studying[s].read.exists \/ ~study[u].exists
    BY <1>1, <1>3 DEF WriteState
  <2>2. study[u] \in States /\ n \in Nat
    BY <1>1 DEF StudyTypes, States
  <2>3. v \in 1..studyUsed.writes /\ \A r \in Readers : v \notin held[r]
    BY <1>1 DEF NewStates, Writing
  <2>4. /\ study'[u] = [exists |-> TRUE, value |-> v, revision |-> n]
        /\ held'[u] = held[u] \cup {v}
        /\ \A r \in Readers \ {u} : study'[r] = study[r] /\ held'[r] = held[r]
    BY <1>1, <2>1 DEF StudyTypes
  <2>5. StudyTypes'
    BY <1>0, <1>1, <2>1, <2>2 DEF StudyTypes, States
  <2>6. NewStates'
    <3>1. \A r \in Readers : held'[r] \subseteq 1..studyUsed'.writes
      BY <1>1, <2>3, <2>4 DEF NewStates
    <3>2. ASSUME NEW t \in StudyRequests, Writing(t)'
          PROVE  /\ t # s /\ Writing(t) /\ studying'[t] = studying[t]
                 /\ studying[t].value # v
      BY <1>0, <1>1, <3>2 DEF Writing, NewStates, StudyTypes
    <3>3. ASSUME NEW t \in StudyRequests, Writing(t)', NEW r \in Readers
          PROVE  studying'[t].value \notin held'[r]
      BY <2>4, <3>2, <3>3 DEF NewStates
    <3> QED BY <1>1, <3>1, <3>2, <3>3 DEF NewStates
  <2>7. RowsCount'
    <3>1. IsFiniteSet(held[u]) /\ IsFiniteSet(held[u] \cup {v})
          /\ Cardinality(held[u] \cup {v}) = Cardinality(held[u]) + 1
      BY <1>1, <2>3, FS_AddElement DEF RowsCount
    <3>2. Cardinality(held[u] \cup {v}) = n + 1
      <4>1. CASE studying[s].read.exists
        BY <1>1, <2>2, <3>1, <4>1 DEF RowsCount, ReadsAreOwn, States
      <4>2. CASE ~studying[s].read.exists
        BY <1>1, <2>1, <3>1, <4>2, FS_EmptySet DEF RowsCount
      <4> QED BY <4>1, <4>2
    <3>3. ASSUME NEW r \in Readers
          PROVE  /\ IsFiniteSet(held'[r])
                 /\ study'[r].exists => Cardinality(held'[r]) = study'[r].revision + 1
                                        /\ study'[r].value \in held'[r]
                 /\ ~study'[r].exists => held'[r] = {}
      <4>1. CASE r = u
        <5>1. held'[u] = held[u] \cup {v}
          BY <2>4
        <5>2. study'[u].exists = TRUE /\ study'[u].revision = n /\ study'[u].value = v
          BY <2>4
        <5> HIDE DEF u, v, n
        <5> QED BY <3>1, <3>2, <4>1, <5>1, <5>2
      <4>2. CASE r # u
        BY <2>4, <4>2 DEF RowsCount
      <4> QED BY <4>1, <4>2
    <3> QED BY <3>3 DEF RowsCount
  <2>8. \A r \in Readers : held[r] \subseteq held'[r] /\ (study[r].exists => study'[r].exists)
    BY <2>4
  <2>9. ReadsAreOwn'
    <3>1. ASSUME NEW t \in StudyRequests, studying'[t].pc \in {"write", "freeze"}
          PROVE  studying'[t] = studying[t] /\ studying[t].user \in Readers
      BY <1>0, <1>1, <3>1 DEF StudyTypes
    <3> QED BY <2>8, <3>1 DEF ReadsAreOwn
  <2>10. SnapshotsAreOwn' /\ DownloadsSaw'
    BY <1>1, <2>8 DEF SnapshotsAreOwn, DownloadsSaw, AccessFacts
  <2> QED BY <2>5, <2>6, <2>7, <2>9, <2>10
<1> QED BY <1>2, <1>3

(* Exports and changes of access leave the study state alone.              *)
LEMMA StudyStands ==
  ASSUME StudyInv, UNCHANGED <<study, held, studying, snapshots>>, studyUsed'.writes = studyUsed.writes
  PROVE  NewStates' /\ RowsCount' /\ ReadsAreOwn' /\ SnapshotsAreOwn'
BY DEF StudyInv, NewStates, Writing, RowsCount, ReadsAreOwn, SnapshotsAreOwn

LEMMA ExportKeepsInv ==
  ASSUME StudyInv, NEW x \in Exports,
         RequestExport(x) \/ BeginDownload(x) \/ CheckMembership(x) \/ CheckRestrictions(x) \/ EndExport(x)
  PROVE  StudyInv'
<1> USE DEF StudyInv
<1>1. UNCHANGED <<study, held, studying, snapshots, access, studyUsed>>
  BY DEF RequestExport, BeginDownload, CheckMembership, CheckRestrictions, EndExport
<1>2. NewStates' /\ RowsCount' /\ ReadsAreOwn' /\ SnapshotsAreOwn'
  BY <1>1, StudyStands
<1>3. \A y \in Exports \ {x} : export'[y] = export[y]
  BY DEF RequestExport, BeginDownload, CheckMembership, CheckRestrictions, EndExport, StudyTypes
<1>4. StudyTypes'
  <2>1. IdleExport.user \in Readers
    BY StudyAssumption DEF IdleExport
  <2> DEFINE E == [pc : {"idle", "granted", "membership", "restrictions", "denied", "released"},
                   user : Readers, seen : SUBSET {"member", "unrestricted"}]
  <2>2. ASSUME NEW e \in E, export' = [export EXCEPT ![x] = e]
        PROVE  StudyTypes'
    BY <1>1, <2>2 DEF StudyTypes
  <2>3. export[x] \in E /\ IdleExport \in E
    BY <2>1 DEF StudyTypes, IdleExport
  <2>4. CASE RequestExport(x) \/ EndExport(x)
    BY <2>2, <2>3, <2>4 DEF RequestExport, EndExport
  <2>5. CASE BeginDownload(x)
    <3> DEFINE F == AccessFacts(access[export[x].user])
    <3>1. export' = [export EXCEPT ![x].pc = "membership", ![x].seen = F]
      BY <2>5 DEF BeginDownload
    <3>2. F \in SUBSET {"member", "unrestricted"}
      BY DEF AccessFacts
    <3>3. export \in [Exports -> E]
      BY DEF StudyTypes
    <3> HIDE DEF F
    <3>4. export' = [export EXCEPT ![x] = [export[x] EXCEPT !.pc = "membership", !.seen = F]]
      BY <3>1, <3>3
    <3>5. [export[x] EXCEPT !.pc = "membership", !.seen = F] \in E
      BY <2>3, <3>2
    <3> QED BY <2>2, <3>4, <3>5
  <2>6. CASE CheckMembership(x) \/ CheckRestrictions(x)
    <3>1. PICK c \in {"restrictions", "denied", "released"} : export' = [export EXCEPT ![x].pc = c]
      <4>1. CASE CheckMembership(x)
        BY <4>1 DEF CheckMembership
      <4>2. CASE CheckRestrictions(x)
        BY <4>2 DEF CheckRestrictions
      <4> QED BY <2>6, <4>1, <4>2
    <3>2. [export[x] EXCEPT !.pc = c] \in E
      BY <2>3
    <3>3. export' = [export EXCEPT ![x] = [export[x] EXCEPT !.pc = c]]
      BY <3>1
    <3> QED BY <2>2, <3>2, <3>3
  <2> QED BY <2>4, <2>5, <2>6
<1>5. /\ export'[x].pc \in {"membership", "restrictions"} => AccessFacts(access[export'[x].user]) \subseteq export'[x].seen
      /\ export'[x].pc = "restrictions" => "member" \in export'[x].seen
      /\ export'[x].pc = "released" => export'[x].seen = {"member", "unrestricted"}
  <2>1. CASE RequestExport(x) \/ EndExport(x)
    BY <2>1 DEF RequestExport, EndExport, IdleExport, StudyTypes
  <2>2. CASE BeginDownload(x)
    BY <2>2 DEF BeginDownload, StudyTypes
  <2>3. CASE CheckMembership(x)
    BY <2>3 DEF CheckMembership, MayRead, DownloadsSaw, AccessFacts, StudyTypes
  <2>4. CASE CheckRestrictions(x)
    BY <2>4 DEF CheckRestrictions, Unrestricted, DownloadsSaw, AccessFacts, StudyTypes
  <2> QED BY <2>1, <2>2, <2>3, <2>4
<1>6. DownloadsSaw'
  BY <1>1, <1>3, <1>5 DEF DownloadsSaw, AccessFacts
<1> QED BY <1>2, <1>4, <1>6

LEMMA AccessKeepsInv ==
  ASSUME StudyInv, NEW u \in Readers, ChangeAccess(u)
  PROVE  StudyInv'
<1> USE DEF StudyInv
<1>0. /\ UNCHANGED <<study, held, studying, snapshots>>
      /\ studyUsed' = [studyUsed EXCEPT !.changes = @ + 1]
      /\ \/ access' = [access EXCEPT ![u].member = ~@]
         \/ access' = [access EXCEPT ![u].restricted = ~@]
  BY DEF ChangeAccess
<1>1. UNCHANGED <<study, held, studying, snapshots>> /\ studyUsed'.writes = studyUsed.writes
      /\ studyUsed' \in [writes : Nat, changes : Nat]
  BY <1>0 DEF StudyTypes
<1>2. NewStates' /\ RowsCount' /\ ReadsAreOwn' /\ SnapshotsAreOwn'
  BY <1>1, StudyStands
<1>3. access' \in [Readers -> [member : BOOLEAN, restricted : BOOLEAN]]
      /\ \A r \in Readers \ {u} : access'[r] = access[r]
  <2> DEFINE A == [member : BOOLEAN, restricted : BOOLEAN]
  <2>1. access \in [Readers -> A]
    BY DEF StudyTypes
  <2>2. CASE access' = [access EXCEPT ![u].member = ~@]
    <3>1. [access[u] EXCEPT !.member = ~@] \in A
      BY <2>1
    <3> QED BY <2>1, <2>2, <3>1
  <2>3. CASE access' = [access EXCEPT ![u].restricted = ~@]
    <3>1. [access[u] EXCEPT !.restricted = ~@] \in A
      BY <2>1
    <3> QED BY <2>1, <2>3, <3>1
  <2> QED BY <1>0, <2>2, <2>3
<1>4. ASSUME NEW x \in Exports
      PROVE  \/ /\ export[x].user = u /\ export[x].pc \in {"membership", "restrictions"}
                /\ export'[x] = [export[x] EXCEPT !.seen = @ \cup AccessFacts(access'[u])]
             \/ /\ ~(export[x].user = u /\ export[x].pc \in {"membership", "restrictions"})
                /\ export'[x] = export[x]
  BY DEF ChangeAccess
<1>5. StudyTypes'
  <2>1. DOMAIN export' = Exports /\ export' = [x \in Exports |-> export'[x]]
    BY DEF ChangeAccess
  <2>2. ASSUME NEW x \in Exports
        PROVE  export'[x] \in [pc : {"idle", "granted", "membership", "restrictions", "denied", "released"},
                               user : Readers, seen : SUBSET {"member", "unrestricted"}]
    <3>1. AccessFacts(access'[u]) \in SUBSET {"member", "unrestricted"}
      BY DEF AccessFacts
    <3>2. export[x] \in [pc : {"idle", "granted", "membership", "restrictions", "denied", "released"},
                         user : Readers, seen : SUBSET {"member", "unrestricted"}]
      BY DEF StudyTypes
    <3> DEFINE F == AccessFacts(access'[u])
    <3>3. export'[x] = export[x] \/ export'[x] = [export[x] EXCEPT !.seen = @ \cup F]
      BY <1>4
    <3> HIDE DEF StudyInv, F
    <3>4. F \in SUBSET {"member", "unrestricted"}
      BY <3>1 DEF F
    <3> QED BY <3>2, <3>3, <3>4
  <2> DEFINE E == [pc : {"idle", "granted", "membership", "restrictions", "denied", "released"},
                   user : Readers, seen : SUBSET {"member", "unrestricted"}]
  <2>3. export' \in [Exports -> E]
    BY <2>1, <2>2
  <2> QED BY <1>1, <1>3, <2>3 DEF StudyTypes
<1>6. DownloadsSaw'
  <2> SUFFICES ASSUME NEW x \in Exports
               PROVE  /\ export'[x].pc \in {"membership", "restrictions"}
                           => AccessFacts(access'[export'[x].user]) \subseteq export'[x].seen
                      /\ export'[x].pc = "restrictions" => "member" \in export'[x].seen
                      /\ export'[x].pc = "released" => export'[x].seen = {"member", "unrestricted"}
    BY DEF DownloadsSaw, AccessFacts
  <2>0. export[x] \in [pc : {"idle", "granted", "membership", "restrictions", "denied", "released"},
                       user : Readers, seen : SUBSET {"member", "unrestricted"}]
    BY DEF StudyTypes
  <2>1. CASE export[x].user = u /\ export[x].pc \in {"membership", "restrictions"}
    <3>1. /\ export'[x].pc = export[x].pc /\ export'[x].user = u
          /\ export'[x].seen = export[x].seen \cup AccessFacts(access'[u])
      BY <1>4, <2>0, <2>1
    <3> QED BY <2>1, <3>1 DEF DownloadsSaw
  <2>2. CASE ~(export[x].user = u /\ export[x].pc \in {"membership", "restrictions"})
    <3>1. export'[x] = export[x]
      BY <1>4, <2>2
    <3>2. export[x].pc \in {"membership", "restrictions"} => access'[export[x].user] = access[export[x].user]
      BY <1>3, <2>0, <2>2
    <3> QED BY <3>1, <3>2 DEF DownloadsSaw
  <2> QED BY <2>1, <2>2
<1> QED BY <1>2, <1>5, <1>6

LEMMA StudyInvariant == StudySpec => []StudyInv
<1>1. StudyInv /\ [StudyNext]_studyVars => StudyInv'
  <2> SUFFICES ASSUME StudyInv, [StudyNext]_studyVars PROVE StudyInv'
    OBVIOUS
  <2>1. CASE UNCHANGED studyVars
    BY <2>1 DEF studyVars, StudyInv, StudyTypes, NewStates, Writing, RowsCount, ReadsAreOwn,
               SnapshotsAreOwn, DownloadsSaw, AccessFacts
  <2>2. CASE StudyNext
    BY <2>2, ReadingKeepsInv, WritingKeepsInv, ExportKeepsInv, AccessKeepsInv DEF StudyNext
  <2> QED BY <2>1, <2>2
<1> QED BY <1>1, StudyInitInv, PTL DEF StudySpec

(* Rows are their users' own, the revision counts accepted writes although *)
(* no lock joins the read and the write, and a release was permitted at    *)
(* some moment of its download.                                            *)
THEOREM StudySafety == StudySpec => []StudySafe
<1>1. StudyInv => StudySafe
  BY DEF StudyInv, StudySafe, StudyStateIsOwn, RevisionCountsWrites, ReleasedWhileAllowed,
         RowsCount, SnapshotsAreOwn, DownloadsSaw
<1> QED BY <1>1, StudyInvariant, PTL

-----------------------------------------------------------------------------
(* Grounded chat.                                                          *)

(* Where the question of a turn is still to come, and where its answer is. *)
AskingPoints == {"freeze", "append"}
AnsweringPoints ==
  {"lexical", "lexical recheck", "vector", "vector recheck", "generate", "abstain", "publish"}

(* Types of the turns, the conversations and what may be read.             *)
TurnPoints == {"idle"} \cup AskingPoints \cup AnsweringPoints \cup TurnOutcomes

TurnTypes ==
  [pc : TurnPoints, c : Nat, streams : BOOLEAN, notes : BOOLEAN, manifest : SUBSET Versions,
   rows : SUBSET Versions, evidence : SUBSET Versions, cites : SUBSET Versions,
   asked : BOOLEAN, wiped : BOOLEAN]

ConversationTypes ==
  [status : {"absent", "open", "reset", "deleted"}, questions : Nat, answers : Nat]

ReadingTypes ==
  [member : BOOLEAN, present : SUBSET Versions, active : SUBSET Versions, denied : SUBSET Versions]

ChatTypes ==
  /\ conversation \in [Conversations -> ConversationTypes]
  /\ marks \subseteq Conversations
  /\ turn \in [Turns -> TurnTypes]
  /\ reading \in ReadingTypes
  /\ chatUsed \in [turns : 0..MaxTurns, cancels : Nat, changes : Nat]

(* A turn asked to stop finds the mark, or knows that it is gone.          *)
TurnKept(x, ms) ==
  /\ x.pc # "idle" => x.c \in Conversations
  /\ x.evidence \subseteq x.manifest /\ x.rows \subseteq x.manifest
  /\ x.pc \in AskingPoints => x.evidence = {} /\ x.rows = {}
  /\ x.pc \in {"idle"} \cup TurnOutcomes => x.evidence = {} /\ x.cites = {}
  /\ x.pc \notin AnswerComplete /\ x.asked /\ ~x.wiped => x.c \in ms
  /\ x.pc = "publish" /\ x.streams /\ x.asked => x.wiped

(* The turns of a conversation that have still to ask, and to answer.      *)
AskingOf(c) == {t \in Turns : turn[t].c = c /\ turn[t].pc \in AskingPoints}
AnsweringOf(c) == {t \in Turns : turn[t].c = c /\ turn[t].pc \in AnsweringPoints}

(* A question comes of a turn that was accepted, an answer of a question.  *)
Counted(c) ==
  /\ conversation[c].questions + Cardinality(AskingOf(c)) <= chatUsed.turns
  /\ conversation[c].answers + Cardinality(AnsweringOf(c)) <= conversation[c].questions
  /\ conversation[c].status = "absent" => conversation[c].questions = 0 /\ conversation[c].answers = 0

(* The inductive invariant.                                                *)
ChatInv ==
  /\ ChatTypes
  /\ \A t \in Turns : TurnKept(turn[t], marks)
  /\ \A c \in Conversations : Counted(c)

-----------------------------------------------------------------------------
(* Sets that differ in one element at most.                                *)
One(p) == IF p THEN 1 ELSE 0

(* ... have sizes that differ by whether they have it.                     *)
LEMMA OneApart ==
  ASSUME NEW A, IsFiniteSet(A), NEW B, NEW t, \A u : u # t => (u \in A <=> u \in B)
  PROVE  /\ Cardinality(A) \in Nat /\ Cardinality(B) \in Nat
         /\ Cardinality(B) + One(t \in A) = Cardinality(A) + One(t \in B)
<1>1. Cardinality(A) \in Nat
  BY FS_CardinalityType
<1>2. CASE t \in A /\ t \notin B
  <2>1. B = A \ {t}
    BY <1>2
  <2>2. Cardinality(B) = Cardinality(A) - 1
    BY <1>2, <2>1, FS_RemoveElement
  <2>3. Cardinality(B) \in Nat
    BY <2>1, FS_RemoveElement, FS_CardinalityType
  <2> QED BY <1>1, <1>2, <2>2, <2>3 DEF One
<1>3. CASE t \notin A /\ t \in B
  <2>1. B = A \cup {t}
    BY <1>3
  <2> QED BY <1>1, <1>3, <2>1, FS_AddElement, FS_CardinalityType DEF One
<1>4. CASE t \in A <=> t \in B
  <2>1. A = B
    BY <1>4
  <2> QED BY <1>1, <2>1 DEF One
<1> QED BY <1>2, <1>3, <1>4

(* The turns of a conversation are finitely many.                          *)
LEMMA TurnsAreFinite ==
  ASSUME NEW c
  PROVE  /\ IsFiniteSet(AskingOf(c)) /\ IsFiniteSet(AnsweringOf(c))
         /\ Cardinality(AskingOf(c)) \in Nat /\ Cardinality(AnsweringOf(c)) \in Nat
<1>1. AskingOf(c) \subseteq Turns /\ AnsweringOf(c) \subseteq Turns
  BY DEF AskingOf, AnsweringOf
<1> QED BY <1>1, ChatAssumption, FS_Subset, FS_CardinalityType

Asks(x, c) == x.c = c /\ x.pc \in AskingPoints
Answers(x, c) == x.c = c /\ x.pc \in AnsweringPoints

(* One turn moves on.                                                      *)
LEMMA OneTurnMoves ==
  ASSUME ChatTypes, NEW t \in Turns, NEW x \in TurnTypes, turn' = [turn EXCEPT ![t] = x]
  PROVE  /\ turn' \in [Turns -> TurnTypes]
         /\ turn'[t] = x /\ \A u \in Turns : u # t => turn'[u] = turn[u]
         /\ \A c :
              /\ Cardinality(AskingOf(c))' \in Nat /\ Cardinality(AnsweringOf(c))' \in Nat
              /\ Cardinality(AskingOf(c))' + One(Asks(turn[t], c))
                   = Cardinality(AskingOf(c)) + One(Asks(x, c))
              /\ Cardinality(AnsweringOf(c))' + One(Answers(turn[t], c))
                   = Cardinality(AnsweringOf(c)) + One(Answers(x, c))
<1>1. turn' \in [Turns -> TurnTypes]
  BY DEF ChatTypes
<1>2. turn'[t] = x /\ \A u \in Turns : u # t => turn'[u] = turn[u]
  BY DEF ChatTypes
<1>3. ASSUME NEW c
      PROVE  /\ Cardinality(AskingOf(c))' \in Nat /\ Cardinality(AnsweringOf(c))' \in Nat
             /\ Cardinality(AskingOf(c))' + One(Asks(turn[t], c))
                  = Cardinality(AskingOf(c)) + One(Asks(x, c))
             /\ Cardinality(AnsweringOf(c))' + One(Answers(turn[t], c))
                  = Cardinality(AnsweringOf(c)) + One(Answers(x, c))
  <2> DEFINE A == AskingOf(c)
             B == AnsweringOf(c)
  <2>1. \A u : u # t => (u \in A <=> u \in A') /\ (u \in B <=> u \in B')
    BY <1>2 DEF AskingOf, AnsweringOf
  <2>2. /\ (t \in A) = Asks(turn[t], c)
        /\ (t \in A') = Asks(x, c)
        /\ (t \in B) = Answers(turn[t], c)
        /\ (t \in B') = Answers(x, c)
    BY <1>2 DEF AskingOf, AnsweringOf, Asks, Answers
  <2>3. IsFiniteSet(A) /\ IsFiniteSet(B)
    BY TurnsAreFinite
  <2> HIDE DEF A, B
  <2>4. /\ Cardinality(A') \in Nat
        /\ Cardinality(A') + One(t \in A) = Cardinality(A) + One(t \in A')
    BY <2>1, <2>3, OneApart
  <2>5. /\ Cardinality(B') \in Nat
        /\ Cardinality(B') + One(t \in B) = Cardinality(B) + One(t \in B')
    BY <2>1, <2>3, OneApart
  <2> QED BY <2>2, <2>4, <2>5 DEF A, B
<1> QED BY <1>1, <1>2, <1>3

(* The counts of a conversation, when one turn moves on.                   *)
LEMMA CountsMove ==
  ASSUME ChatInv, ChatTypes', NEW t \in Turns, NEW x \in TurnTypes, turn' = [turn EXCEPT ![t] = x],
         NEW c \in Conversations,
         conversation'[c].questions + One(Asks(x, c)) + chatUsed.turns
           <= conversation[c].questions + One(Asks(turn[t], c)) + chatUsed'.turns,
         conversation'[c].answers + One(Answers(x, c)) + conversation[c].questions
           <= conversation[c].answers + One(Answers(turn[t], c)) + conversation'[c].questions,
         conversation'[c].status = "absent" =>
           conversation'[c].questions = 0 /\ conversation'[c].answers = 0
  PROVE  Counted(c)'
<1> DEFINE a == Cardinality(AskingOf(c))
           b == Cardinality(AnsweringOf(c))
           a9 == Cardinality(AskingOf(c)')
           b9 == Cardinality(AnsweringOf(c)')
           a0 == One(Asks(turn[t], c))
           a1 == One(Asks(x, c))
           b0 == One(Answers(turn[t], c))
           b1 == One(Answers(x, c))
           q == conversation[c].questions
           n == conversation[c].answers
           k == chatUsed.turns
           q9 == conversation'[c].questions
           n9 == conversation'[c].answers
           k9 == chatUsed'.turns
<1>0. ChatTypes
  BY DEF ChatInv
<1>1. a \in Nat /\ b \in Nat /\ q \in Nat /\ n \in Nat /\ k \in Nat
  BY <1>0, TurnsAreFinite, ChatAssumption DEF ChatTypes, ConversationTypes
<1>2. q9 \in Nat /\ n9 \in Nat /\ k9 \in Nat
  BY ChatAssumption DEF ChatTypes, ConversationTypes
<1>3. a9 \in Nat /\ b9 \in Nat /\ a9 + a0 = a + a1 /\ b9 + b0 = b + b1
  BY <1>0, OneTurnMoves
<1>4. a0 \in Nat /\ a1 \in Nat /\ b0 \in Nat /\ b1 \in Nat
  BY DEF One
<1>5. q + a <= k /\ n + b <= q
  BY DEF ChatInv, Counted
<1>6. q9 + a1 + k <= q + a0 + k9 /\ n9 + b1 + q <= n + b0 + q9
  OBVIOUS
<1> HIDE DEF a, b, a9, b9, a0, b0, a1, b1, q, n, k, q9, n9, k9
<1>7. q9 + a9 <= k9 /\ n9 + b9 <= q9
  BY <1>1, <1>2, <1>3, <1>4, <1>5, <1>6
<1> QED BY <1>7 DEF a9, b9, q9, n9, k9, Counted

(* What a step of a turn that asks and answers nothing must keep.          *)
LEMMA SilentTurn ==
  ASSUME ChatInv, NEW t \in Turns, NEW x \in TurnTypes, turn' = [turn EXCEPT ![t] = x],
         UNCHANGED <<conversation, marks, reading, chatUsed>>,
         TurnKept(x, marks),
         x.c = turn[t].c \/ x.pc \in {"idle"} \cup TurnOutcomes,
         x.pc \in AskingPoints => turn[t].pc \in AskingPoints,
         x.pc \in AnsweringPoints => turn[t].pc \in AnsweringPoints
  PROVE  ChatInv'
<1>0. ChatTypes
  BY DEF ChatInv
<1>1. /\ turn' \in [Turns -> TurnTypes]
      /\ turn'[t] = x /\ \A u \in Turns : u # t => turn'[u] = turn[u]
  BY <1>0, OneTurnMoves
<1>2. ChatTypes'
  BY <1>0, <1>1 DEF ChatTypes
<1>3. \A u \in Turns : TurnKept(turn'[u], marks')
  BY <1>1 DEF ChatInv
<1>4. ASSUME NEW c \in Conversations PROVE Counted(c)'
  <2> DEFINE q == conversation[c].questions
             n == conversation[c].answers
             k == chatUsed.turns
             a0 == One(Asks(turn[t], c))
             a1 == One(Asks(x, c))
             b0 == One(Answers(turn[t], c))
             b1 == One(Answers(x, c))
  <2>1. q \in Nat /\ n \in Nat /\ k \in Nat
    BY <1>0, ChatAssumption DEF ChatTypes, ConversationTypes
  <2>2. (Asks(x, c) => Asks(turn[t], c)) /\ (Answers(x, c) => Answers(turn[t], c))
    BY DEF Asks, Answers, AskingPoints, AnsweringPoints, TurnOutcomes
  <2>3. a0 \in Nat /\ a1 \in Nat /\ b0 \in Nat /\ b1 \in Nat /\ a1 <= a0 /\ b1 <= b0
    BY <2>2 DEF One
  <2>4. conversation'[c] = conversation[c] /\ chatUsed' = chatUsed
    OBVIOUS
  <2>5. conversation[c].status = "absent" => q = 0 /\ n = 0
    BY DEF ChatInv, Counted
  <2>6. q + a1 + k <= q + a0 + k /\ n + b1 + q <= n + b0 + q
    <3> HIDE DEF q, n, k, a0, a1, b0, b1
    <3> QED BY <2>1, <2>3
  <2> QED BY <1>2, <2>4, <2>5, <2>6, CountsMove
<1> QED BY <1>2, <1>3, <1>4 DEF ChatInv

(* A turn asks its question, or gives its answer, in its conversation.     *)
LEMMA TalkingTurn ==
  ASSUME ChatInv, NEW t \in Turns, NEW x \in TurnTypes, turn' = [turn EXCEPT ![t] = x],
         NEW row \in ConversationTypes, conversation' = [conversation EXCEPT ![turn[t].c] = row],
         UNCHANGED <<marks, reading, chatUsed>>,
         TurnKept(x, marks), turn[t].c \in Conversations, x.c = turn[t].c,
         row.status = conversation[turn[t].c].status,
         \/ /\ row.questions = conversation[turn[t].c].questions + 1
            /\ row.answers = conversation[turn[t].c].answers
            /\ turn[t].pc \in AskingPoints /\ x.pc \in AnsweringPoints
            /\ row.status = "open"
         \/ /\ row.answers = conversation[turn[t].c].answers + 1
            /\ row.questions = conversation[turn[t].c].questions
            /\ turn[t].pc \in AnsweringPoints /\ x.pc \in TurnOutcomes
  PROVE  ChatInv'
<1>0. ChatTypes
  BY DEF ChatInv
<1>1. /\ turn' \in [Turns -> TurnTypes]
      /\ turn'[t] = x /\ \A u \in Turns : u # t => turn'[u] = turn[u]
  BY <1>0, OneTurnMoves
<1>2. conversation' \in [Conversations -> ConversationTypes]
  BY <1>0 DEF ChatTypes
<1>3. ChatTypes'
  BY <1>0, <1>1, <1>2 DEF ChatTypes
<1>4. \A u \in Turns : TurnKept(turn'[u], marks')
  BY <1>1 DEF ChatInv
<1>5. ASSUME NEW c \in Conversations PROVE Counted(c)'
  <2> DEFINE q == conversation[c].questions
             n == conversation[c].answers
             k == chatUsed.turns
             q9 == conversation'[c].questions
             n9 == conversation'[c].answers
             a0 == One(Asks(turn[t], c))
             a1 == One(Asks(x, c))
             b0 == One(Answers(turn[t], c))
             b1 == One(Answers(x, c))
  <2>1. q \in Nat /\ n \in Nat /\ k \in Nat
    BY <1>0, ChatAssumption DEF ChatTypes, ConversationTypes
  <2>2. chatUsed' = chatUsed
    OBVIOUS
  <2>3. conversation[c].status = "absent" => q = 0 /\ n = 0
    BY DEF ChatInv, Counted
  <2>4. CASE c # turn[t].c
    <3>1. conversation'[c] = conversation[c]
      BY <1>0, <2>4 DEF ChatTypes
    <3>2. a0 = 0 /\ a1 = 0 /\ b0 = 0 /\ b1 = 0
      BY <2>4 DEF One, Asks, Answers
    <3>3. q9 = q /\ n9 = n
      BY <3>1
    <3>4. q9 + a1 + k <= q + a0 + k /\ n9 + b1 + q <= n + b0 + q9
      <4> HIDE DEF q, n, k, a0, a1, b0, b1, q9, n9
      <4> QED BY <2>1, <3>2, <3>3
    <3> QED BY <1>3, <2>2, <2>3, <3>1, <3>4, CountsMove
  <2>5. CASE c = turn[t].c /\ turn[t].pc \in AskingPoints
    <3>1. conversation'[c] = row /\ row.status = "open" /\ q9 = q + 1 /\ n9 = n /\ x.pc \in AnsweringPoints
      BY <1>0, <2>5 DEF ChatTypes, AskingPoints, AnsweringPoints
    <3>2. a0 = 1 /\ a1 = 0 /\ b0 = 0 /\ b1 = 1
      BY <2>5, <3>1 DEF One, Asks, Answers, AskingPoints, AnsweringPoints
    <3>4. q9 + a1 + k <= q + a0 + k /\ n9 + b1 + q <= n + b0 + q9
      <4>1. q9 = q + 1 /\ n9 = n
        BY <3>1
      <4> HIDE DEF q, n, k, a0, a1, b0, b1, q9, n9
      <4> QED BY <2>1, <3>2, <4>1
    <3> QED BY <1>3, <2>2, <3>1, <3>4, CountsMove
  <2>6. CASE c = turn[t].c /\ turn[t].pc \notin AskingPoints
    <3>1. /\ conversation'[c] = row /\ row.status = conversation[c].status /\ q9 = q /\ n9 = n + 1
          /\ turn[t].pc \in AnsweringPoints /\ x.pc \in TurnOutcomes
      BY <1>0, <2>6 DEF ChatTypes
    <3>2. a0 = 0 /\ a1 = 0 /\ b0 = 1 /\ b1 = 0
      BY <2>6, <3>1 DEF One, Asks, Answers, AskingPoints, AnsweringPoints, TurnOutcomes
    <3>3. conversation[c].status # "absent"
      <4> DEFINE b == Cardinality(AnsweringOf(c))
      <4>1. t \in AnsweringOf(c)
        BY <2>6, <3>1 DEF AnsweringOf
      <4>2. b \in Nat /\ b # 0
        BY <4>1, TurnsAreFinite, FS_EmptySet
      <4>3. n + b <= q
        BY DEF ChatInv, Counted
      <4> HIDE DEF b, n, q
      <4>4. ~(q = 0 /\ n = 0)
        BY <2>1, <4>2, <4>3
      <4> QED BY <2>3, <4>4
    <3>4. q9 + a1 + k <= q + a0 + k /\ n9 + b1 + q <= n + b0 + q9
      <4>1. q9 = q /\ n9 = n + 1
        BY <3>1
      <4> HIDE DEF q, n, k, a0, a1, b0, b1, q9, n9
      <4> QED BY <2>1, <3>2, <4>1
    <3> QED BY <1>3, <2>2, <3>1, <3>3, <3>4, CountsMove
  <2> QED BY <2>4, <2>5, <2>6
<1> QED BY <1>3, <1>4, <1>5 DEF ChatInv

-----------------------------------------------------------------------------
(* A turn that begins is kept.                                             *)
LEMMA IdleTurnKept ==
  /\ IdleTurn \in TurnTypes
  /\ IdleTurn.pc = "idle" /\ IdleTurn.c = 0 /\ ~IdleTurn.asked
  /\ \A ms : TurnKept(IdleTurn, ms)
BY DEF IdleTurn, TurnTypes, TurnPoints, TurnKept, AnswerComplete

Ended(t, outcome) ==
  [IdleTurn EXCEPT !.pc = outcome, !.c = turn[t].c, !.streams = turn[t].streams]

(* A turn that ended is kept.                                              *)
LEMMA EndedKept ==
  ASSUME ChatInv, NEW t \in Turns, NEW outcome \in TurnOutcomes, turn[t].pc # "idle"
  PROVE  /\ Ended(t, outcome) \in TurnTypes
         /\ Ended(t, outcome).pc = outcome /\ Ended(t, outcome).c = turn[t].c
         /\ TurnKept(Ended(t, outcome), marks)
<1>1. turn[t] \in TurnTypes /\ turn[t].c \in Conversations
  BY DEF ChatInv, ChatTypes, TurnKept
<1>2. turn[t].c \in Nat /\ turn[t].streams \in BOOLEAN /\ outcome \in TurnPoints
  BY <1>1 DEF TurnTypes, TurnPoints
<1> QED BY <1>1, <1>2 DEF Ended, IdleTurn, TurnTypes, TurnKept, AnswerComplete, TurnOutcomes

(* The invariant holds at first.                                           *)
LEMMA ChatInitInv == ChatInit => ChatInv
<1> SUFFICES ASSUME ChatInit PROVE ChatInv
  OBVIOUS
<1>1. ChatTypes
  BY IdleTurnKept, ChatAssumption DEF ChatInit, ChatTypes, ConversationTypes, ReadingTypes
<1>2. \A t \in Turns : TurnKept(turn[t], marks)
  BY IdleTurnKept DEF ChatInit
<1>3. ASSUME NEW c \in Conversations PROVE Counted(c)
  <2>1. AskingOf(c) = {} /\ AnsweringOf(c) = {}
    BY IdleTurnKept DEF ChatInit, AskingOf, AnsweringOf, AskingPoints, AnsweringPoints
  <2>2. Cardinality(AskingOf(c)) = 0 /\ Cardinality(AnsweringOf(c)) = 0
    BY <2>1, FS_EmptySet
  <2> QED BY <2>2 DEF ChatInit, Counted
<1> QED BY <1>1, <1>2, <1>3 DEF ChatInv

(* Turns stay where they are; what a conversation counts does not fall.    *)
LEMMA StillTurns ==
  ASSUME ChatInv, ChatTypes', \A u \in Turns : turn'[u].pc = turn[u].pc /\ turn'[u].c = turn[u].c,
         \A u \in Turns : TurnKept(turn'[u], marks'),
         chatUsed'.turns = chatUsed.turns,
         \A c \in Conversations :
           \/ /\ conversation'[c].questions = conversation[c].questions
              /\ conversation'[c].answers = conversation[c].answers
              /\ conversation'[c].status = "absent" => conversation[c].status = "absent"
           \/ conversation[c].status = "absent" /\ conversation'[c] = NewConversation
  PROVE  ChatInv'
<1>1. ASSUME NEW c \in Conversations PROVE Counted(c)'
  <2>1. AskingOf(c)' = AskingOf(c) /\ AnsweringOf(c)' = AnsweringOf(c)
    BY DEF AskingOf, AnsweringOf
  <2>2. Counted(c)
    BY DEF ChatInv
  <2>3. conversation'[c].questions = conversation[c].questions /\ conversation'[c].answers = conversation[c].answers
    BY <2>2 DEF Counted, NewConversation
  <2>4. conversation'[c].status = "absent" => conversation[c].status = "absent"
    BY DEF NewConversation
  <2> QED BY <2>1, <2>2, <2>3, <2>4 DEF Counted
<1> QED BY <1>1 DEF ChatInv

(* What is done to conversations and to what may be read keeps it.         *)
LEMMA ConversationsKeepInv ==
  ASSUME ChatInv,
         \/ CreateConversation \/ ChangeReading
         \/ \E c \in Conversations : ResetConversation(c) \/ DeleteConversation(c) \/ CancelConversation(c)
  PROVE  ChatInv'
<1>0. ChatTypes
  BY DEF ChatInv
<1>1. NewConversation \in ConversationTypes /\ NewConversation.status = "open"
  BY DEF NewConversation, ConversationTypes
<1>2. CASE CreateConversation
  <2>1. PICK c \in Conversations :
          /\ conversation[c].status = "absent"
          /\ conversation' = [conversation EXCEPT ![c] = NewConversation]
          /\ UNCHANGED <<marks, turn, reading, chatUsed>>
    BY <1>2 DEF CreateConversation
  <2>2. ChatTypes'
    BY <1>0, <1>1, <2>1 DEF ChatTypes
  <2>3. \A d \in Conversations : conversation'[d] = IF d = c THEN NewConversation ELSE conversation[d]
    BY <1>0, <2>1 DEF ChatTypes
  <2>4. \A u \in Turns : TurnKept(turn'[u], marks')
    BY <2>1 DEF ChatInv
  <2> QED BY <2>1, <2>2, <2>3, <2>4, StillTurns
<1>3. ASSUME NEW c \in Conversations, ResetConversation(c) PROVE ChatInv'
  <2>1. PICK d \in Conversations :
          /\ conversation[d].status = "absent"
          /\ conversation' = [conversation EXCEPT ![c].status = "reset", ![d] = NewConversation]
    BY <1>3 DEF ResetConversation
  <2>2. conversation[c] \in ConversationTypes /\ conversation[c].status = "open" /\ c # d
    BY <1>0, <1>3, <2>1 DEF ResetConversation, OpenConversation, ChatTypes
  <2> DEFINE shut == [conversation[c] EXCEPT !.status = "reset"]
  <2>3. /\ shut \in ConversationTypes
        /\ shut.questions = conversation[c].questions /\ shut.answers = conversation[c].answers
        /\ shut.status = "reset"
    BY <2>2 DEF ConversationTypes
  <2>4. conversation' = [[conversation EXCEPT ![c] = shut] EXCEPT ![d] = NewConversation]
    BY <2>1
  <2> HIDE DEF shut
  <2>5. /\ conversation' \in [Conversations -> ConversationTypes]
        /\ \A b \in Conversations :
             conversation'[b] = IF b = d THEN NewConversation ELSE IF b = c THEN shut ELSE conversation[b]
    BY <1>0, <1>1, <2>2, <2>3, <2>4 DEF ChatTypes
  <2>6. /\ turn' = [t \in Turns |-> IF turn[t].c = c /\ turn[t].asked
                                    THEN [turn[t] EXCEPT !.wiped = TRUE] ELSE turn[t]]
        /\ marks' = marks \ {c} /\ UNCHANGED <<reading, chatUsed>>
    BY <1>3 DEF ResetConversation
  <2>7. ASSUME NEW u \in Turns
        PROVE  /\ turn'[u] \in TurnTypes /\ TurnKept(turn'[u], marks')
               /\ turn'[u].pc = turn[u].pc /\ turn'[u].c = turn[u].c
    <3>1. turn[u] \in TurnTypes /\ TurnKept(turn[u], marks)
      BY <1>0 DEF ChatInv, ChatTypes
    <3>2. CASE turn[u].c = c /\ turn[u].asked
      <4> DEFINE x == [turn[u] EXCEPT !.wiped = TRUE]
      <4>1. x \in TurnTypes /\ TurnKept(x, marks') /\ x.pc = turn[u].pc /\ x.c = turn[u].c
        BY <3>1 DEF TurnTypes, TurnKept
      <4>2. turn'[u] = x
        BY <2>6, <3>2
      <4> QED BY <4>1, <4>2
    <3>3. CASE ~(turn[u].c = c /\ turn[u].asked)
      <4>1. turn'[u] = turn[u]
        BY <2>6, <3>3
      <4>2. TurnKept(turn[u], marks')
        BY <2>6, <3>1, <3>3 DEF TurnKept
      <4> QED BY <3>1, <4>1, <4>2
    <3> QED BY <3>2, <3>3
  <2>8. turn' \in [Turns -> TurnTypes]
    BY <2>6, <2>7
  <2>9. ChatTypes'
    BY <1>0, <2>5, <2>6, <2>8 DEF ChatTypes
  <2>10. chatUsed'.turns = chatUsed.turns
    BY <2>6
  <2> QED BY <2>1, <2>2, <2>3, <2>5, <2>7, <2>9, <2>10, StillTurns
<1>4. ASSUME NEW c \in Conversations, DeleteConversation(c) PROVE ChatInv'
  <2> DEFINE shut == [conversation[c] EXCEPT !.status = "deleted"]
  <2>1. conversation[c] \in ConversationTypes
    BY <1>0 DEF ChatTypes
  <2>2. /\ shut \in ConversationTypes
        /\ shut.questions = conversation[c].questions /\ shut.answers = conversation[c].answers
        /\ shut.status = "deleted"
    BY <2>1 DEF ConversationTypes
  <2>3. conversation' = [conversation EXCEPT ![c] = shut] /\ UNCHANGED <<marks, turn, reading, chatUsed>>
    BY <1>4 DEF DeleteConversation
  <2> HIDE DEF shut
  <2>4. ChatTypes'
    BY <1>0, <2>2, <2>3 DEF ChatTypes
  <2>5. \A d \in Conversations : conversation'[d] = IF d = c THEN shut ELSE conversation[d]
    BY <1>0, <2>3 DEF ChatTypes
  <2>6. \A u \in Turns : TurnKept(turn'[u], marks')
    BY <2>3 DEF ChatInv
  <2> QED BY <2>2, <2>3, <2>4, <2>5, <2>6, StillTurns
<1>5. ASSUME NEW c \in Conversations, CancelConversation(c) PROVE ChatInv'
  <2>1. /\ chatUsed' = [chatUsed EXCEPT !.cancels = @ + 1]
        /\ marks' = marks \cup {c}
        /\ turn' = [t \in Turns |-> IF turn[t].c = c /\ turn[t].pc \notin AnswerComplete
                                    THEN [turn[t] EXCEPT !.asked = TRUE] ELSE turn[t]]
        /\ UNCHANGED <<conversation, reading>>
    BY <1>5 DEF CancelConversation
  <2>2. ASSUME NEW u \in Turns
        PROVE  /\ turn'[u] \in TurnTypes /\ TurnKept(turn'[u], marks')
               /\ turn'[u].pc = turn[u].pc /\ turn'[u].c = turn[u].c
    <3>1. turn[u] \in TurnTypes /\ TurnKept(turn[u], marks)
      BY <1>0 DEF ChatInv, ChatTypes
    <3>2. CASE turn[u].c = c /\ turn[u].pc \notin AnswerComplete
      <4> DEFINE x == [turn[u] EXCEPT !.asked = TRUE]
      <4>1. x \in TurnTypes /\ TurnKept(x, marks') /\ x.pc = turn[u].pc /\ x.c = turn[u].c
        BY <2>1, <3>1, <3>2 DEF TurnTypes, TurnKept, AnswerComplete
      <4>2. turn'[u] = x
        BY <2>1, <3>2
      <4> QED BY <4>1, <4>2
    <3>3. CASE ~(turn[u].c = c /\ turn[u].pc \notin AnswerComplete)
      <4>1. turn'[u] = turn[u]
        BY <2>1, <3>3
      <4>2. TurnKept(turn[u], marks')
        BY <2>1, <3>1 DEF TurnKept
      <4> QED BY <3>1, <4>1, <4>2
    <3> QED BY <3>2, <3>3
  <2>3. turn' \in [Turns -> TurnTypes]
    BY <2>1, <2>2
  <2>4. chatUsed' \in [turns : 0..MaxTurns, cancels : Nat, changes : Nat] /\ chatUsed'.turns = chatUsed.turns
    BY <1>0, <2>1 DEF ChatTypes
  <2>5. ChatTypes'
    BY <1>0, <2>1, <2>3, <2>4 DEF ChatTypes
  <2> QED BY <2>1, <2>2, <2>4, <2>5, StillTurns
<1>6. CASE ChangeReading
  <2>1. /\ chatUsed' = [chatUsed EXCEPT !.changes = @ + 1] /\ UNCHANGED <<conversation, marks, turn>>
        /\ \/ reading' = [reading EXCEPT !.member = ~@]
           \/ \E v \in Versions : \/ reading' = [reading EXCEPT !.present = Toggle(@, v)]
                                  \/ reading' = [reading EXCEPT !.active = Toggle(@, v)]
                                  \/ reading' = [reading EXCEPT !.denied = Toggle(@, v)]
    BY <1>6 DEF ChangeReading
  <2>2. \A S \in SUBSET Versions, v \in Versions : Toggle(S, v) \in SUBSET Versions
    BY DEF Toggle
  <2>3. reading' \in ReadingTypes
    <3>1. CASE reading' = [reading EXCEPT !.member = ~@]
      BY <1>0, <3>1 DEF ChatTypes, ReadingTypes
    <3>2. ASSUME NEW v \in Versions,
                 \/ reading' = [reading EXCEPT !.present = Toggle(@, v)]
                 \/ reading' = [reading EXCEPT !.active = Toggle(@, v)]
                 \/ reading' = [reading EXCEPT !.denied = Toggle(@, v)]
          PROVE  reading' \in ReadingTypes
      <4>1. /\ reading \in ReadingTypes
            /\ reading.present \in SUBSET Versions /\ reading.active \in SUBSET Versions
            /\ reading.denied \in SUBSET Versions
        BY <1>0 DEF ChatTypes, ReadingTypes
      <4>2. /\ Toggle(reading.present, v) \in SUBSET Versions /\ Toggle(reading.active, v) \in SUBSET Versions
            /\ Toggle(reading.denied, v) \in SUBSET Versions
        BY <2>2, <4>1
      <4> QED BY <3>2, <4>1, <4>2 DEF ReadingTypes
    <3> QED BY <2>1, <3>1, <3>2
  <2>4. chatUsed' \in [turns : 0..MaxTurns, cancels : Nat, changes : Nat] /\ chatUsed'.turns = chatUsed.turns
    BY <1>0, <2>1 DEF ChatTypes
  <2>5. ChatTypes'
    BY <1>0, <2>1, <2>3, <2>4 DEF ChatTypes
  <2>6. \A u \in Turns : TurnKept(turn'[u], marks')
    BY <2>1 DEF ChatInv
  <2> QED BY <2>1, <2>4, <2>5, <2>6, StillTurns
<1> QED BY <1>2, <1>3, <1>4, <1>5, <1>6

(* Every step of a turn keeps it.                                          *)
LEMMA TurnsKeepInv ==
  ASSUME ChatInv, NEW t \in Turns, ReadState(t) \/ TurnStep(t)
  PROVE  ChatInv'
<1> DEFINE now == turn[t]
<1>0. /\ ChatTypes /\ now \in TurnTypes /\ TurnKept(now, marks)
      /\ conversation \in [Conversations -> ConversationTypes]
      /\ now.pc # "idle" => now.c \in Conversations
      /\ reading \in ReadingTypes
  BY DEF ChatInv, ChatTypes, TurnKept
<1>1. CASE ReadState(t)
  <2>1. PICK c \in Conversations, mode \in Modes :
          /\ OpenConversation(c)
          /\ turn' = [turn EXCEPT ![t] = [IdleTurn EXCEPT
               !.pc = "freeze", !.c = c, !.streams = mode.streams, !.notes = mode.notes]]
    BY <1>1 DEF ReadState
  <2>2. /\ chatUsed.turns < MaxTurns /\ chatUsed' = [chatUsed EXCEPT !.turns = @ + 1]
        /\ now.pc = "idle" /\ UNCHANGED <<conversation, marks, reading>>
    BY <1>1 DEF ReadState
  <2> DEFINE x == [IdleTurn EXCEPT !.pc = "freeze", !.c = c, !.streams = mode.streams, !.notes = mode.notes]
  <2>3. mode.streams \in BOOLEAN /\ mode.notes \in BOOLEAN /\ c \in Nat
    BY ChatAssumption DEF Conversations
  <2>4. x \in TurnTypes /\ TurnKept(x, marks) /\ x.pc = "freeze" /\ x.c = c
    BY <2>3 DEF IdleTurn, TurnTypes, TurnKept, TurnPoints, AskingPoints, TurnOutcomes
  <2>5. turn' = [turn EXCEPT ![t] = x]
    BY <2>1
  <2> HIDE DEF x
  <2>6. /\ turn' \in [Turns -> TurnTypes]
        /\ turn'[t] = x /\ \A u \in Turns : u # t => turn'[u] = turn[u]
    BY <1>0, <2>4, <2>5, OneTurnMoves
  <2>7. /\ chatUsed' \in [turns : 0..MaxTurns, cancels : Nat, changes : Nat]
        /\ chatUsed'.turns = chatUsed.turns + 1 /\ chatUsed.turns \in Nat
    BY <1>0, <2>2, ChatAssumption DEF ChatTypes
  <2>8. ChatTypes'
    BY <1>0, <2>2, <2>6, <2>7 DEF ChatTypes
  <2>9. \A u \in Turns : TurnKept(turn'[u], marks')
    BY <2>2, <2>4, <2>6 DEF ChatInv
  <2>10. ASSUME NEW d \in Conversations PROVE Counted(d)'
    <3> DEFINE q == conversation[d].questions
               n == conversation[d].answers
               k == chatUsed.turns
               a0 == One(Asks(turn[t], d))
               a1 == One(Asks(x, d))
               b0 == One(Answers(turn[t], d))
               b1 == One(Answers(x, d))
    <3>1. q \in Nat /\ n \in Nat /\ k \in Nat
      BY <1>0, ChatAssumption DEF ChatTypes, ConversationTypes
    <3>2. a0 = 0 /\ a1 \in {0, 1} /\ b0 = 0 /\ b1 = 0
      BY <2>2, <2>4 DEF One, Asks, Answers, AskingPoints, AnsweringPoints
    <3>3. q + a1 + k <= q + a0 + (k + 1) /\ n + b1 + q <= n + b0 + q
      <4> HIDE DEF q, n, k, a0, a1, b0, b1
      <4> QED BY <3>1, <3>2
    <3>4. conversation[d].status = "absent" => q = 0 /\ n = 0
      BY DEF ChatInv, Counted
    <3> QED BY <2>2, <2>4, <2>5, <2>7, <2>8, <3>3, <3>4, CountsMove
  <2> QED BY <2>8, <2>9, <2>10 DEF ChatInv
<1>2. CASE FreezeManifest(t)
  <2>1. now.pc = "freeze" /\ UNCHANGED <<conversation, marks, reading, chatUsed>>
    BY <1>2 DEF FreezeManifest
  <2>2. CASE now.notes /\ ~reading.member
    <3>1. turn' = [turn EXCEPT ![t] = IdleTurn]
      BY <1>2, <2>2 DEF FreezeManifest
    <3> QED BY <2>1, <3>1, IdleTurnKept, SilentTurn DEF AskingPoints, AnsweringPoints
  <2>3. CASE ~(now.notes /\ ~reading.member)
    <3> DEFINE m == ReadableVersions \cap reading.active
               x == [now EXCEPT !.pc = "append", !.manifest = m]
    <3>1. turn' = [turn EXCEPT ![t].pc = "append", ![t].manifest = m]
      BY <1>2, <2>3 DEF FreezeManifest
    <3>2. turn' = [turn EXCEPT ![t] = x]
      BY <3>1
    <3>3. m \in SUBSET Versions
      BY <1>0 DEF ReadingTypes
    <3> HIDE DEF m
    <3>4. x \in TurnTypes /\ x.pc = "append" /\ x.c = now.c
      BY <1>0, <3>3 DEF TurnTypes, TurnPoints, AskingPoints
    <3>5. TurnKept(x, marks)
      BY <1>0, <2>1, <3>3 DEF TurnKept, AnswerComplete, TurnOutcomes, AskingPoints, TurnTypes
    <3> HIDE DEF x
    <3> QED BY <2>1, <3>2, <3>4, <3>5, SilentTurn DEF AskingPoints, AnsweringPoints
  <2> QED BY <2>2, <2>3
<1>3. CASE AppendQuestion(t)
  <2>1. now.pc = "append" /\ now.c \in Conversations /\ UNCHANGED <<marks, reading, chatUsed>>
    BY <1>0, <1>3 DEF AppendQuestion
  <2>2. CASE MayAppend(now.c)
    <3> DEFINE at == IF now.manifest # {} THEN "lexical" ELSE IF now.notes THEN "generate" ELSE "abstain"
               x == [now EXCEPT !.pc = at]
               old == conversation[now.c]
               row == [old EXCEPT !.questions = @ + 1]
    <3>1. /\ conversation' = [conversation EXCEPT ![now.c] = row]
          /\ turn' = [turn EXCEPT ![t] = x]
      BY <1>3, <2>2 DEF AppendQuestion, TurnTo
    <3>2. at \in {"lexical", "generate", "abstain"}
      OBVIOUS
    <3>3. old \in ConversationTypes /\ old.status = "open"
      BY <1>0, <2>1, <2>2 DEF MayAppend, OpenConversation
    <3> HIDE DEF at, old
    <3>4. /\ row \in ConversationTypes /\ row.questions = old.questions + 1 /\ row.answers = old.answers
          /\ row.status = old.status
      BY <3>3 DEF ConversationTypes
    <3>5. x \in TurnTypes /\ x.pc \in AnsweringPoints /\ x.c = now.c
      BY <1>0, <3>2 DEF TurnTypes, TurnPoints, AnsweringPoints
    <3>6. TurnKept(x, marks)
      BY <1>0, <2>1, <3>2 DEF TurnKept, AnswerComplete, TurnOutcomes, AskingPoints, TurnTypes
    <3> HIDE DEF x, row
    <3>7. now.pc \in AskingPoints
      BY <2>1 DEF AskingPoints
    <3> QED BY <2>1, <3>1, <3>3, <3>4, <3>5, <3>6, <3>7, TalkingTurn DEF old
  <2>3. CASE ~MayAppend(now.c)
    <3>1. turn' = [turn EXCEPT ![t] = IdleTurn] /\ conversation' = conversation
      BY <1>3, <2>3 DEF AppendQuestion
    <3> QED BY <2>1, <3>1, IdleTurnKept, SilentTurn DEF AskingPoints, AnsweringPoints
  <2> QED BY <2>2, <2>3
<1>4. CASE SearchChunks(t)
  <2>1. now.pc \in {"lexical", "vector"} /\ UNCHANGED <<conversation, marks, reading, chatUsed>>
    BY <1>4 DEF SearchChunks
  <2>2. PICK hits \in SUBSET now.manifest :
          turn' = [turn EXCEPT
            ![t].rows = IF reading.member THEN hits \cap reading.present ELSE {},
            ![t].pc = IF now.pc = "lexical" THEN "lexical recheck" ELSE "vector recheck"]
    BY <1>4 DEF SearchChunks
  <2> DEFINE found == IF reading.member THEN hits \cap reading.present ELSE {}
             at == IF now.pc = "lexical" THEN "lexical recheck" ELSE "vector recheck"
             x == [now EXCEPT !.rows = found, !.pc = at]
  <2>3. turn' = [turn EXCEPT ![t] = x]
    BY <2>2
  <2>4. found \in SUBSET now.manifest /\ at \in {"lexical recheck", "vector recheck"}
    OBVIOUS
  <2> HIDE DEF found, at
  <2>5. x \in TurnTypes /\ x.pc \in AnsweringPoints /\ x.c = now.c
    BY <1>0, <2>4 DEF TurnTypes, TurnPoints, AnsweringPoints
  <2>6. TurnKept(x, marks)
    BY <1>0, <2>1, <2>4 DEF TurnKept, AnswerComplete, TurnOutcomes, AskingPoints, TurnTypes
  <2> HIDE DEF x
  <2>7. now.pc \in AnsweringPoints /\ x.pc \notin AskingPoints
    BY <2>1, <2>5 DEF AnsweringPoints, AskingPoints
  <2> QED BY <2>1, <2>3, <2>5, <2>6, <2>7, SilentTurn
<1>5. CASE PolicyRecheck(t)
  <2> DEFINE found == Fused(t)
             at == IF now.pc = "lexical recheck" THEN "vector"
                   ELSE IF found # {} \/ now.notes THEN "generate" ELSE "abstain"
             x == [now EXCEPT !.evidence = found, !.rows = {}, !.pc = at]
  <2>1. /\ now.pc \in {"lexical recheck", "vector recheck"} /\ UNCHANGED <<conversation, marks, reading, chatUsed>>
        /\ turn' = [turn EXCEPT ![t].evidence = found, ![t].rows = {}, ![t].pc = at]
    BY <1>5 DEF PolicyRecheck
  <2>2. turn' = [turn EXCEPT ![t] = x]
    BY <2>1
  <2>3. found \in SUBSET now.manifest /\ found \in SUBSET Versions /\ at \in {"vector", "generate", "abstain"}
    BY <1>0 DEF Fused, TurnKept, TurnTypes
  <2> HIDE DEF found, at
  <2>4. x \in TurnTypes /\ x.pc \in AnsweringPoints /\ x.c = now.c
    BY <1>0, <2>3 DEF TurnTypes, TurnPoints, AnsweringPoints
  <2>5. TurnKept(x, marks)
    BY <1>0, <2>1, <2>3 DEF TurnKept, AnswerComplete, TurnOutcomes, AskingPoints, TurnTypes
  <2> HIDE DEF x
  <2>6. now.pc \in AnsweringPoints /\ x.pc \notin AskingPoints
    BY <2>1, <2>4 DEF AnsweringPoints, AskingPoints
  <2> QED BY <2>1, <2>2, <2>4, <2>5, <2>6, SilentTurn
<1>6. ASSUME NEW outcome \in TurnOutcomes, EndTurn(t, outcome), now.pc \in AnsweringPoints,
             UNCHANGED <<marks, reading, chatUsed>>,
             \/ UNCHANGED conversation
             \/ conversation' = [conversation EXCEPT ![now.c].answers = @ + 1]
      PROVE  ChatInv'
  <2> DEFINE x == Ended(t, outcome)
             old == conversation[now.c]
             row == [old EXCEPT !.answers = @ + 1]
  <2>1. turn' = [turn EXCEPT ![t] = x]
    BY <1>6 DEF EndTurn, Ended
  <2>2. now.pc # "idle"
    BY <1>6 DEF AnsweringPoints
  <2>3. /\ x \in TurnTypes /\ x.pc \in TurnOutcomes /\ x.c = now.c /\ TurnKept(x, marks)
        /\ now.c \in Conversations
    BY <1>0, <1>6, <2>2, EndedKept
  <2>4. x.pc \notin AskingPoints /\ x.pc \notin AnsweringPoints
    BY <2>3 DEF TurnOutcomes, AskingPoints, AnsweringPoints
  <2> HIDE DEF x
  <2>5. CASE UNCHANGED conversation
    BY <1>6, <2>1, <2>3, <2>4, <2>5, SilentTurn
  <2>6. CASE conversation' = [conversation EXCEPT ![now.c].answers = @ + 1]
    <3>1. conversation' = [conversation EXCEPT ![now.c] = row]
      BY <2>6
    <3>2. old \in ConversationTypes
      BY <1>0, <2>3
    <3> HIDE DEF old
    <3>3. /\ row \in ConversationTypes /\ row.questions = old.questions /\ row.answers = old.answers + 1
          /\ row.status = old.status
      BY <3>2 DEF ConversationTypes
    <3> HIDE DEF row
    <3> QED BY <1>6, <2>1, <2>3, <3>1, <3>3, TalkingTurn DEF old
  <2> QED BY <1>6, <2>5, <2>6
<1>7. CASE AbstainTurn(t) \/ TokenCancelled(t) \/ GenerationBreaks(t)
  BY <1>6, <1>7 DEF AbstainTurn, TokenCancelled, GenerationBreaks, TurnOutcomes, AnsweringPoints
<1>8. CASE PublishAnswer(t)
  <2>1. now.pc \in AnsweringPoints /\ "answered" \in TurnOutcomes /\ "refused" \in TurnOutcomes
    BY <1>8 DEF PublishAnswer, AnsweringPoints, TurnOutcomes
  <2> QED BY <1>6, <1>8, <2>1 DEF PublishAnswer
<1>9. CASE DraftComplete(t)
  <2>1. /\ now.pc = "generate" /\ ~Cancelled(t) /\ UNCHANGED <<conversation, marks, reading, chatUsed>>
        /\ \/ \E cites \in SUBSET Versions : turn' = [turn EXCEPT ![t].pc = "publish", ![t].cites = cites]
           \/ turn' = [turn EXCEPT ![t].pc = "abstain"]
    BY <1>9 DEF DraftComplete, TurnTo
  <2>2. now.pc \in AnsweringPoints
    BY <2>1 DEF AnsweringPoints
  <2>3. ASSUME NEW cites \in SUBSET Versions, turn' = [turn EXCEPT ![t].pc = "publish", ![t].cites = cites]
        PROVE  ChatInv'
    <3> DEFINE x == [now EXCEPT !.pc = "publish", !.cites = cites]
    <3>1. turn' = [turn EXCEPT ![t] = x]
      BY <2>3
    <3>2. x \in TurnTypes /\ x.pc = "publish" /\ x.c = now.c
      BY <1>0 DEF TurnTypes, TurnPoints, AnsweringPoints
    <3>3. TurnKept(x, marks)
      <4>1. now.streams => now.c \notin marks
        BY <2>1 DEF Cancelled
      <4> QED BY <1>0, <2>1, <4>1 DEF TurnKept, AnswerComplete, TurnOutcomes, AskingPoints, TurnTypes
    <3> HIDE DEF x
    <3> QED BY <2>1, <2>2, <3>1, <3>2, <3>3, SilentTurn DEF AskingPoints
  <2>4. CASE turn' = [turn EXCEPT ![t].pc = "abstain"]
    <3> DEFINE x == [now EXCEPT !.pc = "abstain"]
    <3>1. turn' = [turn EXCEPT ![t] = x]
      BY <2>4
    <3>2. x \in TurnTypes /\ x.pc = "abstain" /\ x.c = now.c
      BY <1>0 DEF TurnTypes, TurnPoints, AnsweringPoints
    <3>3. TurnKept(x, marks)
      BY <1>0, <2>1 DEF TurnKept, AnswerComplete, TurnOutcomes, AskingPoints, TurnTypes
    <3> HIDE DEF x
    <3> QED BY <2>1, <2>2, <3>1, <3>2, <3>3, SilentTurn DEF AskingPoints
  <2> QED BY <2>1, <2>3, <2>4
<1>10. CASE ConcludeTurn(t)
  <2>1. /\ now.pc \in TurnOutcomes
        /\ marks' = IF now.streams THEN marks \ {now.c} ELSE marks
        /\ turn' = [u \in Turns |->
             IF u = t THEN IdleTurn
             ELSE IF now.streams /\ turn[u].c = now.c /\ turn[u].asked
             THEN [turn[u] EXCEPT !.wiped = TRUE]
             ELSE turn[u]]
        /\ UNCHANGED <<conversation, reading, chatUsed>>
    BY <1>10 DEF ConcludeTurn
  <2>2. ASSUME NEW u \in Turns
        PROVE  /\ turn'[u] \in TurnTypes /\ TurnKept(turn'[u], marks')
               /\ u # t => turn'[u].pc = turn[u].pc /\ turn'[u].c = turn[u].c
               /\ u = t => turn'[u] = IdleTurn
    <3>1. turn[u] \in TurnTypes /\ TurnKept(turn[u], marks)
      BY <1>0 DEF ChatInv, ChatTypes
    <3>2. CASE u = t
      BY <2>1, <3>2, IdleTurnKept
    <3>3. CASE u # t /\ now.streams /\ turn[u].c = now.c /\ turn[u].asked
      <4> DEFINE x == [turn[u] EXCEPT !.wiped = TRUE]
      <4>1. x \in TurnTypes /\ TurnKept(x, marks') /\ x.pc = turn[u].pc /\ x.c = turn[u].c
        BY <3>1 DEF TurnTypes, TurnKept
      <4>2. turn'[u] = x
        BY <2>1, <3>3
      <4> QED BY <3>3, <4>1, <4>2
    <3>4. CASE u # t /\ ~(now.streams /\ turn[u].c = now.c /\ turn[u].asked)
      <4>1. turn'[u] = turn[u]
        BY <2>1, <3>4
      <4>2. TurnKept(turn[u], marks')
        BY <2>1, <3>1, <3>4 DEF TurnKept
      <4> QED BY <3>1, <3>4, <4>1, <4>2
    <3> QED BY <3>2, <3>3, <3>4
  <2>3. turn' \in [Turns -> TurnTypes]
    BY <2>1, <2>2
  <2>4. ChatTypes'
    BY <1>0, <2>1, <2>3 DEF ChatTypes
  <2>5. ASSUME NEW c \in Conversations PROVE Counted(c)'
    <3>1. now.pc \notin AskingPoints /\ now.pc \notin AnsweringPoints
      BY <2>1 DEF TurnOutcomes, AskingPoints, AnsweringPoints
    <3>2. IdleTurn.pc \notin AskingPoints /\ IdleTurn.pc \notin AnsweringPoints
      BY IdleTurnKept DEF AskingPoints, AnsweringPoints
    <3>3. AskingOf(c)' = AskingOf(c) /\ AnsweringOf(c)' = AnsweringOf(c)
      BY <2>2, <3>1, <3>2 DEF AskingOf, AnsweringOf
    <3>4. Counted(c)
      BY DEF ChatInv
    <3> QED BY <2>1, <3>3, <3>4 DEF Counted
  <2> QED BY <2>2, <2>4, <2>5 DEF ChatInv
<1> QED BY <1>1, <1>2, <1>3, <1>4, <1>5, <1>7, <1>8, <1>9, <1>10 DEF TurnStep

(* So every step does.                                                     *)
LEMMA ChatStepInv == ChatInv /\ [ChatNext]_chatVars => ChatInv'
<1> SUFFICES ASSUME ChatInv, [ChatNext]_chatVars PROVE ChatInv'
  OBVIOUS
<1>1. CASE UNCHANGED chatVars
  BY <1>1 DEF chatVars, ChatInv, ChatTypes, Counted, AskingOf, AnsweringOf
<1> QED BY <1>1, ConversationsKeepInv, TurnsKeepInv DEF ChatNext

(* It is an invariant of the specification.                                *)
LEMMA ChatInvariant == ChatSpec => []ChatInv
BY ChatInitInv, ChatStepInv, PTL DEF ChatSpec

(* For any number of turns at once, versions and conversations: a turn     *)
(* cancelled before its answer was complete publishes nothing unless its   *)
(* mark was taken away, an answer cites only what may be read when it      *)
(* appears, every answer belongs to a question and a closed conversation   *)
(* is asked nothing more (GenerateChatTurn, PgChatStore.publish).          *)
THEOREM ChatSafety == ChatSpec => ChatSafe
<1>1. ChatInv => ChatTypeOK
  <2> SUFFICES ASSUME ChatInv PROVE ChatTypeOK
    OBVIOUS
  <2>1. ASSUME NEW c \in Conversations
        PROVE  /\ conversation[c].status \in {"absent", "open", "reset", "deleted"}
               /\ conversation[c].questions \in 0..MaxTurns /\ conversation[c].answers \in 0..MaxTurns
    <3> DEFINE q == conversation[c].questions
               n == conversation[c].answers
               a == Cardinality(AskingOf(c))
               b == Cardinality(AnsweringOf(c))
               k == chatUsed.turns
    <3>1. conversation[c].status \in {"absent", "open", "reset", "deleted"} /\ q \in Nat /\ n \in Nat
      BY DEF ChatInv, ChatTypes, ConversationTypes
    <3>2. k \in Nat /\ k <= MaxTurns /\ MaxTurns \in Nat /\ a \in Nat /\ b \in Nat
      BY ChatAssumption, TurnsAreFinite DEF ChatInv, ChatTypes
    <3>3. q + a <= k /\ n + b <= q
      BY DEF ChatInv, Counted
    <3> HIDE DEF q, n, a, b, k
    <3>4. q \in 0..MaxTurns /\ n \in 0..MaxTurns
      BY <3>1, <3>2, <3>3
    <3> QED BY <3>1, <3>4 DEF q, n
  <2>2. ASSUME NEW t \in Turns
        PROVE  /\ turn[t].evidence \subseteq turn[t].manifest /\ turn[t].manifest \subseteq Versions
               /\ turn[t].pc \in {"idle"} \cup TurnOutcomes => turn[t].evidence \cup turn[t].cites = {}
    <3>1. TurnKept(turn[t], marks) /\ turn[t] \in TurnTypes
      BY DEF ChatInv, ChatTypes
    <3> QED BY <3>1 DEF TurnKept, TurnTypes
  <2>3. reading.present \cup reading.active \cup reading.denied \subseteq Versions
    BY DEF ChatInv, ChatTypes, ReadingTypes
  <2> QED BY <2>1, <2>2, <2>3 DEF ChatTypeOK, ChatInv, ChatTypes
<1>2. ChatInv => CancelHeeded
  BY DEF ChatInv, TurnKept, CancelHeeded
<1>3. ChatInv /\ ChatInv' /\ [ChatNext]_chatVars => [ \A t \in Turns :
        turn[t].pc = "publish" /\ turn'[t].pc = "answered"
          => /\ turn[t].cites \subseteq turn[t].evidence \cap ReadableVersions
             /\ turn[t].notes => reading.member]_chatVars
  <2> SUFFICES ASSUME ChatInv, ChatNext, NEW t \in Turns, turn[t].pc = "publish", turn'[t].pc = "answered"
               PROVE  /\ turn[t].cites \subseteq turn[t].evidence \cap ReadableVersions
                      /\ turn[t].notes => reading.member
    OBVIOUS
  <2>0. turn \in [Turns -> TurnTypes]
    BY DEF ChatInv, ChatTypes
  <2>1. PICK u \in Turns : ReadState(u) \/ TurnStep(u)
    <3>1. ASSUME \/ CreateConversation \/ ChangeReading
                 \/ \E c \in Conversations : ResetConversation(c) \/ DeleteConversation(c) \/ CancelConversation(c)
          PROVE  turn'[t].pc = turn[t].pc
      BY <2>0, <3>1 DEF CreateConversation, ChangeReading, ResetConversation, DeleteConversation,
                        CancelConversation, TurnTypes
    <3> QED BY <3>1 DEF ChatNext
  <2>2. u = t
    <3>1. ASSUME u # t PROVE turn'[t].pc = turn[t].pc
      <4>1. CASE ConcludeTurn(u)
        BY <2>0, <3>1, <4>1 DEF ConcludeTurn, TurnTypes
      <4>2. CASE ~ConcludeTurn(u)
        <5>1. turn'[t] = turn[t]
          BY <2>0, <2>1, <3>1, <4>2 DEF ReadState, TurnStep, FreezeManifest, AppendQuestion, SearchChunks,
             PolicyRecheck, AbstainTurn, TokenCancelled, DraftComplete, GenerationBreaks, PublishAnswer,
             EndTurn, TurnTo
        <5> QED BY <5>1
      <4> QED BY <4>1, <4>2
    <3> QED BY <3>1
  <2>3. PublishAnswer(t)
    BY <2>1, <2>2 DEF ReadState, TurnStep, FreezeManifest, AppendQuestion, SearchChunks, PolicyRecheck,
       AbstainTurn, TokenCancelled, DraftComplete, GenerationBreaks, ConcludeTurn, TurnOutcomes
  <2>4. AnswerValid(t)
    <3>1. CASE ~AnswerValid(t)
      <4>1. turn' = [turn EXCEPT ![t] = Ended(t, "refused")]
        BY <2>3, <3>1 DEF PublishAnswer, EndTurn, Ended
      <4>2. Ended(t, "refused").pc = "refused"
        BY EndedKept DEF TurnOutcomes
      <4> QED BY <2>0, <4>1, <4>2
    <3> QED BY <3>1
  <2> QED BY <2>4 DEF AnswerValid
<1>4. ChatInv /\ ChatInv' /\ [ChatNext]_chatVars => [ \A c \in Conversations :
        /\ conversation'[c].answers <= conversation'[c].questions
        /\ conversation[c].status \in {"reset", "deleted"}
             => conversation'[c].questions = conversation[c].questions]_chatVars
  <2> SUFFICES ASSUME ChatInv, ChatInv', ChatNext, NEW c \in Conversations
               PROVE  /\ conversation'[c].answers <= conversation'[c].questions
                      /\ conversation[c].status \in {"reset", "deleted"}
                            => conversation'[c].questions = conversation[c].questions
    OBVIOUS
  <2>1. conversation'[c].answers <= conversation'[c].questions
    <3> DEFINE q == conversation'[c].questions
               n == conversation'[c].answers
               b == Cardinality(AnsweringOf(c)')
    <3>1. q \in Nat /\ n \in Nat
      BY DEF ChatInv, ChatTypes, ConversationTypes
    <3>2. b \in Nat
      <4>1. AnsweringOf(c)' \subseteq Turns
        BY DEF AnsweringOf
      <4> QED BY <4>1, ChatAssumption, FS_Subset, FS_CardinalityType
    <3>3. n + b <= q
      BY DEF ChatInv, Counted
    <3> HIDE DEF q, n, b
    <3>4. n <= q
      BY <3>1, <3>2, <3>3
    <3> QED BY <3>4 DEF q, n
  <2>2. ASSUME conversation[c].status \in {"reset", "deleted"}
        PROVE  conversation'[c].questions = conversation[c].questions
    <3>0. conversation \in [Conversations -> ConversationTypes]
      BY DEF ChatInv, ChatTypes
    <3>1. ASSUME NEW t \in Turns, AppendQuestion(t) PROVE conversation'[c].questions = conversation[c].questions
      <4>1. CASE MayAppend(turn[t].c)
        <5>1. turn[t].c # c
          BY <2>2, <4>1 DEF MayAppend, OpenConversation
        <5> QED BY <3>0, <3>1, <4>1, <5>1 DEF AppendQuestion
      <4>2. CASE ~MayAppend(turn[t].c)
        BY <3>1, <4>2 DEF AppendQuestion
      <4> QED BY <4>1, <4>2
    <3>2. ASSUME NEW t \in Turns, ReadState(t) \/ TurnStep(t), ~AppendQuestion(t)
          PROVE  conversation'[c].questions = conversation[c].questions
      <4>1. \/ conversation' = conversation
            \/ conversation' = [conversation EXCEPT ![turn[t].c].answers = @ + 1]
        BY <3>2 DEF ReadState, TurnStep, FreezeManifest, SearchChunks, PolicyRecheck, AbstainTurn,
           TokenCancelled, DraftComplete, GenerationBreaks, PublishAnswer, ConcludeTurn
      <4> QED BY <3>0, <4>1 DEF ConversationTypes
    <3>3. CASE CreateConversation \/ ChangeReading
      BY <2>2, <3>0, <3>3 DEF CreateConversation, ChangeReading
    <3>4. ASSUME NEW d \in Conversations, ResetConversation(d) \/ DeleteConversation(d) \/ CancelConversation(d)
          PROVE  conversation'[c].questions = conversation[c].questions
      BY <2>2, <3>0, <3>4 DEF ResetConversation, DeleteConversation, CancelConversation, ConversationTypes
    <3> QED BY <3>1, <3>2, <3>3, <3>4 DEF ChatNext
  <2> QED BY <2>1, <2>2
<1> QED BY <1>1, <1>2, <1>3, <1>4, ChatInvariant, PTL
        DEF ChatSpec, ChatSafe, CitedIsReadable, ClosedGainsNoQuestion
=============================================================================
