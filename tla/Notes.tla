-------------------------------- MODULE Notes --------------------------------
(***************************************************************************)
(* One editable note: its immutable revisions, kept by the server, and the *)
(* editors that show and change it in the web client                       *)
(* (application/note_lifecycle.py, adapters/note_store.py, api/note_*.py,  *)
(* web/components/NotesPanel.tsx and note-blocks.ts).                      *)
(*                                                                         *)
(* The ETag of the note is the number of its current revision.  A client   *)
(* asks for the note and for its revisions by two queries, each refetched  *)
(* on its own at any time: after a save, on focus, when it is stale.       *)
(***************************************************************************)
EXTENDS Naturals, Sequences

CONSTANTS
  Editors,      \* open NoteDetail panels, each in a browser tab
  Contents,     \* what can be written into the note
  Blank,        \* {blocks: []}
  MaxRevisions  \* bound on the revisions of the note

ASSUME NotesAssumption == MaxRevisions \in Nat \ {0} /\ Blank \in Contents

VARIABLES
  revisions,    \* note_revisions of the note, in order; the last one is current
  editor,       \* what each client has fetched, drafted and sent
  replaced      \* per new revision: what its draft was made from (history)

notesVars == <<revisions, editor, replaced>>

-----------------------------------------------------------------------------
CurrentNumber == Len(revisions)

(* The revision the note query names, if the revisions query has it.       *)
Found(seen, listed) == seen > 0 /\ seen <= listed

ShownContent(seen, listed) == IF Found(seen, listed) THEN revisions[seen] ELSE Blank

ShownTo(e) == ShownContent(editor[e].seen, editor[e].listed)

ClosedEditor == [seen |-> 0, listed |-> 0, editing |-> FALSE,
                 baseline |-> Blank, draft |-> Blank,
                 pc |-> "idle",       \* idle, sent, answered
                 etag |-> 0, body |-> Blank, from |-> Blank, knew |-> FALSE,
                 result |-> "none"]

(* Rendering with new data: the draft starts anew when what is shown has   *)
(* changed, and is kept otherwise.                                         *)
Rendered(e, seen, listed) ==
  LET shown == ShownContent(seen, listed)
  IN  IF shown = editor[e].baseline
      THEN [editor[e] EXCEPT !.seen = seen, !.listed = listed]
      ELSE [editor[e] EXCEPT !.seen = seen, !.listed = listed, !.baseline = shown, !.draft = shown]

(* getNote and listNoteRevisions.                                          *)
FetchNote(e) ==
  /\ editor' = [editor EXCEPT ![e] = Rendered(e, CurrentNumber, editor[e].listed)]
  /\ UNCHANGED <<revisions, replaced>>

FetchRevisions(e) ==
  /\ editor' = [editor EXCEPT ![e] = Rendered(e, editor[e].seen, CurrentNumber)]
  /\ UNCHANGED <<revisions, replaced>>

-----------------------------------------------------------------------------
(* The editor of the panel.                                                *)

OpenEditor(e) ==
  /\ editor[e].seen > 0 /\ ~editor[e].editing
  /\ editor' = [editor EXCEPT ![e].editing = TRUE]
  /\ UNCHANGED <<revisions, replaced>>

TypeDraft(e) ==
  /\ editor[e].editing /\ editor[e].pc = "idle"
  /\ \E c \in Contents : editor' = [editor EXCEPT ![e].draft = c]
  /\ UNCHANGED <<revisions, replaced>>

CancelEdit(e) ==
  /\ editor[e].editing /\ editor[e].pc = "idle"
  /\ editor' = [editor EXCEPT ![e].editing = FALSE, ![e].draft = ShownTo(e), ![e].baseline = ShownTo(e)]
  /\ UNCHANGED <<revisions, replaced>>

(* Save new revision: the draft and the ETag shown with it.                *)
SubmitEdit(e) ==
  /\ editor[e].editing /\ editor[e].pc = "idle"
  /\ editor[e].draft # ShownTo(e)
  /\ editor' = [editor EXCEPT
       ![e].pc = "sent", ![e].etag = editor[e].seen, ![e].body = editor[e].draft,
       ![e].from = editor[e].baseline,
       ![e].knew = Found(editor[e].seen, editor[e].listed)]
  /\ UNCHANGED <<revisions, replaced>>

-----------------------------------------------------------------------------
(* edit_note: EditNote reads the note, which it finds editable, then       *)
(* append_revision locks it: a stale ETag is a conflict, and content equal *)
(* to the current one is answered with the current revision.               *)
EtagIgnored(etag) == TRUE                                 \* mutated form
EtagCurrent(etag) == etag = CurrentNumber

AlwaysNew(content) == FALSE                               \* mutated form
SameContent(content) == content = revisions[CurrentNumber]

AppendRevision(e) ==
  /\ editor[e].pc = "sent"
  /\ \/ /\ ~EtagCurrent(editor[e].etag)
        /\ editor' = [editor EXCEPT ![e].pc = "answered", ![e].result = "conflict"]
        /\ UNCHANGED <<revisions, replaced>>
     \/ /\ EtagCurrent(editor[e].etag) /\ SameContent(editor[e].body)
        /\ editor' = [editor EXCEPT ![e].pc = "answered", ![e].result = "saved"]
        /\ UNCHANGED <<revisions, replaced>>
     \/ /\ EtagCurrent(editor[e].etag) /\ ~SameContent(editor[e].body)
        /\ CurrentNumber < MaxRevisions
        /\ revisions' = Append(revisions, editor[e].body)
        /\ replaced' = Append(replaced, [knew |-> editor[e].knew, from |-> editor[e].from])
        /\ editor' = [editor EXCEPT ![e].pc = "answered", ![e].result = "saved"]

(* The answer, or an error in its place: a save that failed for the client *)
(* may have succeeded.  Either way both queries are then refetched.        *)
HandleResult(e) ==
  /\ editor[e].pc = "answered"
  /\ \E result \in {editor[e].result, "failed"} :
       editor' = [editor EXCEPT
         ![e].pc = "idle", ![e].editing = @ /\ result # "saved",
         ![e].etag = 0, ![e].body = Blank, ![e].from = Blank, ![e].knew = FALSE,
         ![e].result = "none"]
  /\ UNCHANGED <<revisions, replaced>>

(* The request never reaches the server.                                   *)
RequestLost(e) ==
  /\ editor[e].pc = "sent"
  /\ editor' = [editor EXCEPT ![e].pc = "answered", ![e].result = "failed"]
  /\ UNCHANGED <<revisions, replaced>>

-----------------------------------------------------------------------------
(* The note is created with its first revision.                            *)
NotesInit ==
  /\ \E c \in Contents \ {Blank} : revisions = <<c>>
  /\ editor = [e \in Editors |-> ClosedEditor]
  /\ replaced = << >>

EditorStep(e) ==
  \/ FetchNote(e) \/ FetchRevisions(e) \/ OpenEditor(e) \/ TypeDraft(e) \/ CancelEdit(e)
  \/ SubmitEdit(e) \/ AppendRevision(e) \/ HandleResult(e) \/ RequestLost(e)

NotesNext == \E e \in Editors : EditorStep(e)

NotesSpec == NotesInit /\ [][NotesNext]_notesVars

-----------------------------------------------------------------------------
(* Properties.                                                             *)

(* Types of the revisions and of what the editors hold.                    *)
NotesTypeOK ==
  /\ revisions \in Seq(Contents) /\ CurrentNumber \in 1..MaxRevisions
  /\ Len(replaced) = CurrentNumber - 1
  /\ \A e \in Editors :
       /\ editor[e].seen \in 0..CurrentNumber /\ editor[e].listed \in 0..CurrentNumber
       /\ {editor[e].baseline, editor[e].draft, editor[e].body} \subseteq Contents

(* An accepted save whose editor had found the revision of its ETag when   *)
(* it was sent replaces the content the draft was made from: no revision   *)
(* of another editor goes unseen, however queries, saves and lost answers  *)
(* interleave.  A note refetched before its revisions is the exception: it *)
(* is shown empty, and a save then replaces what was never seen.           *)
SaveKeepsOthers ==
  \A i \in 1..Len(replaced) : replaced[i].knew => replaced[i].from = revisions[i]

(* A save that is repeated, because its answer was lost or the editor was  *)
(* shown less than there is, never makes a second revision of one content. *)
NoRevisionRepeats == \A i \in 1..(CurrentNumber - 1) : revisions[i] # revisions[i + 1]

(* What saving a note may not do, together: replace what its author never  *)
(* saw, or make one revision twice.                                        *)
NotesSafe ==
  /\ SaveKeepsOthers
  /\ NoRevisionRepeats
=============================================================================
