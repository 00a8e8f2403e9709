----------------------------- MODULE MCNotebook -----------------------------
(***************************************************************************)
(* Small instances of what the people of a notebook do: chat, notes, study *)
(* state, bringing a source in, and owning the notebook.  The components   *)
(* share no variable here, so a behaviour takes the steps of one of them,  *)
(* the one in focus, and leaves the others at their start.                 *)
(***************************************************************************)
EXTENDS TLC, GroundedChat, Notes, StudyExport, SourceIngest, Accounts

(* Two of whatever acts: turns, editors, requests, workers.                *)
CONSTANTS a1, a2

VARIABLE focus

vars == <<focus, chatVars, notesVars, studyVars, ingestVars, accountsVars>>

ActorSymmetry == Permutations({a1, a2})

-----------------------------------------------------------------------------
(* The stream route without notes, and the plain one with a note.          *)
BothModes == {[streams |-> TRUE, notes |-> FALSE], [streams |-> FALSE, notes |-> TRUE]}

(* People are alike, and so are notebooks and contents: of the beginnings  *)
(* that differ by a renaming of them, one.                                 *)
OneInstallation ==
  /\ \A p \in People : accounts[p].admin => p = "p1"
  /\ \A n \in Notebooks : custody[n] # Unmade => custody[n] = OwnedBy("p2") /\ n = "n1"

Init ==
  /\ focus \in {"chat", "notes", "study", "ingest", "accounts"}
  /\ ChatInit /\ NotesInit /\ StudyInit /\ IngestInit /\ AccountsInit
  /\ revisions = <<"a">>
  /\ focus # "accounts" => \A p \in People : accounts[p].status = "absent"
  /\ OneInstallation

Next ==
  \/ /\ focus = "chat" /\ ChatNext
     /\ UNCHANGED <<focus, notesVars, studyVars, ingestVars, accountsVars>>
  \/ /\ focus = "notes" /\ NotesNext
     /\ UNCHANGED <<focus, chatVars, studyVars, ingestVars, accountsVars>>
  \/ /\ focus = "study" /\ StudyNext
     /\ UNCHANGED <<focus, chatVars, notesVars, ingestVars, accountsVars>>
  \/ /\ focus = "ingest" /\ IngestNext
     /\ UNCHANGED <<focus, chatVars, notesVars, studyVars, accountsVars>>
  \/ /\ focus = "accounts" /\ AccountsNext
     /\ UNCHANGED <<focus, chatVars, notesVars, studyVars, ingestVars>>

Spec == Init /\ [][Next]_vars
=============================================================================
