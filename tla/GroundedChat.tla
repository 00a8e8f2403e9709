----------------------------- MODULE GroundedChat -----------------------------
(***************************************************************************)
(* Private conversations: a turn freezes what it may use, retrieves,       *)
(* streams the answer of the provider and publishes it with citations      *)
(* (application/chat.py, grounding.py and retrieval.py, adapters/chat.py,  *)
(* grounding.py, grounding_completion.py and indexing/pg_retrieval.py,     *)
(* api/conversation_routes.py).                                            *)
(*                                                                         *)
(* All conversations belong to one actor.  Every action is one transaction *)
(* or one access to the set of cancellations, which is kept in the memory  *)
(* of the API process under a lock.                                        *)
(***************************************************************************)
EXTENDS Naturals, FiniteSets

CONSTANTS
  Turns,              \* turns in progress at a time: tabs of the actor
  Versions,           \* source versions of the notebook, with a ready index
  Modes,              \* [streams, notes]: the route called, and whether notes are selected
  MaxConversations, MaxTurns, MaxCancelRequests, MaxReadChanges   \* bounds

ASSUME ChatAssumption ==
  /\ IsFiniteSet(Turns)
  /\ Modes \subseteq [streams : BOOLEAN, notes : BOOLEAN]
  /\ MaxConversations \in Nat /\ MaxTurns \in Nat
  /\ MaxCancelRequests \in Nat /\ MaxReadChanges \in Nat

VARIABLES
  conversation,  \* conversations, each with its messages counted
  marks,         \* the conversations with a cancellation mark
  turn,          \* what each turn has read and where it stands
  reading,       \* what the actor may read
  chatUsed       \* how much of each bound is used up

chatVars == <<conversation, marks, turn, reading, chatUsed>>

-----------------------------------------------------------------------------
Conversations == 1..MaxConversations

IdleTurn == [pc |-> "idle", c |-> 0, streams |-> FALSE, notes |-> FALSE, manifest |-> {},
             rows |-> {}, evidence |-> {}, cites |-> {},
             asked |-> FALSE,  \* a cancellation came before the answer was complete
             wiped |-> FALSE]  \* and something else than this turn removed its mark

OpenConversation(c) == conversation[c].status = "open"

TurnTo(t, at) == turn' = [turn EXCEPT ![t].pc = at]

(* The turn leaves its try block, with nothing left to do but to conclude. *)
EndTurn(t, outcome) ==
  turn' = [turn EXCEPT ![t] = [IdleTurn EXCEPT
    !.pc = outcome, !.c = turn[t].c, !.streams = turn[t].streams]]

TurnOutcomes == {"answered", "refused", "cancelled", "broken"}

(* _can_read, and what the source itself allows.                           *)
ReadableVersions == IF reading.member THEN reading.present \ reading.denied ELSE {}

-----------------------------------------------------------------------------
(* Conversations.                                                          *)

NewConversation == [status |-> "open", questions |-> 0, answers |-> 0]

CreateConversation ==
  \E c \in Conversations :
    /\ conversation[c].status = "absent"
    /\ \A d \in Conversations : d < c => conversation[d].status # "absent"
    /\ conversation' = [conversation EXCEPT ![c] = NewConversation]
    /\ UNCHANGED <<marks, turn, reading, chatUsed>>

(* The conversation is closed, a new one takes its place and its mark goes.*)
ResetConversation(c) ==
  /\ OpenConversation(c)
  /\ \E d \in Conversations :
       /\ conversation[d].status = "absent"
       /\ \A b \in Conversations : b < d => conversation[b].status # "absent"
       /\ conversation' = [conversation EXCEPT ![c].status = "reset", ![d] = NewConversation]
  /\ marks' = marks \ {c}
  /\ turn' = [t \in Turns |-> IF turn[t].c = c /\ turn[t].asked
                              THEN [turn[t] EXCEPT !.wiped = TRUE] ELSE turn[t]]
  /\ UNCHANGED <<reading, chatUsed>>

DeleteConversation(c) ==
  /\ OpenConversation(c)
  /\ conversation' = [conversation EXCEPT ![c].status = "deleted"]
  /\ UNCHANGED <<marks, turn, reading, chatUsed>>

(* A mark on the conversation, whether or not a turn is in progress.       *)
AnswerComplete == {"idle", "publish"} \cup TurnOutcomes

CancelConversation(c) ==
  /\ OpenConversation(c) /\ chatUsed.cancels < MaxCancelRequests
  /\ chatUsed' = [chatUsed EXCEPT !.cancels = @ + 1]
  /\ marks' = marks \cup {c}
  /\ turn' = [t \in Turns |-> IF turn[t].c = c /\ turn[t].pc \notin AnswerComplete
                              THEN [turn[t] EXCEPT !.asked = TRUE] ELSE turn[t]]
  /\ UNCHANGED <<conversation, reading>>

-----------------------------------------------------------------------------
(* GenerateChatTurn, called by the stream route or by the plain one.       *)

ReadState(t) ==
  /\ turn[t].pc = "idle" /\ chatUsed.turns < MaxTurns
  /\ chatUsed' = [chatUsed EXCEPT !.turns = @ + 1]
  /\ \E c \in Conversations, mode \in Modes :
       /\ OpenConversation(c)
       /\ turn' = [turn EXCEPT ![t] = [IdleTurn EXCEPT
            !.pc = "freeze", !.c = c, !.streams = mode.streams, !.notes = mode.notes]]
  /\ UNCHANGED <<conversation, marks, reading>>

(* freeze: the active versions the actor may read, and the notes selected, *)
(* which a member may read; otherwise the turn is refused.                 *)
FreezeManifest(t) ==
  /\ turn[t].pc = "freeze"
  /\ turn' = IF turn[t].notes /\ ~reading.member
             THEN [turn EXCEPT ![t] = IdleTurn]
             ELSE [turn EXCEPT ![t].pc = "append", ![t].manifest = ReadableVersions \cap reading.active]
  /\ UNCHANGED <<conversation, marks, reading, chatUsed>>

(* The question joins the conversation only while that is open.            *)
AppendToAny(c) == TRUE                                    \* mutated form
MayAppend(c) == OpenConversation(c)

AppendQuestion(t) ==
  /\ turn[t].pc = "append"
  /\ IF MayAppend(turn[t].c)
     THEN /\ conversation' = [conversation EXCEPT ![turn[t].c].questions = @ + 1]
          /\ TurnTo(t, IF turn[t].manifest # {} THEN "lexical"
                       ELSE IF turn[t].notes THEN "generate" ELSE "abstain")
     ELSE /\ turn' = [turn EXCEPT ![t] = IdleTurn]
          /\ UNCHANGED conversation
  /\ UNCHANGED <<marks, reading, chatUsed>>

(* One retriever: versions pinned by the manifest are searched even when   *)
(* they are not active any more; restrictions are looked up afterwards.    *)
SearchChunks(t) ==
  /\ turn[t].pc \in {"lexical", "vector"}
  /\ \E hits \in SUBSET turn[t].manifest :
       turn' = [turn EXCEPT
         ![t].rows = IF reading.member THEN hits \cap reading.present ELSE {},
         ![t].pc = IF turn[t].pc = "lexical" THEN "lexical recheck" ELSE "vector recheck"]
  /\ UNCHANGED <<conversation, marks, reading, chatUsed>>

(* The rows of both retrievers are fused; rank and score are left out.     *)
Fused(t) == turn[t].evidence \cup (turn[t].rows \ reading.denied)

PolicyRecheck(t) ==
  /\ turn[t].pc \in {"lexical recheck", "vector recheck"}
  /\ LET found == Fused(t) IN
       turn' = [turn EXCEPT
         ![t].evidence = found, ![t].rows = {},
         ![t].pc = IF turn[t].pc = "lexical recheck" THEN "vector"
                   ELSE IF found # {} \/ turn[t].notes THEN "generate" ELSE "abstain"]
  /\ UNCHANGED <<conversation, marks, reading, chatUsed>>

(* No evidence, or a provider that finds it insufficient: an answer        *)
(* without citations, and without a look at any mark or restriction.       *)
AbstainTurn(t) ==
  /\ turn[t].pc = "abstain"
  /\ conversation' = [conversation EXCEPT ![turn[t].c].answers = @ + 1]
  /\ EndTurn(t, "answered")
  /\ UNCHANGED <<marks, reading, chatUsed>>

(* The mark is read after every token and once more at the end.            *)
NeverCancelled(t) == FALSE                                \* mutated form
Cancelled(t) == turn[t].streams /\ turn[t].c \in marks

TokenCancelled(t) ==
  /\ turn[t].pc = "generate" /\ Cancelled(t)
  /\ EndTurn(t, "cancelled")
  /\ UNCHANGED <<conversation, marks, reading, chatUsed>>

(* The provider's draft cites what it likes, or finds the evidence         *)
(* insufficient: ids it was not given are refused by publish only.         *)
DraftComplete(t) ==
  /\ turn[t].pc = "generate" /\ ~Cancelled(t)
  /\ \/ \E cites \in SUBSET Versions :
          turn' = [turn EXCEPT ![t].pc = "publish", ![t].cites = cites]
     \/ TurnTo(t, "abstain")
  /\ UNCHANGED <<conversation, marks, reading, chatUsed>>

(* The provider fails, or the client leaves and the generator is closed.   *)
GenerationBreaks(t) ==
  /\ turn[t].pc = "generate"
  /\ EndTurn(t, "broken")
  /\ UNCHANGED <<conversation, marks, reading, chatUsed>>

(* publish validates and inserts in one transaction; it does not ask       *)
(* whether the conversation is still open.                                 *)
EverValid(t) == TRUE                                      \* mutated form
AnswerValid(t) ==
  /\ turn[t].notes => reading.member
  /\ turn[t].cites \subseteq turn[t].evidence \cap turn[t].manifest \cap ReadableVersions

PublishAnswer(t) ==
  /\ turn[t].pc = "publish"
  /\ IF AnswerValid(t) THEN /\ conversation' = [conversation EXCEPT ![turn[t].c].answers = @ + 1]
                      /\ EndTurn(t, "answered")
                 ELSE /\ EndTurn(t, "refused")
                      /\ UNCHANGED conversation
  /\ UNCHANGED <<marks, reading, chatUsed>>

(* The terminal frame, or the reply.  A streaming turn first clears the    *)
(* mark: it is the conversation's, so it may be meant for another turn.    *)
ConcludeTurn(t) ==
  /\ turn[t].pc \in TurnOutcomes
  /\ marks' = IF turn[t].streams THEN marks \ {turn[t].c} ELSE marks
  /\ turn' = [u \in Turns |->
       IF u = t THEN IdleTurn
       ELSE IF turn[t].streams /\ turn[u].c = turn[t].c /\ turn[u].asked
       THEN [turn[u] EXCEPT !.wiped = TRUE]
       ELSE turn[u]]
  /\ UNCHANGED <<conversation, reading, chatUsed>>

-----------------------------------------------------------------------------
(* The actor loses or regains the notebook, a source is removed or         *)
(* selected, a version replaced, a restriction set or lifted.              *)
Toggle(S, v) == IF v \in S THEN S \ {v} ELSE S \cup {v}

ChangeReading ==
  /\ chatUsed.changes < MaxReadChanges
  /\ chatUsed' = [chatUsed EXCEPT !.changes = @ + 1]
  /\ \/ reading' = [reading EXCEPT !.member = ~@]
     \/ \E v \in Versions : \/ reading' = [reading EXCEPT !.present = Toggle(@, v)]
                            \/ reading' = [reading EXCEPT !.active = Toggle(@, v)]
                            \/ reading' = [reading EXCEPT !.denied = Toggle(@, v)]
  /\ UNCHANGED <<conversation, marks, turn>>

ChatInit ==
  /\ conversation = [c \in Conversations |-> [status |-> "absent", questions |-> 0, answers |-> 0]]
  /\ marks = {}
  /\ turn = [t \in Turns |-> IdleTurn]
  /\ reading = [member |-> TRUE, present |-> Versions, active |-> Versions, denied |-> {}]
  /\ chatUsed = [turns |-> 0, cancels |-> 0, changes |-> 0]

TurnStep(t) ==
  \/ FreezeManifest(t) \/ AppendQuestion(t) \/ SearchChunks(t) \/ PolicyRecheck(t) \/ AbstainTurn(t)
  \/ TokenCancelled(t) \/ DraftComplete(t) \/ GenerationBreaks(t) \/ PublishAnswer(t)
  \/ ConcludeTurn(t)

ChatNext ==
  \/ CreateConversation
  \/ \E c \in Conversations : ResetConversation(c) \/ DeleteConversation(c) \/ CancelConversation(c)
  \/ \E t \in Turns : ReadState(t) \/ TurnStep(t)
  \/ ChangeReading

ChatSpec == ChatInit /\ [][ChatNext]_chatVars

-----------------------------------------------------------------------------
(* Properties.                                                             *)

(* Types of the conversations, the turns and what may be read.  Evidence   *)
(* is of the frozen versions and held until the turn ends ("transiently    *)
(* until validated publication", grounding.py:103).                        *)
ChatTypeOK ==
  /\ \A c \in Conversations :
       /\ conversation[c].status \in {"absent", "open", "reset", "deleted"}
       /\ conversation[c].questions \in 0..MaxTurns /\ conversation[c].answers \in 0..MaxTurns
  /\ marks \subseteq Conversations
  /\ \A t \in Turns :
       /\ turn[t].evidence \subseteq turn[t].manifest /\ turn[t].manifest \subseteq Versions
       /\ turn[t].pc \in {"idle"} \cup TurnOutcomes => turn[t].evidence \cup turn[t].cites = {}
  /\ reading.present \cup reading.active \cup reading.denied \subseteq Versions

(* An answer that appears cites only evidence the provider was given and   *)
(* what the actor may still read when it appears, whatever the draft says  *)
(* and however restrictions, membership and removals moved while tokens    *)
(* were shown.                                                             *)
CitedIsReadable ==
  [][\A t \in Turns :
       turn[t].pc = "publish" /\ turn'[t].pc = "answered"
         => /\ turn[t].cites \subseteq turn[t].evidence \cap ReadableVersions
            /\ turn[t].notes => reading.member]_chatVars

(* A cancellation that came before the answer was complete stops a         *)
(* streaming turn, unless another turn of the conversation ended, or the   *)
(* conversation was reset, in between: then the mark is lost.              *)
CancelHeeded ==
  \A t \in Turns :
    turn[t].pc = "publish" /\ turn[t].streams /\ turn[t].asked => turn[t].wiped

(* Every answer belongs to a question of its conversation, and one that is *)
(* closed gets no question any more: only answers still under way.         *)
ClosedGainsNoQuestion ==
  [][\A c \in Conversations :
       /\ conversation'[c].answers <= conversation'[c].questions
       /\ conversation[c].status \in {"reset", "deleted"}
            => conversation'[c].questions = conversation[c].questions]_chatVars

(* What a conversation shows, together: a cancelled turn shows no answer,  *)
(* an answer cites only what may be read as it appears, and a closed       *)
(* conversation is asked nothing more.                                     *)
ChatSafe ==
  /\ []ChatTypeOK
  /\ []CancelHeeded
  /\ CitedIsReadable
  /\ ClosedGainsNoQuestion
=============================================================================
