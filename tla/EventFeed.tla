----------------------------- MODULE EventFeed ------------------------------
(***************************************************************************)
(* What the stream promises ONE subscriber: from the place where its       *)
(* subscription begins it hears the events of the log in order, each once, *)
(* and leaves none out, wherever it has to begin again.  Only an event     *)
(* that appears behind a later one may be missed.  A log may lose its end; *)
(* what was heard of it is then as if never heard.                         *)
(***************************************************************************)
EXTENDS Integers

CONSTANT Events     \* the numbers an event may have

VARIABLES log,      \* the events there are
          behind,   \* those of them that appeared behind a later one
          from,     \* where the subscription began
          heard,    \* what the subscriber was told
          place     \* the event it would go on from, 0 for none

feed == <<log, behind, from, heard, place>>

Init == log = {} /\ behind = {} /\ from = 0 /\ heard = {} /\ place = 0

Appear(s) ==
  /\ s \notin log /\ log' = log \cup {s}
  /\ behind' = IF \E t \in log : s < t THEN behind \cup {s} ELSE behind
  /\ UNCHANGED <<from, heard, place>>

LoseAfter(k) ==
  /\ log' = log \cap 1..k /\ behind' = behind \cap 1..k /\ heard' = heard \cap 1..k
  /\ UNCHANGED <<from, place>>

(* A subscriber without a place, or whose place lies beyond the log, hears *)
(* what comes from now on; one whose place the log knows, but that has not *)
(* heard it there (it was lost and given out again), what comes after it.  *)
IsKnown == place # 0 /\ \E t \in log : place <= t

Subscribe ==
  /\ place \notin heard
  /\ IF IsKnown THEN from' = place
                ELSE from' \in log \cup {0} /\ \A t \in log : t <= from'
  /\ UNCHANGED <<log, behind, heard, place>>

Hear(s) ==
  /\ s \in log /\ from < s /\ \A t \in heard : t < s
  /\ \A t \in log \ behind : from < t /\ t < s => t \in heard
  /\ heard' = heard \cup {s} /\ place' = s
  /\ UNCHANGED <<log, behind, from>>

Leave ==
  /\ place' = 0
  /\ UNCHANGED <<log, behind, from, heard>>

Next ==
  \/ \E s \in Events : Appear(s) \/ Hear(s) \/ LoseAfter(s)
  \/ LoseAfter(0) \/ Subscribe \/ Leave

Spec == Init /\ [][Next]_feed
=============================================================================
