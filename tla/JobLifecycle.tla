---------------------------- MODULE JobLifecycle ----------------------------
(***************************************************************************)
(* What the queue promises for ONE job: it waits, it is worked on a        *)
(* bounded number of times, and it is settled once, with one notice to     *)
(* the subscribers that names how.  Success and failure come from work     *)
(* done; only a cancellation may settle a job nobody works on.             *)
(***************************************************************************)
EXTENDS Integers, Sequences

CONSTANT Tries      \* how often a job may be worked on

VARIABLES phase,    \* "none", "waiting", "working" or "settled"
          tries,    \* how often work on it was begun
          notices   \* what subscribers were told

life == <<phase, tries, notices>>

Verdicts == {"succeeded", "failed", "cancelled"}

Init == phase = "none" /\ tries = 0 /\ notices = <<>>

Submit ==
  /\ phase = "none" /\ phase' = "waiting"
  /\ UNCHANGED <<tries, notices>>

Begin ==
  /\ phase = "waiting" /\ phase' = "working"
  /\ tries < Tries /\ tries' = tries + 1
  /\ UNCHANGED notices

(* The work is given up and may be tried again.                            *)
GiveBack ==
  /\ phase = "working" /\ phase' = "waiting"
  /\ tries < Tries
  /\ UNCHANGED <<tries, notices>>

Conclude ==
  /\ phase = "working" /\ phase' = "settled"
  /\ \E v \in Verdicts : notices' = <<v>>
  /\ UNCHANGED tries

Withdraw ==
  /\ phase = "waiting" /\ phase' = "settled"
  /\ notices' = <<"cancelled">>
  /\ UNCHANGED tries

Next == Submit \/ Begin \/ GiveBack \/ Conclude \/ Withdraw

Spec == Init /\ [][Next]_life
=============================================================================
