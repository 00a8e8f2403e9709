------------------------------ MODULE JobStates ------------------------------
(***************************************************************************)
(* The durable job state machine of milpbooklm_domain/jobs.py and its      *)
(* mapping onto the jobs table (adapters/jobs/_rows.py).                   *)
(*                                                                         *)
(* A job has a LOGICAL state (JobState).  The table stores a PHYSICAL      *)
(* status and, inside the payload, a waiting_reason marker: the three      *)
(* pending states are stored as 'queued' plus a marker and are expanded    *)
(* again when a row is read.                                               *)
(***************************************************************************)

TerminalStates == {"succeeded", "failed", "cancelled"}

PendingStates == {"waiting_external", "waiting_capacity", "retry_scheduled"}

ActiveStates == {"leased", "running"}

JobStateSet == {"queued"} \cup ActiveStates \cup TerminalStates \cup PendingStates

(* The values of jobs.status; "absent" is a row not inserted yet.          *)
Statuses == {"absent", "queued"} \cup ActiveStates \cup TerminalStates

(* The markers of payload.waiting_reason; "none" is JSON null.             *)
Reasons == {"none", "capacity", "external", "retry_scheduled"}

(* The compare-and-swap table: the states a job may become from s.         *)
Transitions(s) ==
  CASE s = "queued"           -> {"leased", "cancelled"} \cup PendingStates
    [] s = "leased"           -> {"running", "queued", "cancelled", "failed"}
    [] s = "running"          -> TerminalStates \cup {"queued"} \cup PendingStates
    [] s = "waiting_external" -> {"running", "queued", "cancelled", "failed"}
    [] s \in {"waiting_capacity", "retry_scheduled"} -> {"queued", "cancelled"}
    [] s \in TerminalStates   -> {}

(* apply_transition: legal exactly when the table says so.                 *)
Legal(from, to) == to \in Transitions(from)

ReasonOf(s) ==
  CASE s = "waiting_capacity" -> "capacity"
    [] s = "waiting_external" -> "external"
    [] s = "retry_scheduled"  -> "retry_scheduled"
    [] OTHER                  -> "none"

PhysicalStatus(s) == IF s \in PendingStates THEN "queued" ELSE s

UnpackLogicalState(status, reason) ==
  CASE status = "queued" /\ reason = "capacity"        -> "waiting_capacity"
    [] status = "queued" /\ reason = "external"        -> "waiting_external"
    [] status = "queued" /\ reason = "retry_scheduled" -> "retry_scheduled"
    [] OTHER                                           -> status
=============================================================================
