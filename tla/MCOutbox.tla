------------------------------ MODULE MCOutbox ------------------------------
(***************************************************************************)
(* Small instances of Outbox: the name of the browser.                     *)
(***************************************************************************)
EXTENDS Outbox

CONSTANTS b1
=============================================================================
