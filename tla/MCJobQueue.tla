----------------------------- MODULE MCJobQueue -----------------------------
(***************************************************************************)
(* Small instances of JobQueue.                                            *)
(***************************************************************************)
EXTENDS JobQueue, TLC

CONSTANTS w1, w2, c1, u1

(* Every process leases under its own name.                                *)
OwnId(w) == w

OnePlain == {[user |-> u1, key |-> NoKey, body |-> "a", priority |-> 0]}

(* The same request once more finds the job of its key.                    *)
OneKeyed == {[user |-> u1, key |-> "k", body |-> "a", priority |-> 0]}

WorkerSymmetry == Permutations(Workers)
=============================================================================
