---------------------------- MODULE ServiceProofs ----------------------------
(***************************************************************************)
(* Proofs about the services beside the job queue: the studio's            *)
(* artifacts, for any number of requests at the same time, requests in     *)
(* all and requests that die; the inference manager's GPU gate, for any    *)
(* number of models, sessions and faults; the cache of web searches and    *)
(* the fetches, for any number of them at a time; stored credentials, for  *)
(* any number of records, keys and commands; sandboxed executions, for     *)
(* any number of workers, jobs and outputs; the browser of a research      *)
(* session, for any number of processes, calls and faults.                 *)
(***************************************************************************)
EXTENDS Artifacts, Inference, WebSearch, WebFetch, Credentials, Execution, BrowserSession,
        FiniteSetTheorems, SequenceTheorems, TLAPS

-----------------------------------------------------------------------------
(* Artifacts.                                                              *)

(* The inductive invariant.                                                *)

PassPoints ==
  {"idle", "enter", "mark", "freeze", "validate", "produce", "render", "number", "insert",
   "ready", "settle", "fail"}

PassTypes ==
  [pc : PassPoints, op : {"none", "cancel", "outdate"} \cup GeneratingOps,
   status : ArtifactStatuses \cup {"none"}, base : Nat, n : Nat]

ArtifactTypes ==
  /\ artifact \in [status : ArtifactStatuses, current : Nat, revision : Nat]
  /\ versions \in Seq([op : {"none", "cancel", "outdate"} \cup GeneratingOps, base : Nat])
  /\ pass \in [ArtifactRequests -> PassTypes]
  /\ artifactUsed \in [requests : Nat, deaths : Nat]

(* In a pass, or settling its failure.                                     *)
BusyPoints ==
  {"freeze", "validate", "produce", "render", "number", "insert", "ready", "settle", "fail"}

Busy(r) == pass[r].pc \in BusyPoints

OneBusy == \A r, q \in ArtifactRequests : Busy(r) /\ Busy(q) => r = q

(* What the row may be while a pass is at a point: its own step before, or *)
(* a cancel, was the last to write it.                                     *)
RowDuringPass(r) ==
  /\ pass[r].pc \in {"freeze", "validate"} => artifact.status \in {"generating", "cancelled"}
  /\ pass[r].pc \in {"produce", "render", "number", "insert", "ready", "settle", "fail"}
       => artifact.status \in {"validating", "cancelled"}

(* What a request that waits for its swap has read.                        *)
ReadBefore(r) ==
  /\ pass[r].pc = "enter" =>
       /\ pass[r].op \in GeneratingOps
       /\ pass[r].status \in {"draft", "ready", "out_of_date"}
  /\ pass[r].pc = "mark" =>
       \/ pass[r].op = "cancel" /\ pass[r].status \in {"draft", "generating", "validating"}
       \/ pass[r].op = "outdate" /\ pass[r].status = "ready"
  /\ pass[r].pc = "fail" => pass[r].status = "validating"

(* Where the versions stand when a pass is at a point.                     *)
VersionsDuringPass(r) ==
  /\ pass[r].pc \in {"freeze", "validate", "produce", "render", "number", "insert"}
       => artifact.current = Len(versions)
  /\ pass[r].pc \in {"validate", "produce", "render", "number", "insert"}
       => pass[r].base <= Len(versions)
  /\ pass[r].pc = "insert" => pass[r].n = Len(versions) + 1
  /\ pass[r].pc = "ready" => pass[r].n = Len(versions)

AtRest ==
  artifact.status \in {"draft", "ready", "out_of_date"} => artifact.current = Len(versions)

CurrentExists ==
  /\ artifact.current <= Len(versions)
  /\ \A i \in DOMAIN versions : versions[i].base < i

AInv ==
  /\ ArtifactTypes /\ OneBusy /\ AtRest /\ CurrentExists
  /\ \A r \in ArtifactRequests : RowDuringPass(r) /\ ReadBefore(r) /\ VersionsDuringPass(r)

-----------------------------------------------------------------------------
(* The invariant holds at first.                                           *)
LEMMA ArtifactInitInv == ArtifactInit => AInv
BY DEF ArtifactInit, AInv, ArtifactTypes, PassTypes, PassPoints, OneBusy, AtRest, CurrentExists, RowDuringPass,
       ReadBefore, VersionsDuringPass, Busy, BusyPoints, IdlePass, ArtifactStatuses, GeneratingOps

(* What the helpers of the actions do to the requests and to the row.      *)
LEMMA ProceedMoves ==
  ASSUME ArtifactTypes, NEW r \in ArtifactRequests, NEW at \in PassPoints, Proceed(r, at)
  PROVE  /\ pass' \in [ArtifactRequests -> PassTypes]
         /\ pass'[r].pc = at /\ pass'[r].op = pass[r].op /\ pass'[r].status = pass[r].status
         /\ pass'[r].base = pass[r].base /\ pass'[r].n = pass[r].n
         /\ \A q \in ArtifactRequests : q # r => pass'[q] = pass[q]
<1>1. pass[r] \in PassTypes
  BY DEF ArtifactTypes
<1>2. pass' = [pass EXCEPT ![r] = [pass[r] EXCEPT !.pc = at]]
  BY DEF Proceed
<1>3. [pass[r] EXCEPT !.pc = at] \in PassTypes
  BY <1>1 DEF PassTypes
<1> QED
  BY <1>1, <1>2, <1>3 DEF ArtifactTypes, PassTypes

(* A request that is answered is idle again.                               *)
LEMMA AnswerIdles ==
  ASSUME ArtifactTypes, NEW r \in ArtifactRequests, Answer(r)
  PROVE  /\ pass' \in [ArtifactRequests -> PassTypes]
         /\ pass'[r].pc = "idle"
         /\ \A q \in ArtifactRequests : q # r => pass'[q] = pass[q]
<1>1. IdlePass \in PassTypes /\ IdlePass.pc = "idle"
  BY DEF IdlePass, PassTypes, PassPoints
<1> QED
  BY <1>1 DEF ArtifactTypes, Answer

(* A compare-and-swap writes the row when it finds what it expects.        *)
LEMMA CasMoves ==
  ASSUME ArtifactTypes, NEW expected, NEW target \in ArtifactStatuses, NEW current \in Nat,
         CasArtifact(expected, target, current)
  PROVE  /\ artifact' \in [status : ArtifactStatuses, current : Nat, revision : Nat]
         /\ artifact.status = expected => artifact'.status = target /\ artifact'.current = current
         /\ artifact.status # expected => artifact' = artifact
BY DEF ArtifactTypes, CasArtifact

(* Each action keeps the invariant.                                        *)
LEMMA ArtifactStepInv == AInv /\ [ArtifactNext]_artifactVars => AInv'
<1> SUFFICES ASSUME AInv, [ArtifactNext]_artifactVars PROVE AInv'
  OBVIOUS
<1> USE DEF AInv
<1>1. CASE UNCHANGED artifactVars
  BY <1>1 DEF artifactVars, ArtifactTypes, OneBusy, AtRest, CurrentExists, RowDuringPass,
              ReadBefore, VersionsDuringPass, Busy
<1>2. ASSUME NEW r \in ArtifactRequests, BeginArtifactRequest(r) PROVE AInv'
  <2>1. PICK op \in GeneratingOps \cup {"cancel", "outdate"}, base \in 0..(Len(versions) + 1) :
          /\ Admits(op, base)
          /\ pass' = [pass EXCEPT ![r] =
               [pc |-> IF op \in GeneratingOps THEN "enter" ELSE "mark",
                op |-> op, status |-> artifact.status, base |-> base, n |-> 0]]
    BY <1>2 DEF BeginArtifactRequest
  <2>2. /\ artifact' = artifact /\ versions' = versions
        /\ artifactUsed' = [artifactUsed EXCEPT !.requests = @ + 1]
    BY <1>2 DEF BeginArtifactRequest
  <2>3. base \in Nat
    BY DEF ArtifactTypes
  <2>4. [pc |-> IF op \in GeneratingOps THEN "enter" ELSE "mark",
         op |-> op, status |-> artifact.status, base |-> base, n |-> 0] \in PassTypes
    BY <2>3 DEF PassTypes, PassPoints, GeneratingOps, ArtifactTypes
  <2>5. /\ pass' \in [ArtifactRequests -> PassTypes]
        /\ pass'[r].pc = (IF op \in GeneratingOps THEN "enter" ELSE "mark")
        /\ pass'[r].op = op /\ pass'[r].status = artifact.status
        /\ \A q \in ArtifactRequests : q # r => pass'[q] = pass[q]
    BY <2>1, <2>4 DEF ArtifactTypes
  <2>6. /\ pass'[r].pc = "enter" =>
             pass'[r].op \in GeneratingOps /\ pass'[r].status \in {"draft", "ready", "out_of_date"}
        /\ pass'[r].pc = "mark" =>
             \/ pass'[r].op = "cancel" /\ pass'[r].status \in {"draft", "generating", "validating"}
             \/ pass'[r].op = "outdate" /\ pass'[r].status = "ready"
        /\ pass'[r].pc \in {"enter", "mark"}
    BY <2>1, <2>5 DEF Admits, ArtifactTransitionAllowed, ArtifactTransitions, GeneratingOps
  <2>7. ArtifactTypes'
    BY <2>1, <2>2, <2>3, <2>4, <2>5, <2>6 DEF ArtifactTypes
  <2>8. OneBusy'
    BY <2>1, <2>2, <2>3, <2>4, <2>5, <2>6 DEF OneBusy, Busy, BusyPoints, RowDuringPass, ReadBefore
  <2>9. AtRest' /\ CurrentExists'
    BY <2>1, <2>2, <2>3, <2>4, <2>5, <2>6
      DEF AtRest, CurrentExists, VersionsDuringPass, RowDuringPass, ReadBefore, ArtifactTypes,
          ArtifactStatuses
  <2>10. ASSUME NEW q \in ArtifactRequests PROVE RowDuringPass(q)' /\ ReadBefore(q)'
    BY <2>1, <2>2, <2>3, <2>4, <2>5, <2>6 DEF RowDuringPass, ReadBefore, OneBusy, Busy, BusyPoints
  <2>11. ASSUME NEW q \in ArtifactRequests PROVE VersionsDuringPass(q)'
    BY <2>1, <2>2, <2>3, <2>4, <2>5, <2>6
      DEF VersionsDuringPass, RowDuringPass, ReadBefore, AtRest, OneBusy, Busy, BusyPoints,
          ArtifactTypes, PassTypes
  <2> QED
    BY <2>7, <2>8, <2>9, <2>10, <2>11
<1>3. ASSUME NEW r \in ArtifactRequests, EnterGenerating(r) PROVE AInv'
  <2>1. /\ artifact' \in [status : ArtifactStatuses, current : Nat, revision : Nat]
        /\ artifact.status = pass[r].status
             => artifact'.status = "generating" /\ artifact'.current = artifact.current
        /\ artifact.status # pass[r].status => artifact' = artifact
    BY <1>3, CasMoves DEF EnterGenerating, ArtifactTypes, ArtifactStatuses
  <2>2. /\ pass' \in [ArtifactRequests -> PassTypes]
        /\ artifact.status = pass[r].status => pass'[r].pc = "freeze"
        /\ artifact.status # pass[r].status => pass'[r].pc = "idle"
        /\ \A q \in ArtifactRequests : q # r => pass'[q] = pass[q]
    BY <1>3, ProceedMoves, AnswerIdles DEF EnterGenerating, PassPoints
  <2>3. /\ pass[r].pc = "enter"
        /\ versions' = versions /\ artifactUsed' = artifactUsed
    BY <1>3 DEF EnterGenerating
  <2>4. ArtifactTypes'
    BY <2>1, <2>2, <2>3 DEF ArtifactTypes
  <2>5. OneBusy'
    BY <2>1, <2>2, <2>3 DEF OneBusy, Busy, BusyPoints, RowDuringPass, ReadBefore
  <2>6. AtRest' /\ CurrentExists'
    BY <2>1, <2>2, <2>3
      DEF AtRest, CurrentExists, VersionsDuringPass, RowDuringPass, ReadBefore, ArtifactTypes,
          ArtifactStatuses
  <2>7. ASSUME NEW q \in ArtifactRequests PROVE RowDuringPass(q)' /\ ReadBefore(q)'
    BY <2>1, <2>2, <2>3 DEF RowDuringPass, ReadBefore, OneBusy, Busy, BusyPoints
  <2>8. ASSUME NEW q \in ArtifactRequests PROVE VersionsDuringPass(q)'
    BY <2>1, <2>2, <2>3, ZenonT(30)
      DEF VersionsDuringPass, RowDuringPass, ReadBefore, AtRest, OneBusy, Busy, BusyPoints,
          ArtifactTypes, PassTypes
  <2> QED
    BY <2>4, <2>5, <2>6, <2>7, <2>8
<1>4. ASSUME NEW r \in ArtifactRequests, MarkArtifact(r) PROVE AInv'
  <2>1. /\ artifact' \in [status : ArtifactStatuses, current : Nat, revision : Nat]
        /\ artifact.status = pass[r].status
             => /\ artifact'.status = IF pass[r].op = "cancel" THEN "cancelled" ELSE "out_of_date"
                /\ artifact'.current = artifact.current
        /\ artifact.status # pass[r].status => artifact' = artifact
    BY <1>4, CasMoves DEF MarkArtifact, ArtifactTypes, ArtifactStatuses
  <2>2. /\ pass' \in [ArtifactRequests -> PassTypes]
        /\ pass'[r].pc = "idle"
        /\ \A q \in ArtifactRequests : q # r => pass'[q] = pass[q]
    BY <1>4, AnswerIdles DEF MarkArtifact
  <2>3. /\ pass[r].pc = "mark"
        /\ versions' = versions /\ artifactUsed' = artifactUsed
    BY <1>4 DEF MarkArtifact
  <2>4. ArtifactTypes'
    BY <2>1, <2>2, <2>3 DEF ArtifactTypes
  <2>5. OneBusy'
    BY <2>1, <2>2, <2>3 DEF OneBusy, Busy, BusyPoints, RowDuringPass, ReadBefore
  <2>6. AtRest' /\ CurrentExists'
    BY <2>1, <2>2, <2>3
      DEF AtRest, CurrentExists, VersionsDuringPass, RowDuringPass, ReadBefore, ArtifactTypes,
          ArtifactStatuses
  <2>7. ASSUME NEW q \in ArtifactRequests PROVE RowDuringPass(q)' /\ ReadBefore(q)'
    BY <2>1, <2>2, <2>3 DEF RowDuringPass, ReadBefore, OneBusy, Busy, BusyPoints
  <2>8. ASSUME NEW q \in ArtifactRequests PROVE VersionsDuringPass(q)'
    BY <2>1, <2>2, <2>3, ZenonT(30)
      DEF VersionsDuringPass, RowDuringPass, ReadBefore, AtRest, OneBusy, Busy, BusyPoints,
          ArtifactTypes, PassTypes
  <2> QED
    BY <2>4, <2>5, <2>6, <2>7, <2>8
<1>5. ASSUME NEW r \in ArtifactRequests, FreezeInputs(r) PROVE AInv'
  <2>1. /\ pass' \in [ArtifactRequests -> PassTypes]
        /\ \/ /\ pass'[r].pc = "validate" /\ pass[r].base <= Len(versions)
             /\ pass'[r].op = pass[r].op /\ pass'[r].status = pass[r].status
             /\ pass'[r].base = pass[r].base /\ pass'[r].n = pass[r].n
           \/ pass'[r].pc = "idle"
        /\ \A q \in ArtifactRequests : q # r => pass'[q] = pass[q]
    BY <1>5, ProceedMoves, AnswerIdles DEF FreezeInputs, BaseExists, PassPoints
  <2>2. ArtifactTypes'
    BY <1>5, <2>1 DEF FreezeInputs, ArtifactTypes
  <2>3. OneBusy'
    BY <1>5, <2>1 DEF FreezeInputs, OneBusy, Busy, BusyPoints, RowDuringPass, ReadBefore
  <2>4. AtRest' /\ CurrentExists'
    BY <1>5, <2>1
      DEF FreezeInputs, AtRest, CurrentExists, VersionsDuringPass, RowDuringPass, ReadBefore,
          ArtifactTypes, ArtifactStatuses
  <2>5. ASSUME NEW q \in ArtifactRequests PROVE RowDuringPass(q)' /\ ReadBefore(q)'
    BY <1>5, <2>1 DEF FreezeInputs, RowDuringPass, ReadBefore, OneBusy, Busy, BusyPoints
  <2>6. ASSUME NEW q \in ArtifactRequests PROVE VersionsDuringPass(q)'
    BY <1>5, <2>1
      DEF FreezeInputs, VersionsDuringPass, RowDuringPass, ReadBefore, AtRest, OneBusy, Busy,
          BusyPoints, ArtifactTypes, PassTypes
  <2> QED
    BY <2>2, <2>3, <2>4, <2>5, <2>6
<1>6. ASSUME NEW r \in ArtifactRequests, EnterValidating(r) PROVE AInv'
  <2>1. /\ artifact' \in [status : ArtifactStatuses, current : Nat, revision : Nat]
        /\ artifact.status = "generating"
             => artifact'.status = "validating" /\ artifact'.current = artifact.current
        /\ artifact.status # "generating" => artifact' = artifact
    BY <1>6, CasMoves DEF EnterValidating, ArtifactTypes, ArtifactStatuses
  <2>2. /\ pass' \in [ArtifactRequests -> PassTypes]
        /\ pass'[r].pc = "produce"
        /\ pass'[r].op = pass[r].op /\ pass'[r].status = pass[r].status
        /\ pass'[r].base = pass[r].base /\ pass'[r].n = pass[r].n
        /\ \A q \in ArtifactRequests : q # r => pass'[q] = pass[q]
    BY <1>6, ProceedMoves DEF EnterValidating, PassPoints
  <2>3. /\ pass[r].pc = "validate"
        /\ versions' = versions /\ artifactUsed' = artifactUsed
    BY <1>6 DEF EnterValidating
  <2>4. ArtifactTypes'
    BY <2>1, <2>2, <2>3 DEF ArtifactTypes
  <2>5. OneBusy'
    BY <2>1, <2>2, <2>3 DEF OneBusy, Busy, BusyPoints, RowDuringPass, ReadBefore
  <2>6. AtRest' /\ CurrentExists'
    BY <2>1, <2>2, <2>3
      DEF AtRest, CurrentExists, VersionsDuringPass, RowDuringPass, ReadBefore, ArtifactTypes,
          ArtifactStatuses
  <2>7. ASSUME NEW q \in ArtifactRequests PROVE RowDuringPass(q)' /\ ReadBefore(q)'
    BY <2>1, <2>2, <2>3 DEF RowDuringPass, ReadBefore, OneBusy, Busy, BusyPoints
  <2>8. ASSUME NEW q \in ArtifactRequests PROVE VersionsDuringPass(q)'
    BY <2>1, <2>2, <2>3, SMTT(30)
      DEF VersionsDuringPass, RowDuringPass, ReadBefore, AtRest, OneBusy, Busy, BusyPoints,
          ArtifactTypes, PassTypes
  <2> QED
    BY <2>4, <2>5, <2>6, <2>7, <2>8
<1>7. ASSUME NEW r \in ArtifactRequests, ProduceContent(r) PROVE AInv'
  <2>1. /\ pass' \in [ArtifactRequests -> PassTypes]
        /\ pass'[r].pc \in {"render", "settle"}
        /\ pass'[r].op = pass[r].op /\ pass'[r].status = pass[r].status
        /\ pass'[r].base = pass[r].base /\ pass'[r].n = pass[r].n
        /\ \A q \in ArtifactRequests : q # r => pass'[q] = pass[q]
    BY <1>7, ProceedMoves DEF ProduceContent, PassPoints
  <2>2. ArtifactTypes'
    BY <1>7, <2>1 DEF ProduceContent, ArtifactTypes
  <2>3. OneBusy'
    BY <1>7, <2>1 DEF ProduceContent, OneBusy, Busy, BusyPoints, RowDuringPass, ReadBefore
  <2>4. AtRest' /\ CurrentExists'
    BY <1>7, <2>1
      DEF ProduceContent, AtRest, CurrentExists, VersionsDuringPass, RowDuringPass, ReadBefore,
          ArtifactTypes, ArtifactStatuses
  <2>5. ASSUME NEW q \in ArtifactRequests PROVE RowDuringPass(q)' /\ ReadBefore(q)'
    BY <1>7, <2>1 DEF ProduceContent, RowDuringPass, ReadBefore, OneBusy, Busy, BusyPoints
  <2>6. ASSUME NEW q \in ArtifactRequests PROVE VersionsDuringPass(q)'
    BY <1>7, <2>1, SMTT(30)
      DEF ProduceContent, VersionsDuringPass, RowDuringPass, ReadBefore, AtRest, OneBusy, Busy,
          BusyPoints, ArtifactTypes, PassTypes
  <2> QED
    BY <2>2, <2>3, <2>4, <2>5, <2>6
<1>8. ASSUME NEW r \in ArtifactRequests, StoreRenditions(r) PROVE AInv'
  <2>1. /\ pass' \in [ArtifactRequests -> PassTypes]
        /\ pass'[r].pc = "number"
        /\ pass'[r].op = pass[r].op /\ pass'[r].status = pass[r].status
        /\ pass'[r].base = pass[r].base /\ pass'[r].n = pass[r].n
        /\ \A q \in ArtifactRequests : q # r => pass'[q] = pass[q]
    BY <1>8, ProceedMoves DEF StoreRenditions, PassPoints
  <2>2. ArtifactTypes'
    BY <1>8, <2>1 DEF StoreRenditions, ArtifactTypes
  <2>3. OneBusy'
    BY <1>8, <2>1 DEF StoreRenditions, OneBusy, Busy, BusyPoints, RowDuringPass, ReadBefore
  <2>4. AtRest' /\ CurrentExists'
    BY <1>8, <2>1
      DEF StoreRenditions, AtRest, CurrentExists, VersionsDuringPass, RowDuringPass, ReadBefore,
          ArtifactTypes, ArtifactStatuses
  <2>5. ASSUME NEW q \in ArtifactRequests PROVE RowDuringPass(q)' /\ ReadBefore(q)'
    BY <1>8, <2>1 DEF StoreRenditions, RowDuringPass, ReadBefore, OneBusy, Busy, BusyPoints
  <2>6. ASSUME NEW q \in ArtifactRequests PROVE VersionsDuringPass(q)'
    BY <1>8, <2>1, ZenonT(30)
      DEF StoreRenditions, VersionsDuringPass, RowDuringPass, ReadBefore, AtRest, OneBusy, Busy,
          BusyPoints, ArtifactTypes, PassTypes
  <2> QED
    BY <2>2, <2>3, <2>4, <2>5, <2>6
<1>9. ASSUME NEW r \in ArtifactRequests, NumberVersion(r) PROVE AInv'
  <2>1. PICK n \in Nat : n = Len(versions) + 1
    BY DEF ArtifactTypes
  <2>2. pass[r] \in PassTypes
    BY DEF ArtifactTypes
  <2>3. pass' = [pass EXCEPT ![r] = [pass[r] EXCEPT !.pc = "insert", !.n = n]]
    BY <1>9, <2>1 DEF NumberVersion, NextVersionNumber, ArtifactTypes
  <2>4. [pass[r] EXCEPT !.pc = "insert", !.n = n] \in PassTypes
    BY <2>2 DEF PassTypes, PassPoints
  <2>5. /\ pass' \in [ArtifactRequests -> PassTypes]
        /\ pass'[r].pc = "insert" /\ pass'[r].n = n
        /\ pass'[r].base = pass[r].base
        /\ \A q \in ArtifactRequests : q # r => pass'[q] = pass[q]
    BY <2>2, <2>3, <2>4 DEF ArtifactTypes, PassTypes
  <2>6. ArtifactTypes'
    BY <1>9, <2>1, <2>2, <2>3, <2>4, <2>5 DEF NumberVersion, ArtifactTypes
  <2>7. OneBusy'
    BY <1>9, <2>1, <2>2, <2>3, <2>4, <2>5
      DEF NumberVersion, OneBusy, Busy, BusyPoints, RowDuringPass, ReadBefore
  <2>8. AtRest' /\ CurrentExists'
    BY <1>9, <2>1, <2>2, <2>3, <2>4, <2>5
      DEF NumberVersion, AtRest, CurrentExists, VersionsDuringPass, RowDuringPass, ReadBefore,
          ArtifactTypes, ArtifactStatuses
  <2>9. ASSUME NEW q \in ArtifactRequests PROVE RowDuringPass(q)' /\ ReadBefore(q)'
    BY <1>9, <2>1, <2>2, <2>3, <2>4, <2>5
      DEF NumberVersion, RowDuringPass, ReadBefore, OneBusy, Busy, BusyPoints
  <2>10. ASSUME NEW q \in ArtifactRequests PROVE VersionsDuringPass(q)'
    BY <1>9, <2>1, <2>2, <2>3, <2>4, <2>5
      DEF NumberVersion, VersionsDuringPass, RowDuringPass, ReadBefore, AtRest, OneBusy, Busy,
          BusyPoints, ArtifactTypes, PassTypes
  <2> QED
    BY <2>6, <2>7, <2>8, <2>9, <2>10
<1>10. ASSUME NEW r \in ArtifactRequests, InsertVersion(r) PROVE AInv'
  <2>1. pass[r] \in PassTypes /\ pass[r].n = Len(versions) + 1 /\ Busy(r)
    BY <1>10 DEF ArtifactTypes, VersionsDuringPass, InsertVersion, Busy, BusyPoints
  <2>2. [op |-> pass[r].op, base |-> pass[r].base]
          \in [op : {"none", "cancel", "outdate"} \cup GeneratingOps, base : Nat]
    BY <2>1 DEF PassTypes
  <2>3. versions' = Append(versions, [op |-> pass[r].op, base |-> pass[r].base])
    BY <1>10, <2>1 DEF InsertVersion
  <2>4. /\ versions' \in Seq([op : {"none", "cancel", "outdate"} \cup GeneratingOps, base : Nat])
        /\ Len(versions') = Len(versions) + 1
        /\ \A i \in DOMAIN versions' : versions'[i].base < i
    BY <1>10, <2>1, <2>2, <2>3 DEF InsertVersion, ArtifactTypes, CurrentExists, VersionsDuringPass, PassTypes
  <2>5. /\ pass' \in [ArtifactRequests -> PassTypes]
        /\ pass'[r].pc = "ready" /\ pass'[r].n = pass[r].n
        /\ \A q \in ArtifactRequests : q # r => pass'[q] = pass[q]
    BY <1>10, <2>1, ProceedMoves DEF InsertVersion, PassPoints
  <2>6. ArtifactTypes'
    BY <1>10, <2>1, <2>2, <2>3, <2>4, <2>5 DEF InsertVersion, ArtifactTypes
  <2>7. OneBusy'
    BY <1>10, <2>1, <2>2, <2>3, <2>4, <2>5
      DEF InsertVersion, OneBusy, Busy, BusyPoints, RowDuringPass, ReadBefore
  <2>8. AtRest' /\ CurrentExists'
    BY <1>10, <2>1, <2>2, <2>3, <2>4, <2>5
      DEF InsertVersion, AtRest, CurrentExists, VersionsDuringPass, RowDuringPass, ReadBefore,
          ArtifactTypes, ArtifactStatuses
  <2>9. ASSUME NEW q \in ArtifactRequests PROVE RowDuringPass(q)' /\ ReadBefore(q)'
    BY <1>10, <2>1, <2>2, <2>3, <2>4, <2>5
      DEF InsertVersion, RowDuringPass, ReadBefore, OneBusy, Busy, BusyPoints
  <2>10. ASSUME NEW q \in ArtifactRequests PROVE VersionsDuringPass(q)'
    BY <1>10, <2>1, <2>2, <2>3, <2>4, <2>5, ZenonT(30)
      DEF InsertVersion, VersionsDuringPass, RowDuringPass, ReadBefore, AtRest, OneBusy, Busy,
          BusyPoints, ArtifactTypes, PassTypes
  <2> QED
    BY <2>6, <2>7, <2>8, <2>9, <2>10
<1>11. ASSUME NEW r \in ArtifactRequests, EnterReady(r) PROVE AInv'
  <2>1. pass[r] \in PassTypes /\ pass[r].n \in Nat
    BY DEF ArtifactTypes, PassTypes
  <2>2. /\ artifact' \in [status : ArtifactStatuses, current : Nat, revision : Nat]
        /\ artifact.status = "validating" => artifact'.status = "ready" /\ artifact'.current = pass[r].n
        /\ artifact.status # "validating" => artifact' = artifact
    BY <1>11, <2>1, CasMoves DEF EnterReady, ArtifactStatuses
  <2>3. /\ pass' \in [ArtifactRequests -> PassTypes]
        /\ artifact.status = "validating" => pass'[r].pc = "idle"
        /\ artifact.status # "validating" => pass'[r].pc = "settle"
        /\ \A q \in ArtifactRequests : q # r => pass'[q] = pass[q]
    BY <1>11, ProceedMoves, AnswerIdles DEF EnterReady, PassPoints
  <2>4. /\ pass[r].pc = "ready"
        /\ versions' = versions /\ artifactUsed' = artifactUsed
    BY <1>11 DEF EnterReady
  <2>5. ArtifactTypes'
    BY <2>1, <2>2, <2>3, <2>4 DEF ArtifactTypes
  <2>6. OneBusy'
    BY <2>1, <2>2, <2>3, <2>4 DEF OneBusy, Busy, BusyPoints, RowDuringPass, ReadBefore
  <2>7. AtRest' /\ CurrentExists'
    BY <2>1, <2>2, <2>3, <2>4
      DEF AtRest, CurrentExists, VersionsDuringPass, RowDuringPass, ReadBefore, ArtifactTypes,
          ArtifactStatuses
  <2>8. ASSUME NEW q \in ArtifactRequests PROVE RowDuringPass(q)' /\ ReadBefore(q)'
    BY <2>1, <2>2, <2>3, <2>4 DEF RowDuringPass, ReadBefore, OneBusy, Busy, BusyPoints
  <2>9. ASSUME NEW q \in ArtifactRequests PROVE VersionsDuringPass(q)'
    BY <2>1, <2>2, <2>3, <2>4, ZenonT(30)
      DEF VersionsDuringPass, RowDuringPass, ReadBefore, AtRest, OneBusy, Busy, BusyPoints,
          ArtifactTypes, PassTypes
  <2> QED
    BY <2>5, <2>6, <2>7, <2>8, <2>9
<1>12. ASSUME NEW r \in ArtifactRequests, ReadForFailure(r) PROVE AInv'
  <2>1. pass[r] \in PassTypes /\ artifact.status \in ArtifactStatuses
    BY DEF ArtifactTypes
  <2>2. artifact.status = "validating" \/ ~ ArtifactTransitionAllowed(artifact.status, "failed")
    BY <1>12 DEF ReadForFailure, RowDuringPass, ArtifactTransitionAllowed, ArtifactTransitions
  <2>3. /\ pass' \in [ArtifactRequests -> PassTypes]
        /\ \/ pass'[r].pc = "fail" /\ pass'[r].status = "validating"
           \/ pass'[r].pc = "idle"
        /\ \A q \in ArtifactRequests : q # r => pass'[q] = pass[q]
    <3>1. CASE artifact.status = "validating" /\ ArtifactTransitionAllowed(artifact.status, "failed")
      <4>1. pass' = [pass EXCEPT ![r] = [pass[r] EXCEPT !.pc = "fail", !.status = "validating"]]
        BY <1>12, <3>1 DEF ReadForFailure, ArtifactTypes
      <4>2. [pass[r] EXCEPT !.pc = "fail", !.status = "validating"] \in PassTypes
        BY <2>1 DEF PassTypes, PassPoints, ArtifactStatuses
      <4> QED
        BY <2>1, <4>1, <4>2 DEF ArtifactTypes, PassTypes
    <3>2. CASE ~ ArtifactTransitionAllowed(artifact.status, "failed")
      BY <1>12, <3>2, AnswerIdles DEF ReadForFailure
    <3> QED
      BY <2>2, <3>1, <3>2
  <2>4. ArtifactTypes'
    BY <1>12, <2>1, <2>2, <2>3 DEF ReadForFailure, ArtifactTypes
  <2>5. OneBusy'
    BY <1>12, <2>1, <2>2, <2>3
      DEF ReadForFailure, OneBusy, Busy, BusyPoints, RowDuringPass, ReadBefore
  <2>6. AtRest' /\ CurrentExists'
    BY <1>12, <2>1, <2>2, <2>3
      DEF ReadForFailure, AtRest, CurrentExists, VersionsDuringPass, RowDuringPass, ReadBefore,
          ArtifactTypes, ArtifactStatuses
  <2>7. ASSUME NEW q \in ArtifactRequests PROVE RowDuringPass(q)' /\ ReadBefore(q)'
    BY <1>12, <2>1, <2>2, <2>3
      DEF ReadForFailure, RowDuringPass, ReadBefore, OneBusy, Busy, BusyPoints
  <2>8. ASSUME NEW q \in ArtifactRequests PROVE VersionsDuringPass(q)'
    BY <1>12, <2>1, <2>2, <2>3, ZenonT(30)
      DEF ReadForFailure, VersionsDuringPass, RowDuringPass, ReadBefore, AtRest, OneBusy, Busy,
          BusyPoints, ArtifactTypes, PassTypes
  <2> QED
    BY <2>4, <2>5, <2>6, <2>7, <2>8
<1>13. ASSUME NEW r \in ArtifactRequests, MarkFailed(r) PROVE AInv'
  <2>1. /\ artifact' \in [status : ArtifactStatuses, current : Nat, revision : Nat]
        /\ artifact.status = pass[r].status
             => artifact'.status = "failed" /\ artifact'.current = artifact.current
        /\ artifact.status # pass[r].status => artifact' = artifact
    BY <1>13, CasMoves DEF MarkFailed, ArtifactTypes, ArtifactStatuses
  <2>2. /\ pass' \in [ArtifactRequests -> PassTypes]
        /\ pass'[r].pc = "idle"
        /\ \A q \in ArtifactRequests : q # r => pass'[q] = pass[q]
    BY <1>13, AnswerIdles DEF MarkFailed
  <2>3. /\ pass[r].pc = "fail"
        /\ versions' = versions /\ artifactUsed' = artifactUsed
    BY <1>13 DEF MarkFailed
  <2>4. ArtifactTypes'
    BY <2>1, <2>2, <2>3 DEF ArtifactTypes
  <2>5. OneBusy'
    BY <2>1, <2>2, <2>3 DEF OneBusy, Busy, BusyPoints, RowDuringPass, ReadBefore
  <2>6. AtRest' /\ CurrentExists'
    BY <2>1, <2>2, <2>3
      DEF AtRest, CurrentExists, VersionsDuringPass, RowDuringPass, ReadBefore, ArtifactTypes,
          ArtifactStatuses
  <2>7. ASSUME NEW q \in ArtifactRequests PROVE RowDuringPass(q)' /\ ReadBefore(q)'
    BY <2>1, <2>2, <2>3 DEF RowDuringPass, ReadBefore, OneBusy, Busy, BusyPoints
  <2>8. ASSUME NEW q \in ArtifactRequests PROVE VersionsDuringPass(q)'
    BY <2>1, <2>2, <2>3, ZenonT(30)
      DEF VersionsDuringPass, RowDuringPass, ReadBefore, AtRest, OneBusy, Busy, BusyPoints,
          ArtifactTypes, PassTypes
  <2> QED
    BY <2>4, <2>5, <2>6, <2>7, <2>8
<1>14. ASSUME NEW r \in ArtifactRequests, RequestBreaks(r) PROVE AInv'
  <2>1. /\ pass' \in [ArtifactRequests -> PassTypes]
        /\ pass'[r].pc = "idle"
        /\ \A q \in ArtifactRequests : q # r => pass'[q] = pass[q]
    BY <1>14, AnswerIdles DEF RequestBreaks
  <2>2. ArtifactTypes'
    BY <1>14, <2>1 DEF RequestBreaks, ArtifactTypes
  <2>3. OneBusy'
    BY <1>14, <2>1 DEF RequestBreaks, OneBusy, Busy, BusyPoints, RowDuringPass, ReadBefore
  <2>4. AtRest' /\ CurrentExists'
    BY <1>14, <2>1
      DEF RequestBreaks, AtRest, CurrentExists, VersionsDuringPass, RowDuringPass, ReadBefore,
          ArtifactTypes, ArtifactStatuses
  <2>5. ASSUME NEW q \in ArtifactRequests PROVE RowDuringPass(q)' /\ ReadBefore(q)'
    BY <1>14, <2>1 DEF RequestBreaks, RowDuringPass, ReadBefore, OneBusy, Busy, BusyPoints
  <2>6. ASSUME NEW q \in ArtifactRequests PROVE VersionsDuringPass(q)'
    BY <1>14, <2>1
      DEF RequestBreaks, VersionsDuringPass, RowDuringPass, ReadBefore, AtRest, OneBusy, Busy,
          BusyPoints, ArtifactTypes, PassTypes
  <2> QED
    BY <2>2, <2>3, <2>4, <2>5, <2>6
<1> QED
  BY <1>1, <1>2, <1>3, <1>4, <1>5, <1>6, <1>7, <1>8, <1>9, <1>10, <1>11, <1>12, <1>13, <1>14
     DEF ArtifactNext, PassStep

(* It is an invariant of the specification.                                *)
LEMMA ArtifactInvariant == ArtifactSpec => []AInv
BY ArtifactInitInv, ArtifactStepInv, PTL DEF ArtifactSpec

-----------------------------------------------------------------------------
(* What the runs check of an artifact.                                     *)

(* Types of the row, the versions and the requests (the artifacts table).  *)
THEOREM ArtifactTypeCorrect == ArtifactSpec => []ArtifactTypeOK
<1>1. ASSUME AInv PROVE ArtifactTypeOK
  <2>1. \A r \in ArtifactRequests : pass[r].status \in ArtifactStatuses \cup {"none"}
    BY <1>1 DEF AInv, ArtifactTypes, PassTypes
  <2> QED
    BY <1>1, <2>1 DEF AInv, ArtifactTypes, CurrentExists, ArtifactTypeOK
<1> QED
  BY <1>1, ArtifactInvariant, PTL

(* Two generations of one artifact never run at the same time: the status  *)
(* that cas_status swaps is lock enough, however many requests there are.  *)
THEOREM OnePass == ArtifactSpec => []OnePassAtATime
<1>1. AInv => OnePassAtATime
  BY DEF AInv, OneBusy, Busy, BusyPoints, InPass, OnePassAtATime
<1> QED
  BY <1>1, ArtifactInvariant, PTL

(* An artifact that can be shown shows the last version that               *)
(* create_version inserted.                                                *)
THEOREM ReadyShowsTheNewest == ArtifactSpec => []ReadyShowsNewest
<1>1. AInv => ReadyShowsNewest
  BY DEF AInv, AtRest, ReadyShowsNewest
<1> QED
  BY <1>1, ArtifactInvariant, PTL

(* No swap of a request that read the row earlier takes it out of failed   *)
(* or cancelled: what it expects is never one of them.                     *)
THEOREM EndedIsFinal == ArtifactSpec => EndedArtifactIsFinal
<1>1. AInv /\ [ArtifactNext]_artifactVars
        => [artifact.status \in EndedArtifactStates => artifact' = artifact]_artifact
  <2> SUFFICES ASSUME AInv, ArtifactNext, artifact.status \in EndedArtifactStates
               PROVE  artifact' = artifact
    BY DEF artifactVars
  <2> USE DEF AInv, ReadBefore, EndedArtifactStates
  <2>1. PICK r \in ArtifactRequests : BeginArtifactRequest(r) \/ PassStep(r) \/ RequestBreaks(r)
    BY DEF ArtifactNext
  <2>2. ASSUME NEW expected, NEW target, NEW current, CasArtifact(expected, target, current),
               expected \notin EndedArtifactStates
        PROVE  artifact' = artifact
    BY <2>2 DEF CasArtifact
  <2>3. CASE EnterGenerating(r)
    <3>1. pass[r].status \notin EndedArtifactStates
      BY <2>3 DEF EnterGenerating
    <3> QED
      BY <2>2, <2>3, <3>1 DEF EnterGenerating
  <2>4. CASE MarkArtifact(r)
    <3>1. pass[r].status \notin EndedArtifactStates
      BY <2>4 DEF MarkArtifact
    <3> QED
      BY <2>2, <2>4, <3>1 DEF MarkArtifact
  <2>5. CASE EnterValidating(r) \/ EnterReady(r)
    BY <2>2, <2>5 DEF EnterValidating, EnterReady
  <2>6. CASE MarkFailed(r)
    <3>1. pass[r].status \notin EndedArtifactStates
      BY <2>6 DEF MarkFailed
    <3> QED
      BY <2>2, <2>6, <3>1 DEF MarkFailed
  <2> QED
    BY <2>1, <2>3, <2>4, <2>5, <2>6
       DEF PassStep, BeginArtifactRequest, FreezeInputs, ProduceContent, StoreRenditions,
           NumberVersion, InsertVersion, ReadForFailure, RequestBreaks
<1> QED
  BY <1>1, ArtifactInvariant, PTL DEF ArtifactSpec, EndedArtifactIsFinal

(* After a cancel, the generation that was under way may insert its        *)
(* version, and then no other request does.                                *)
THEOREM CancelledGainsAtMostOne == ArtifactSpec => CancelledGainsOne
<1>1. AInv /\ [ArtifactNext]_artifactVars
        => [artifact.status = "cancelled" /\ versions' # versions
              => artifact.current + 1 = Len(versions')]_versions
  <2> SUFFICES ASSUME AInv, ArtifactNext, versions' # versions
               PROVE  artifact.current + 1 = Len(versions')
    BY DEF artifactVars
  <2>1. PICK r \in ArtifactRequests : InsertVersion(r)
    BY DEF ArtifactNext, PassStep, BeginArtifactRequest, EnterGenerating, MarkArtifact,
           FreezeInputs, EnterValidating, ProduceContent, StoreRenditions, NumberVersion,
           EnterReady, ReadForFailure, MarkFailed, RequestBreaks
  <2>2. artifact.current = Len(versions)
    BY <2>1 DEF InsertVersion, AInv, VersionsDuringPass
  <2>3. versions' = Append(versions, [op |-> pass[r].op, base |-> pass[r].base])
    BY <2>1 DEF InsertVersion
  <2> QED
    BY <2>2, <2>3 DEF AInv, ArtifactTypes
<1> QED
  BY <1>1, ArtifactInvariant, PTL DEF ArtifactSpec, CancelledGainsOne

(* What readers of an artifact rely on at every moment.                    *)
THEOREM ArtifactSafety == ArtifactSpec => []ArtifactSafe
BY OnePass, ReadyShowsTheNewest, PTL DEF ArtifactSafe

(* What no request may do to an artifact that has ended.                   *)
THEOREM ArtifactEndings == ArtifactSpec => ArtifactEnds
BY EndedIsFinal, CancelledGainsAtMostOne DEF ArtifactEnds

-----------------------------------------------------------------------------
(* The GPU gate.                                                           *)

SessionTypes == [phase : Phases, model : Models]

InferenceTypes ==
  /\ references \in [Models -> Nat]
  /\ entry \in [Models -> {"none", "live", "dead"}]
  /\ alive \in [Models -> Nat]
  /\ modelLock \in [Models -> Sessions \cup {Unheld}]
  /\ session \in [Sessions -> SessionTypes]

(* A session that evicts holds the gate, and no hot model is referenced.   *)
GateHeld ==
  \A s \in Sessions : In(s, "evicting") =>
    gate = s /\ session[s].model \in MediaModels /\ \A h \in HotModels : references[h] = 0

(* A session that starts or stops a model holds its lock.                  *)
LocksHeld ==
  \A s \in Sessions :
    /\ session[s].phase \in {"starting", "stopping"} => modelLock[session[s].model] = s
    /\ In(s, "starting") => ~Running(session[s].model)

(* Every session between the gate and the end of unload has a reference of *)
(* its own, whatever other references a fault has leaked.                  *)
Holding == {"boot", "starting", "queued", "inferring", "unload"}
Holders(m) == {s \in Sessions : session[s].model = m /\ session[s].phase \in Holding}

RefsCover == \A m \in Models : Cardinality(Holders(m)) <= references[m]

InferenceInv ==
  InferenceTypes /\ GateHeld /\ LocksHeld /\ RefsCover /\ GpuIsExclusive /\ SingleFlight

-----------------------------------------------------------------------------
(* A lock that is free is held by no session.                              *)
LEMMA FreeIsNobody == Unheld \notin Sessions
BY InferenceAssumption DEF Unheld

(* The invariant holds at first.                                           *)
LEMMA InferenceInitInv == InferenceInit => InferenceInv
<1> SUFFICES ASSUME InferenceInit PROVE InferenceInv
  OBVIOUS
<1>1. (CHOOSE m \in Models : TRUE) \in Models
  BY InferenceAssumption DEF Models
<1>2. InferenceTypes
  BY <1>1 DEF InferenceInit, InferenceTypes, SessionTypes, Phases
<1>3. GateHeld /\ LocksHeld /\ GpuIsExclusive /\ SingleFlight
  BY DEF InferenceInit, GateHeld, LocksHeld, In, GpuIsExclusive, Referenced, SingleFlight, Running, Models
<1>4. RefsCover
  <2>1. \A m \in Models : Holders(m) = {}
    BY DEF InferenceInit, Holders, Holding
  <2> QED BY <2>1, FS_EmptySet DEF InferenceInit, RefsCover
<1> QED BY <1>2, <1>3, <1>4 DEF InferenceInv

(* The sessions that hold a model are finitely many.                       *)
LEMMA HoldersAreFinite ==
  \A m : IsFiniteSet(Holders(m)) /\ Cardinality(Holders(m)) \in Nat
BY InferenceAssumption, FS_Subset, FS_CardinalityType DEF Holders

(* References of the sessions that hold a model.                           *)
LEMMA HolderReferenced ==
  ASSUME InferenceInv, NEW s \in Sessions, session[s].phase \in Holding
  PROVE  session[s].model \in Models /\ references[session[s].model] >= 1
<1> DEFINE m == session[s].model
<1>1. m \in Models /\ references[m] \in Nat
  BY DEF InferenceInv, InferenceTypes, SessionTypes
<1>2. s \in Holders(m)
  BY DEF Holders
<1>3. Cardinality(Holders(m)) # 0
  BY <1>2, HoldersAreFinite, FS_EmptySet
<1>4. Cardinality(Holders(m)) <= references[m] /\ Cardinality(Holders(m)) \in Nat
  BY <1>1, HoldersAreFinite DEF InferenceInv, RefsCover
<1> QED BY <1>1, <1>3, <1>4

(* Two of them are two references.                                         *)
LEMMA TwoHolders ==
  ASSUME InferenceInv, NEW s \in Sessions, NEW t \in Sessions, s # t,
         session[s].phase \in Holding, session[t].phase \in Holding, session[s].model = session[t].model
  PROVE  references[session[s].model] >= 2
<1> DEFINE m == session[s].model
           H == Holders(m)
<1>1. m \in Models /\ references[m] \in Nat
  BY DEF InferenceInv, InferenceTypes, SessionTypes
<1>2. s \in H /\ t \in H /\ t \in H \ {s}
  BY DEF Holders
<1>3. IsFiniteSet(H) /\ Cardinality(H) \in Nat /\ Cardinality(H) <= references[m]
  BY <1>1, HoldersAreFinite DEF InferenceInv, RefsCover
<1> HIDE DEF H
<1>4. IsFiniteSet(H \ {s}) /\ Cardinality(H \ {s}) = Cardinality(H) - 1 /\ Cardinality(H \ {s}) \in Nat
  BY <1>2, <1>3, FS_RemoveElement, FS_CardinalityType
<1>5. Cardinality(H \ {s}) # 0
  BY <1>2, <1>4, FS_EmptySet
<1> QED BY <1>1, <1>3, <1>4, <1>5

(* Sessions that hold less than before, with the references they had.      *)
LEMMA FewerHold ==
  ASSUME InferenceInv, UNCHANGED references, \A m \in Models : Holders(m)' \subseteq Holders(m)
  PROVE  RefsCover'
<1> SUFFICES ASSUME NEW m \in Models PROVE Cardinality(Holders(m)') <= references'[m]
  BY DEF RefsCover
<1>1. Cardinality(Holders(m)) <= references[m] /\ references[m] \in Nat
  BY DEF InferenceInv, RefsCover, InferenceTypes
<1>2. Cardinality(Holders(m)') <= Cardinality(Holders(m)) /\ Cardinality(Holders(m)') \in Nat
  BY HoldersAreFinite, FS_Subset, FS_CardinalityType
<1> QED BY <1>1, <1>2, HoldersAreFinite

(* One session moves.                                                      *)
Moves(s, phase) ==
  /\ session'[s].phase = phase /\ session'[s].model = session[s].model
  /\ \A t \in Sessions : t # s => session'[t] = session[t]
  /\ session' \in [Sessions -> SessionTypes]

(* A session changes its phase.                                            *)
LEMMA MoveMoves ==
  ASSUME InferenceInv, NEW s \in Sessions, NEW phase \in Phases, Move(s, phase)
  PROVE  Moves(s, phase)
<1>1. session \in [Sessions -> SessionTypes] /\ session' = [session EXCEPT ![s].phase = phase]
  BY DEF InferenceInv, InferenceTypes, Move
<1> QED BY <1>1 DEF Moves, SessionTypes

(* References cover the holders when none is added.                        *)
LEMMA MoveHolds ==
  ASSUME InferenceInv, NEW s \in Sessions, NEW phase \in Phases, Moves(s, phase), UNCHANGED references,
         phase \in Holding => session[s].phase \in Holding
  PROVE  RefsCover'
<1>1. \A m \in Models : Holders(m)' \subseteq Holders(m)
  BY DEF Holders, Moves
<1> QED BY <1>1, FewerHold

-----------------------------------------------------------------------------
(* A session asks for a model.                                             *)
LEMMA OpenKeepsInv ==
  ASSUME InferenceInv, NEW s \in Sessions, NEW m \in Models, OpenSession(s, m)
  PROVE  InferenceInv'
<1>1. /\ UNCHANGED <<references, entry, alive, gate, modelLock>>
      /\ session' = [session EXCEPT ![s] = [phase |-> "gate", model |-> m]]
  BY DEF OpenSession
<1>2. /\ session'[s] = [phase |-> "gate", model |-> m]
      /\ \A t \in Sessions : t # s => session'[t] = session[t]
      /\ session' \in [Sessions -> SessionTypes]
  BY <1>1 DEF InferenceInv, InferenceTypes, SessionTypes, Phases
<1>3. InferenceTypes'
  BY <1>1, <1>2 DEF InferenceInv, InferenceTypes
<1>4. GateHeld' /\ LocksHeld'
  BY <1>1, <1>2 DEF InferenceInv, GateHeld, LocksHeld, In, Running
<1>5. RefsCover'
  <2>1. \A n \in Models : Holders(n)' \subseteq Holders(n)
    BY <1>2 DEF Holders, Holding
  <2> QED BY <1>1, <2>1, FewerHold
<1>6. GpuIsExclusive' /\ SingleFlight'
  BY <1>1 DEF InferenceInv, GpuIsExclusive, Referenced, SingleFlight, Running
<1> QED BY <1>3, <1>4, <1>5, <1>6 DEF InferenceInv

(* It passes the gate, or evicts an idle model first.                      *)
LEMMA GateKeepsInv ==
  ASSUME InferenceInv, NEW s \in Sessions, PassGate(s)
  PROVE  InferenceInv'
<1> DEFINE m == session[s].model
<1>0. /\ m \in Models /\ InferenceTypes /\ GateHeld /\ LocksHeld /\ RefsCover /\ GpuIsExclusive /\ SingleFlight
      /\ UNCHANGED modelLock
      /\ (In(s, "gate") /\ gate = Unheld) \/ (In(s, "evicting") /\ gate = s)
  BY DEF InferenceInv, InferenceTypes, SessionTypes, PassGate
(* Nobody else is evicting, and without a conflict no reference is in the way. *)
<1>1. \A t \in Sessions : t # s => ~In(t, "evicting")
  BY <1>0, FreeIsNobody DEF GateHeld
<1>2. In(s, "evicting") => m \in MediaModels /\ ~ActiveConflict(m)
  BY <1>0 DEF GateHeld, ActiveConflict, Referenced
<1>3. CASE Move(s, "waiting") /\ UNCHANGED <<references, entry, alive, gate>> /\ In(s, "gate")
  <2>1. Moves(s, "waiting")
    BY <1>3, MoveMoves DEF Phases
  <2>2. RefsCover'
    BY <1>3, <2>1, MoveHolds DEF Phases, Holding
  <2>3. InferenceTypes'
    BY <1>0, <1>3, <2>1 DEF InferenceTypes, Moves
  <2>4. GateHeld' /\ LocksHeld'
    BY <1>0, <1>3, <2>1 DEF GateHeld, LocksHeld, In, Running, Moves
  <2>5. GpuIsExclusive' /\ SingleFlight'
    BY <1>0, <1>3 DEF GpuIsExclusive, Referenced, SingleFlight, Running
  <2> QED BY <2>2, <2>3, <2>4, <2>5 DEF InferenceInv
<1>4. ASSUME ~ActiveConflict(m), m \in MediaModels, gate' = s, Move(s, "evicting"), UNCHANGED references,
             NEW h \in IdleHot, entry' = [entry EXCEPT ![h] = "none"], alive' = [alive EXCEPT ![h] = @ - 1]
      PROVE  InferenceInv'
  <2>1. Moves(s, "evicting")
    BY <1>4, MoveMoves DEF Phases
  <2>2. RefsCover'
    BY <1>4, <2>1, MoveHolds DEF Phases, Holding
  <2>3. h \in Models /\ alive[h] = 1 /\ entry[h] = "live"
    BY <1>0 DEF IdleHot, SingleFlight, Running, Models
  <2>4. /\ entry'[h] = "none" /\ alive'[h] = 0
        /\ \A n \in Models : n # h => entry'[n] = entry[n] /\ alive'[n] = alive[n]
        /\ entry' \in [Models -> {"none", "live", "dead"}] /\ alive' \in [Models -> Nat]
    BY <1>0, <1>4, <2>3 DEF InferenceTypes
  <2>5. InferenceTypes'
    BY <1>0, <1>4, <2>1, <2>4 DEF InferenceTypes, Moves
  <2>6. \A g \in HotModels : references[g] = 0
    BY <1>0, <1>4, InferenceAssumption DEF ActiveConflict, Referenced, InferenceTypes, Models
  <2>7. GateHeld'
    BY <1>1, <1>4, <2>1, <2>6 DEF GateHeld, In, Moves
  <2>8. LocksHeld'
    BY <1>0, <2>1, <2>4 DEF LocksHeld, In, Running, Moves, InferenceTypes, SessionTypes
  <2>9. GpuIsExclusive'
    BY <1>0, <1>4, <2>4 DEF GpuIsExclusive, Referenced, Models
  <2>10. SingleFlight'
    BY <1>0, <2>4 DEF SingleFlight, Running
  <2> QED BY <2>2, <2>5, <2>7, <2>8, <2>9, <2>10 DEF InferenceInv
<1>5. ASSUME ~ActiveConflict(m), m \in HotModels \/ IdleHot = {}, Reserve(s), gate' = Unheld, UNCHANGED <<entry, alive>>
      PROVE  InferenceInv'
  <2>1. Moves(s, "boot") /\ references' = [references EXCEPT ![m] = @ + 1]
    BY <1>5, MoveMoves DEF Reserve, Phases
  <2>2. /\ references'[m] = references[m] + 1 /\ references[m] \in Nat
        /\ \A n \in Models : n # m => references'[n] = references[n]
        /\ references' \in [Models -> Nat]
    BY <1>0, <2>1 DEF InferenceTypes
  <2>3. InferenceTypes'
    BY <1>0, <1>5, <2>1, <2>2 DEF InferenceTypes, Moves
  <2>4. GateHeld'
    BY <1>1, <2>1 DEF GateHeld, In, Moves
  <2>5. LocksHeld'
    BY <1>0, <1>5, <2>1 DEF LocksHeld, In, Running, Moves
  <2>6. RefsCover'
    <3> SUFFICES ASSUME NEW n \in Models PROVE Cardinality(Holders(n)') <= references'[n]
      BY DEF RefsCover
    <3>1. Cardinality(Holders(n)) <= references[n] /\ references[n] \in Nat
      BY <1>0 DEF RefsCover, InferenceTypes
    <3>2. CASE n = m
      <4>1. Holders(n)' = Holders(n) \cup {s} /\ s \notin Holders(n)
        BY <1>0, <2>1, <3>2 DEF Holders, Holding, Moves, In
      <4>2. Cardinality(Holders(n)') = Cardinality(Holders(n)) + 1
        BY <4>1, HoldersAreFinite, FS_AddElement
      <4> QED BY <2>2, <3>1, <3>2, <4>2, HoldersAreFinite
    <3>3. CASE n # m
      <4>1. Holders(n)' = Holders(n)
        BY <2>1, <3>3 DEF Holders, Moves
      <4> QED BY <2>2, <3>1, <3>3, <4>1
    <3> QED BY <3>2, <3>3
  <2>7. GpuIsExclusive'
    <3>1. CASE m \in MediaModels
      <4>1. \A h \in HotModels : references[h] = 0 /\ h # m /\ h \in Models
        BY <1>0, <1>5, <3>1, InferenceAssumption DEF ActiveConflict, Referenced, InferenceTypes, Models
      <4>2. IdleHot = {}
        BY <1>5, <3>1, InferenceAssumption
      <4>3. \A h \in HotModels : ~Running(h)
        BY <4>1, <4>2 DEF IdleHot
      <4>4. \A h \in HotModels : alive[h] = 0
        BY <1>0, <4>1, <4>3 DEF SingleFlight
      <4> QED BY <1>5, <2>2, <4>1, <4>4 DEF GpuIsExclusive
    <3>2. CASE m \notin MediaModels
      <4>1. \A n \in MediaModels : references[n] = 0 /\ n \in Models /\ n # m
        BY <1>0, <1>5, <3>2 DEF ActiveConflict, Referenced, InferenceTypes, Models
      <4>2. ~Referenced(MediaModels)'
        BY <2>2, <4>1 DEF Referenced
      <4> QED BY <4>2 DEF GpuIsExclusive
    <3> QED BY <3>1, <3>2
  <2>8. SingleFlight'
    BY <1>0, <1>5 DEF SingleFlight, Running
  <2> QED BY <2>3, <2>4, <2>5, <2>6, <2>7, <2>8 DEF InferenceInv
<1> HIDE DEF m
<1> QED BY <1>2, <1>3, <1>4, <1>5 DEF PassGate, m

(* The steps that neither take nor give a reference and leave the table.   *)
LEMMA QuietKeepsInv ==
  ASSUME InferenceInv, NEW s \in Sessions, NEW phase \in Phases \ {"evicting"}, Moves(s, phase),
         UNCHANGED <<references, entry, alive>>,
         modelLock' \in [Models -> Sessions \cup {Unheld}],
         \A t \in Sessions : t # s => (gate = t => gate' = t) /\ \A n \in Models : modelLock[n] = t => modelLock'[n] = t,
         phase \in Holding => session[s].phase \in Holding,
         phase \in {"starting", "stopping"} => modelLock'[session[s].model] = s,
         phase = "starting" => ~Running(session[s].model)
  PROVE  InferenceInv'
<1>1. RefsCover'
  BY MoveHolds
<1>2. InferenceTypes'
  BY DEF InferenceInv, InferenceTypes, Moves
<1>3. GateHeld'
  BY DEF InferenceInv, GateHeld, In, Moves
<1>4. LocksHeld'
  BY DEF InferenceInv, LocksHeld, In, Running, Moves, InferenceTypes, SessionTypes
<1>5. GpuIsExclusive' /\ SingleFlight'
  BY DEF InferenceInv, GpuIsExclusive, Referenced, SingleFlight, Running
<1> QED BY <1>1, <1>2, <1>3, <1>4, <1>5 DEF InferenceInv

(* Its process is started, it takes its turn, ends it, or gives up.        *)
LEMMA TurnsKeepInv ==
  ASSUME InferenceInv, NEW s \in Sessions,
         Boot(s) \/ TakeTurn(s) \/ EndTurn(s) \/ Reaped(s) \/ Abandon(s)
  PROVE  InferenceInv'
<1> DEFINE m == session[s].model
<1>0. m \in Models /\ InferenceTypes
  BY DEF InferenceInv, InferenceTypes, SessionTypes
<1>1. CASE Boot(s)
  <2>1. UNCHANGED <<references, entry, alive, gate>> /\ In(s, "boot")
    BY <1>1 DEF Boot
  <2>2. CASE Move(s, "queued") /\ UNCHANGED modelLock
    <3>1. Moves(s, "queued")
      BY <2>2, MoveMoves DEF Phases
    <3> QED BY <1>0, <2>1, <2>2, <3>1, QuietKeepsInv DEF Phases, Holding, In, InferenceTypes
  <2>3. CASE Move(s, "starting") /\ modelLock' = [modelLock EXCEPT ![m] = s] /\ modelLock[m] = Unheld /\ ~Running(m)
    <3>1. Moves(s, "starting")
      BY <2>3, MoveMoves DEF Phases
    <3>2. /\ modelLock'[m] = s /\ modelLock' \in [Models -> Sessions \cup {Unheld}]
          /\ \A n \in Models : n # m => modelLock'[n] = modelLock[n]
      BY <1>0, <2>3 DEF InferenceTypes
    <3>3. \A t \in Sessions : \A n \in Models : modelLock[n] = t => modelLock'[n] = t
      BY <2>3, <3>2, FreeIsNobody
    <3> QED BY <2>1, <2>3, <3>1, <3>2, <3>3, QuietKeepsInv DEF Phases, Holding, In
  <2> QED BY <1>1, <2>2, <2>3 DEF Boot, StartedMeanwhile
<1>2. CASE TakeTurn(s)
  <2>1. Moves(s, "inferring") /\ UNCHANGED <<references, entry, alive, gate, modelLock>> /\ In(s, "queued")
    BY <1>2, MoveMoves DEF TakeTurn, Phases
  <2> QED BY <1>0, <2>1, QuietKeepsInv DEF Phases, Holding, In, InferenceTypes
<1>3. CASE EndTurn(s)
  <2>1. Moves(s, "unload") /\ UNCHANGED <<references, entry, alive, gate, modelLock>> /\ In(s, "inferring")
    BY <1>3, MoveMoves DEF EndTurn, Phases
  <2> QED BY <1>0, <2>1, QuietKeepsInv DEF Phases, Holding, In, InferenceTypes
<1>4. CASE Reaped(s)
  <2>1. Moves(s, "notify") /\ UNCHANGED <<references, entry, alive, gate>> /\ In(s, "stopping")
        /\ modelLock' = [modelLock EXCEPT ![m] = Unheld]
    BY <1>4, MoveMoves DEF Reaped, Phases
  <2>2. modelLock[m] = s
    BY <2>1 DEF InferenceInv, LocksHeld, In
  <2>3. /\ modelLock' \in [Models -> Sessions \cup {Unheld}]
        /\ \A n \in Models : n # m => modelLock'[n] = modelLock[n]
    BY <1>0, <2>1 DEF InferenceTypes
  <2>4. \A t \in Sessions : t # s => \A n \in Models : modelLock[n] = t => modelLock'[n] = t
    BY <2>2, <2>3
  <2> QED BY <2>1, <2>3, <2>4, QuietKeepsInv DEF Phases, Holding
<1>5. CASE Abandon(s)
  <2>1. Moves(s, "out") /\ UNCHANGED <<references, entry, alive>>
        /\ gate' = (IF gate = s THEN Unheld ELSE gate)
        /\ modelLock' = [modelLock EXCEPT ![m] = IF @ = s THEN Unheld ELSE @]
    BY <1>5, MoveMoves DEF Abandon, Phases
  <2>2. /\ modelLock' \in [Models -> Sessions \cup {Unheld}]
        /\ \A n \in Models : modelLock[n] # s => modelLock'[n] = modelLock[n]
    BY <1>0, <2>1 DEF InferenceTypes
  <2>4. \A t \in Sessions : t # s => /\ (gate = t => gate' = t)
                                     /\ \A n \in Models : modelLock[n] = t => modelLock'[n] = t
    BY <2>1, <2>2
  <2> QED BY <2>1, <2>2, <2>4, QuietKeepsInv DEF Phases, Holding
<1> QED BY <1>1, <1>2, <1>3, <1>4, <1>5

(* A process that has started lets its session in.                         *)
LEMMA StartKeepsInv ==
  ASSUME InferenceInv, NEW s \in Sessions, HasStarted(s)
  PROVE  InferenceInv'
<1> DEFINE m == session[s].model
<1>0. m \in Models /\ InferenceTypes /\ GateHeld /\ LocksHeld /\ RefsCover /\ GpuIsExclusive /\ SingleFlight
  BY DEF InferenceInv, InferenceTypes, SessionTypes
<1>1. /\ Moves(s, "queued") /\ In(s, "starting") /\ UNCHANGED <<references, gate>>
      /\ entry' = [entry EXCEPT ![m] = "live"] /\ alive' = [alive EXCEPT ![m] = @ + 1]
      /\ modelLock' = [modelLock EXCEPT ![m] = Unheld]
  BY MoveMoves DEF HasStarted, Phases
<1>2. modelLock[m] = s /\ ~Running(m) /\ alive[m] = 0
  BY <1>0, <1>1 DEF LocksHeld, In, SingleFlight
<1>3. /\ entry'[m] = "live" /\ alive'[m] = 1
      /\ \A n \in Models : n # m => entry'[n] = entry[n] /\ alive'[n] = alive[n] /\ modelLock'[n] = modelLock[n]
      /\ entry' \in [Models -> {"none", "live", "dead"}] /\ alive' \in [Models -> Nat]
      /\ modelLock' \in [Models -> Sessions \cup {Unheld}]
  BY <1>0, <1>1, <1>2 DEF InferenceTypes
<1>4. InferenceTypes'
  BY <1>0, <1>1, <1>3 DEF InferenceTypes, Moves
<1>5. GateHeld'
  BY <1>0, <1>1 DEF GateHeld, In, Moves
<1>6. LocksHeld'
  <2> SUFFICES ASSUME NEW t \in Sessions
               PROVE  /\ session'[t].phase \in {"starting", "stopping"} => modelLock'[session'[t].model] = t
                      /\ session'[t].phase = "starting" => entry'[session'[t].model] # "live"
    BY DEF LocksHeld, In, Running
  <2>1. CASE t = s
    BY <1>1, <2>1 DEF Moves
  <2>2. CASE t # s
    <3>1. session'[t] = session[t] /\ session[t].model \in Models
      BY <1>0, <1>1, <2>2 DEF Moves, InferenceTypes, SessionTypes
    <3>2. session[t].phase \in {"starting", "stopping"} => session[t].model # m
      BY <1>0, <1>2, <2>2 DEF LocksHeld
    <3> QED BY <1>0, <1>3, <3>1, <3>2 DEF LocksHeld, In, Running
  <2> QED BY <2>1, <2>2
<1>7. RefsCover'
  BY <1>1, MoveHolds DEF Phases, Holding, In
<1>8. GpuIsExclusive'
  <2>1. references[m] >= 1 /\ references[m] \in Nat
    BY <1>0, <1>1, HolderReferenced DEF Holding, In, InferenceTypes
  <2>2. CASE m \in HotModels
    BY <1>0, <1>1, <2>1, <2>2 DEF GpuIsExclusive, Referenced
  <2>3. CASE m \notin HotModels
    BY <1>0, <1>1, <1>3, <2>3 DEF GpuIsExclusive, Referenced, Models
  <2> QED BY <2>2, <2>3
<1>9. SingleFlight'
  BY <1>0, <1>3 DEF SingleFlight, Running
<1> QED BY <1>4, <1>5, <1>6, <1>7, <1>8, <1>9 DEF InferenceInv

(* The reference a session gives back is its own.                          *)
LEMMA ReleaseKeepsInv ==
  ASSUME InferenceInv, NEW s \in Sessions, Release(s)
  PROVE  InferenceInv'
<1> DEFINE m == session[s].model
<1>0. m \in Models /\ InferenceTypes /\ GateHeld /\ LocksHeld /\ RefsCover /\ GpuIsExclusive /\ SingleFlight
  BY DEF InferenceInv, InferenceTypes, SessionTypes
<1>1. /\ In(s, "unload") /\ modelLock[m] = Unheld /\ UNCHANGED gate
      /\ references' = [references EXCEPT ![m] = references[m] - 1]
  BY DEF Release, LetGo
<1>2. references[m] >= 1 /\ references[m] \in Nat
  BY <1>0, <1>1, HolderReferenced DEF Holding, In, InferenceTypes
<1>3. /\ references'[m] = references[m] - 1 /\ references' \in [Models -> Nat]
      /\ \A n \in Models : n # m => references'[n] = references[n]
  BY <1>0, <1>1, <1>2 DEF InferenceTypes
<1>4. PICK phase \in {"notify", "stopping", "out"} :
        /\ Moves(s, phase)
        /\ phase = "stopping" => modelLock' = [modelLock EXCEPT ![m] = s]
        /\ phase # "stopping" => UNCHANGED modelLock
  BY MoveMoves DEF Release, Phases
<1>5. /\ modelLock' \in [Models -> Sessions \cup {Unheld}]
      /\ \A n \in Models : n # m => modelLock'[n] = modelLock[n]
      /\ phase = "stopping" => modelLock'[m] = s
  BY <1>0, <1>4 DEF InferenceTypes
<1>6. /\ entry' \in [Models -> {"none", "live", "dead"}] /\ alive' \in [Models -> Nat]
      /\ \A n \in Models : n # m => entry'[n] = entry[n] /\ alive'[n] = alive[n]
      /\ \/ entry'[m] = entry[m] /\ alive'[m] = alive[m]
         \/ m \in MediaModels /\ entry'[m] = "none" /\ alive'[m] = 0
  <2>1. alive[m] = (IF Running(m) THEN 1 ELSE 0)
    BY <1>0 DEF SingleFlight
  <2>2. CASE UNCHANGED <<entry, alive>>
    BY <1>0, <2>2 DEF InferenceTypes
  <2>3. CASE /\ m \in MediaModels /\ entry' = [entry EXCEPT ![m] = "none"]
             /\ alive' = [alive EXCEPT ![m] = IF Running(m) THEN @ - 1 ELSE @]
    <3>1. (IF Running(m) THEN alive[m] - 1 ELSE alive[m]) = 0
      BY <2>1
    <3>2. alive' = [alive EXCEPT ![m] = 0]
      BY <2>3, <3>1
    <3> QED BY <1>0, <2>3, <3>2 DEF InferenceTypes
  <2>4. CASE /\ m \in MediaModels /\ entry' = [entry EXCEPT ![m] = "none"]
             /\ ~Running(m) /\ UNCHANGED alive
    BY <1>0, <2>1, <2>4 DEF InferenceTypes
  <2> QED BY <2>2, <2>3, <2>4 DEF Release
<1>7. InferenceTypes'
  BY <1>3, <1>4, <1>5, <1>6 DEF InferenceTypes, Moves
<1>8. GateHeld'
  <2>1. ASSUME NEW t \in Sessions, In(t, "evicting")
        PROVE  \A h \in HotModels : references'[h] = 0
    <3>1. \A h \in HotModels : references[h] = 0 /\ h \in Models /\ h # m
      BY <1>0, <1>2, <2>1 DEF GateHeld, Models
    <3> QED BY <1>3, <3>1
  <2>2. \A t \in Sessions : In(t, "evicting")' => t # s /\ In(t, "evicting") /\ session'[t] = session[t]
    BY <1>4 DEF In, Moves
  <2> QED BY <1>0, <1>1, <2>1, <2>2 DEF GateHeld
<1>9. LocksHeld'
  <2> SUFFICES ASSUME NEW t \in Sessions
               PROVE  /\ session'[t].phase \in {"starting", "stopping"} => modelLock'[session'[t].model] = t
                      /\ session'[t].phase = "starting" => entry'[session'[t].model] # "live"
    BY DEF LocksHeld, In, Running
  <2>1. CASE t = s
    BY <1>4, <1>5, <2>1 DEF Moves
  <2>2. CASE t # s
    <3>1. session'[t] = session[t] /\ session[t].model \in Models
      BY <1>0, <1>4, <2>2 DEF Moves, InferenceTypes, SessionTypes
    <3>2. session[t].phase \in {"starting", "stopping"} => session[t].model # m
      BY <1>0, <1>1, FreeIsNobody DEF LocksHeld
    <3> QED BY <1>0, <1>5, <1>6, <3>1, <3>2 DEF LocksHeld, In, Running
  <2> QED BY <2>1, <2>2
<1>10. RefsCover'
  <2> SUFFICES ASSUME NEW n \in Models PROVE Cardinality(Holders(n)') <= references'[n]
    BY DEF RefsCover
  <2>1. Cardinality(Holders(n)) <= references[n] /\ references[n] \in Nat
    BY <1>0 DEF RefsCover, InferenceTypes
  <2>2. CASE n = m
    <3>1. Holders(n)' = Holders(n) \ {s} /\ s \in Holders(n)
      BY <1>1, <1>4, <2>2 DEF Holders, Holding, Moves, In
    <3>2. Cardinality(Holders(n)') = Cardinality(Holders(n)) - 1
      BY <3>1, HoldersAreFinite, FS_RemoveElement
    <3> QED BY <1>3, <2>1, <2>2, <3>2, HoldersAreFinite
  <2>3. CASE n # m
    <3>1. Holders(n)' = Holders(n)
      BY <1>4, <2>3 DEF Holders, Moves
    <3> QED BY <1>3, <2>1, <2>3, <3>1
  <2> QED BY <2>2, <2>3
<1>11. GpuIsExclusive'
  <2>1. Referenced(MediaModels)' => Referenced(MediaModels)
    BY <1>0, <1>2, <1>3 DEF Referenced, Models
  <2>2. ASSUME NEW h \in HotModels, references[h] = 0, alive[h] = 0
        PROVE  references'[h] = 0 /\ alive'[h] = 0
    BY <1>2, <1>3, <1>6, <2>2 DEF Models
  <2> QED BY <1>0, <2>1, <2>2 DEF GpuIsExclusive
<1>12. SingleFlight'
  <2> SUFFICES ASSUME NEW n \in Models PROVE alive'[n] = (IF entry'[n] = "live" THEN 1 ELSE 0)
    BY DEF SingleFlight, Running
  <2> QED BY <1>0, <1>6 DEF SingleFlight, Running
<1> QED BY <1>7, <1>8, <1>9, <1>10, <1>11, <1>12 DEF InferenceInv

(* Waiters are woken.                                                      *)
LEMMA NotifyKeepsInv ==
  ASSUME InferenceInv, NEW s \in Sessions, NotifyWaiters(s)
  PROVE  InferenceInv'
<1>1. UNCHANGED <<references, entry, alive, gate, modelLock>> /\ In(s, "notify")
      /\ session' = [t \in Sessions |->
                      IF t = s THEN [session[s] EXCEPT !.phase = "out"]
                      ELSE IF Woken(t) THEN [session[t] EXCEPT !.phase = "gate"] ELSE session[t]]
  BY DEF NotifyWaiters
<1>2. ASSUME NEW t \in Sessions
      PROVE  /\ session'[t] \in SessionTypes /\ session'[t].model = session[t].model
             /\ session'[t].phase \in {"out", "gate"} \/ session'[t] = session[t]
  BY <1>1 DEF InferenceInv, InferenceTypes, SessionTypes, Phases
<1>3. session' \in [Sessions -> SessionTypes]
  BY <1>1, <1>2
<1>4. InferenceTypes'
  BY <1>1, <1>3 DEF InferenceInv, InferenceTypes
<1>5. GateHeld' /\ LocksHeld'
  BY <1>1, <1>2 DEF InferenceInv, GateHeld, LocksHeld, In, Running
<1>6. RefsCover'
  <2>1. \A n \in Models : Holders(n)' \subseteq Holders(n)
    BY <1>2 DEF Holders, Holding
  <2> QED BY <1>1, <2>1, FewerHold
<1>7. GpuIsExclusive' /\ SingleFlight'
  BY <1>1 DEF InferenceInv, GpuIsExclusive, Referenced, SingleFlight, Running
<1> QED BY <1>4, <1>5, <1>6, <1>7 DEF InferenceInv

(* A process dies.                                                         *)
LEMMA CrashKeepsInv ==
  ASSUME InferenceInv, NEW m \in Models, ProcessDies(m)
  PROVE  InferenceInv'
<1>1. /\ Running(m) /\ UNCHANGED <<references, gate, modelLock, session>>
      /\ entry' = [entry EXCEPT ![m] = "dead"] /\ alive' = [alive EXCEPT ![m] = @ - 1]
  BY DEF ProcessDies
<1>2. alive[m] = 1
  BY <1>1 DEF InferenceInv, SingleFlight
<1>3. /\ entry'[m] = "dead" /\ alive'[m] = 0
      /\ \A n \in Models : n # m => entry'[n] = entry[n] /\ alive'[n] = alive[n]
      /\ entry' \in [Models -> {"none", "live", "dead"}] /\ alive' \in [Models -> Nat]
  BY <1>1, <1>2 DEF InferenceInv, InferenceTypes
<1>4. InferenceTypes'
  BY <1>1, <1>3 DEF InferenceInv, InferenceTypes
<1>5. GateHeld'
  BY <1>1 DEF InferenceInv, GateHeld, In
<1>6. LocksHeld'
  BY <1>1, <1>3 DEF InferenceInv, LocksHeld, In, Running, InferenceTypes, SessionTypes
<1>7. RefsCover'
  BY <1>1, FewerHold DEF Holders
<1>8. GpuIsExclusive'
  BY <1>1, <1>3 DEF InferenceInv, GpuIsExclusive, Referenced, Models
<1>9. SingleFlight'
  BY <1>3 DEF InferenceInv, SingleFlight, Running
<1> QED BY <1>4, <1>5, <1>6, <1>7, <1>8, <1>9 DEF InferenceInv

-----------------------------------------------------------------------------
(* It is an invariant of the specification.                                *)
LEMMA InferenceInvariant == InferenceSpec => []InferenceInv
<1>1. InferenceInv /\ [InferenceNext]_inferenceVars => InferenceInv'
  <2> SUFFICES ASSUME InferenceInv, [InferenceNext]_inferenceVars PROVE InferenceInv'
    OBVIOUS
  <2>1. CASE UNCHANGED inferenceVars
    BY <2>1 DEF inferenceVars, InferenceInv, InferenceTypes, GateHeld, LocksHeld, RefsCover, Holders, In,
               GpuIsExclusive, Referenced, SingleFlight, Running
  <2>2. CASE InferenceNext
    BY <2>2, OpenKeepsInv, GateKeepsInv, TurnsKeepInv, StartKeepsInv, ReleaseKeepsInv, NotifyKeepsInv, CrashKeepsInv
       DEF InferenceNext, SessionStep
  <2> QED BY <2>1, <2>2
<1> QED BY <1>1, InferenceInitInv, PTL DEF InferenceSpec

(* The table drops a live process in an eviction, of a model without a     *)
(* reference, and in the release of the last one.                          *)
LEMMA ServedStays ==
  ASSUME InferenceInv, InferenceNext, NEW m \in Models, entry[m] = "live", entry'[m] = "none"
  PROVE  ~\E s \in Sessions : session[s] = [phase |-> "inferring", model |-> m]
<1> SUFFICES ASSUME NEW t \in Sessions, session[t] = [phase |-> "inferring", model |-> m] PROVE FALSE
  OBVIOUS
<1>0. entry \in [Models -> {"none", "live", "dead"}]
  BY DEF InferenceInv, InferenceTypes
<1>1. references[m] >= 1 /\ references[m] \in Nat /\ session[t].phase = "inferring" /\ session[t].model = m
  <2>1. session[t].phase = "inferring" /\ session[t].model = m
    OBVIOUS
  <2>2. references[m] \in Nat
    BY DEF InferenceInv, InferenceTypes
  <2> QED BY <2>1, <2>2, HolderReferenced DEF Holding
<1>2. ASSUME NEW s \in Sessions, PassGate(s) PROVE FALSE
  <2>1. PICK h \in IdleHot : entry' = [entry EXCEPT ![h] = "none"]
    BY <1>2 DEF PassGate
  <2>2. m = h
    BY <1>0, <2>1
  <2> QED BY <1>1, <2>2 DEF IdleHot
<1>3. ASSUME NEW s \in Sessions, Release(s) PROVE FALSE
  <2>1. entry' = [entry EXCEPT ![session[s].model] = "none"] /\ LastReference(session[s].model) /\ In(s, "unload")
    BY <1>3 DEF Release
  <2>2. session[s].model = m
    BY <1>0, <2>1
  <2>3. s # t
    BY <1>1, <2>1 DEF In
  <2>4. references[m] >= 2
    BY <1>1, <2>1, <2>2, <2>3, TwoHolders DEF Holding, In
  <2> QED BY <1>1, <2>1, <2>2, <2>4 DEF LastReference
<1>4. ASSUME NEW s \in Sessions, HasStarted(s) PROVE FALSE
  BY <1>0, <1>4 DEF HasStarted
<1>5. ASSUME NEW n \in Models, ProcessDies(n) PROVE FALSE
  BY <1>0, <1>5 DEF ProcessDies
<1>6. CASE UNCHANGED entry
  BY <1>6
<1> QED BY <1>2, <1>3, <1>4, <1>5, <1>6
    DEF InferenceNext, SessionStep, OpenSession, Boot, TakeTurn, EndTurn, Reaped, NotifyWaiters, Abandon

(* Hot and media models exclude each other on the GPU, one process of a    *)
(* model is started, and the manager stops none that a session infers on,  *)
(* whatever crashes, failed starts and cancellations come in between.      *)
THEOREM InferenceSafety == InferenceSpec => InferenceSafe
<1>1. InferenceInv => GpuIsExclusive /\ SingleFlight
  BY DEF InferenceInv
<1>2. InferenceInv /\ [InferenceNext]_inferenceVars
        => [\A m \in Models : entry[m] = "live" /\ entry'[m] = "none" =>
              ~\E s \in Sessions : session[s] = [phase |-> "inferring", model |-> m]]_inferenceVars
  BY ServedStays DEF inferenceVars
<1> QED BY <1>1, <1>2, InferenceInvariant, PTL DEF InferenceSpec, InferenceSafe, ServedWhileHeld

-----------------------------------------------------------------------------
(* Web search.                                                             *)

(* What RemoveAt leaves of a sequence.                                     *)
LEMMA RemovalProperties ==
  ASSUME NEW S, NEW s \in Seq(S), NEW i \in 1..Len(s)
  PROVE  /\ RemoveAt(s, i) \in Seq(S)
         /\ Len(RemoveAt(s, i)) = Len(s) - 1
         /\ \A j \in 1..Len(s) - 1 : RemoveAt(s, i)[j] = IF j < i THEN s[j] ELSE s[j + 1]
<1> DEFINE front == SubSeq(s, 1, i - 1)
           back  == SubSeq(s, i + 1, Len(s))
<1>1. Len(s) \in Nat /\ i \in Nat /\ i >= 1 /\ i <= Len(s)
  BY LenProperties
<1>2. \A j \in 1..Len(s) : s[j] \in S
  BY ElementOfSeq
<1>3. /\ front \in Seq(S) /\ Len(front) = i - 1
      /\ \A j \in 1..i - 1 : front[j] = s[j]
  <2>1. \A j \in 1..i - 1 : s[j] \in S
    BY <1>1, <1>2
  <2>2. Len(front) = IF 1 <= i - 1 THEN i - 1 - 1 + 1 ELSE 0
    BY <1>1, <2>1, SubSeqProperties
  <2>3. \A j \in 1..i - 1 : front[j] = s[1 + j - 1]
    BY <1>1, <2>1, SubSeqProperties
  <2> QED BY <1>1, <2>1, <2>2, <2>3, SubSeqProperties
<1>4. /\ back \in Seq(S) /\ Len(back) = Len(s) - i
      /\ \A j \in 1..Len(s) - i : back[j] = s[i + j]
  <2>1. \A j \in i + 1..Len(s) : s[j] \in S
    BY <1>1, <1>2
  <2>2. Len(back) = IF i + 1 <= Len(s) THEN Len(s) - (i + 1) + 1 ELSE 0
    BY <1>1, <2>1, SubSeqProperties
  <2>3. \A j \in 1..Len(s) - (i + 1) + 1 : back[j] = s[i + 1 + j - 1]
    BY <1>1, <2>1, SubSeqProperties
  <2> QED BY <1>1, <2>1, <2>2, <2>3, SubSeqProperties
<1>5. RemoveAt(s, i) = front \o back
  BY DEF RemoveAt
<1> HIDE DEF front, back
<1>6. /\ front \o back \in Seq(S)
      /\ Len(front \o back) = Len(front) + Len(back)
      /\ \A j \in 1..Len(front) + Len(back) :
           (front \o back)[j] = IF j <= Len(front) THEN front[j] ELSE back[j - Len(front)]
  BY <1>3, <1>4, ConcatProperties
<1>7. Len(front) + Len(back) = Len(s) - 1
  BY <1>1, <1>3, <1>4
<1>8. ASSUME NEW j \in 1..Len(s) - 1
      PROVE  (front \o back)[j] = IF j < i THEN s[j] ELSE s[j + 1]
  <2>1. j <= i - 1 <=> j < i
    BY <1>1
  <2>2. CASE j < i
    BY <2>1, <2>2, <1>1, <1>3, <1>6, <1>7
  <2>3. CASE ~(j < i)
    <3>1. j - (i - 1) \in 1..Len(s) - i /\ i + (j - (i - 1)) = j + 1
      BY <2>3, <1>1
    <3>2. (front \o back)[j] = back[j - (i - 1)]
      BY <2>1, <2>3, <1>1, <1>3, <1>6, <1>7
    <3> QED BY <3>1, <3>2, <2>3, <1>4
  <2> QED BY <2>2, <2>3
<1> QED BY <1>5, <1>6, <1>7, <1>8

-----------------------------------------------------------------------------
(* Types of the cache, of the searches under way and of the answers.       *)
SearchEntries == [key : SearchKeys, report : Exchanged, storedAt : Nat, askedAt : Nat]
SearchAnswers == [report : Exchanged, age : Int, fromCache : BOOLEAN]
SearchAsks == {NotAsking} \cup [key : SearchKeys, at : Nat]

SearchTypes ==
  /\ searchClock \in 0..MaxSearchTime
  /\ cached \in Seq(SearchEntries)
  /\ asking \in [Searchers -> SearchAsks]
  /\ answered \in [Searchers -> SearchAnswers]

(* An OrderedDict has one entry per key.                                   *)
DistinctKeys(entries) == \A i, j \in 1..Len(entries) : entries[i].key = entries[j].key => i = j

(* An entry is a complete report, stored as of the time it was asked for.  *)
Whole(e) == Cacheable(e.report) /\ e.storedAt = e.askedAt

(* The inductive invariant.                                                *)
SearchInv ==
  /\ SearchTypes
  /\ Len(cached) <= CacheEntries
  /\ DistinctKeys(cached)
  /\ \A i \in 1..Len(cached) : Whole(cached[i])
  /\ SearchIsRecent /\ DegradedIsAskedAgain

(* A report that is complete enough to be kept is no refusal, and the      *)
(* provider neither stayed silent nor sent more than was asked for.        *)
LEMMA ReportsExchanged ==
  /\ Refusal \in Exchanged
  /\ \A r \in Exchanged : Cacheable(r) => r # Refusal /\ ~r.silent /\ ~r.capped
<1>1. Refusal \in Exchanged
  BY DEF Exchanged
<1>2. ASSUME NEW r \in Exchanged, Cacheable(r)
      PROVE  r # Refusal /\ ~r.silent /\ ~r.capped
  <2>1. Refusal.outcome = "refused"
    BY DEF Refusal
  <2>2. r # Refusal
    BY <1>2, <2>1 DEF Cacheable
  <2>3. PICK n \in 0..ResultBudget + 1, u \in BOOLEAN : r = SearchReport(n, u)
    BY <2>2 DEF Exchanged
  <2>4. r.silent = u /\ r.capped = (n > ResultBudget)
        /\ r.outcome = IF n > ResultBudget \/ u THEN "partial" ELSE "complete"
    BY <2>3 DEF SearchReport
  <2> QED BY <1>2, <2>2, <2>4 DEF Cacheable
<1> QED BY <1>1, <1>2

(* What the cache keeps beside the entry of a key.                         *)
LEMMA OthersProperties ==
  ASSUME SearchInv, NEW k
  PROVE  /\ Others(k) \in Seq(SearchEntries)
         /\ Len(Others(k)) <= Len(cached)
         /\ k \in CachedKeys => Len(Others(k)) = Len(cached) - 1
         /\ DistinctKeys(Others(k))
         /\ \A i \in 1..Len(Others(k)) : Whole(Others(k)[i]) /\ Others(k)[i].key # k
<1> DEFINE n == Len(cached)
           at == EntryAt(k)
           rest == Others(k)
<1>1. n \in Nat /\ DOMAIN cached = 1..n /\ cached \in Seq(SearchEntries)
  BY LenProperties DEF SearchInv, SearchTypes
<1>2. CASE k \notin CachedKeys
  <2>1. Others(k) = cached
    BY <1>2 DEF Others
  <2>2. \A i \in 1..n : cached[i].key # k
    BY <1>1, <1>2 DEF CachedKeys
  <2>3. DistinctKeys(cached) /\ \A i \in 1..n : Whole(cached[i])
    BY DEF SearchInv
  <2> HIDE DEF n
  <2>4. n = Len(cached)
    BY DEF n
  <2>5. cached \in Seq(SearchEntries) /\ Len(cached) <= Len(cached)
    BY <1>1, <2>4
  <2>6. \A i \in 1..Len(cached) : Whole(cached[i]) /\ cached[i].key # k
    BY <2>2, <2>3, <2>4
  <2> QED BY <1>2, <2>1, <2>3, <2>5, <2>6, Zenon
<1>3. CASE k \in CachedKeys
  <2>1. at \in 1..n /\ cached[at].key = k
    BY <1>1, <1>3 DEF CachedKeys, EntryAt
  <2>2. rest = RemoveAt(cached, at)
    BY <1>3, SMTT(40) DEF Others
  <2> HIDE DEF at, rest, n
  <2>3. /\ rest \in Seq(SearchEntries) /\ Len(rest) = n - 1
        /\ \A j \in 1..n - 1 : rest[j] = IF j < at THEN cached[j] ELSE cached[j + 1]
    BY <1>1, <2>1, <2>2, RemovalProperties DEF n
  <2>4. \A j \in 1..n - 1 : \E i \in 1..n : rest[j] = cached[i] /\ i # at /\ (i = j \/ i = j + 1)
                                            /\ (i = j <=> j < at)
    <3> TAKE j \in 1..n - 1
    <3>1. CASE j < at
      BY <3>1, <1>1, <2>1, <2>3
    <3>2. CASE ~(j < at)
      <4>1. j + 1 \in 1..n /\ j + 1 # at /\ j + 1 # j
        BY <3>2, <1>1, <2>1
      <4> QED BY <4>1, <3>2, <2>3
    <3> QED BY <3>1, <3>2
  <2>5. \A i, j \in 1..n : cached[i].key = cached[j].key => i = j
    BY DEF SearchInv, DistinctKeys, n
  <2>6. DistinctKeys(rest)
    <3> SUFFICES ASSUME NEW i \in 1..n - 1, NEW j \in 1..n - 1, rest[i].key = rest[j].key
                 PROVE  i = j
      BY <2>3 DEF DistinctKeys
    <3>1. PICK p \in 1..n : rest[i] = cached[p] /\ (p = i \/ p = i + 1) /\ (p = i <=> i < at)
      BY <2>4
    <3>2. PICK q \in 1..n : rest[j] = cached[q] /\ (q = j \/ q = j + 1) /\ (q = j <=> j < at)
      BY <2>4
    <3>3. p = q
      BY <3>1, <3>2, <2>5
    <3> QED BY <3>1, <3>2, <3>3, <1>1, <2>1
  <2>7. \A j \in 1..n - 1 : Whole(rest[j]) /\ rest[j].key # k
    BY <2>1, <2>4, <2>5 DEF SearchInv, n
  <2> QED BY <1>1, <2>3, <2>6, <2>7 DEF n, rest
<1> QED BY <1>2, <1>3

(* A new newest entry, and what falls off the other end.                   *)
LEMMA KeptProperties ==
  ASSUME SearchInv, NEW k, NEW e \in SearchEntries, e.key = k, Whole(e)
  PROVE  LET more == Append(Others(k), e) IN
         /\ Kept(more) \in Seq(SearchEntries)
         /\ Len(Kept(more)) <= CacheEntries
         /\ DistinctKeys(Kept(more))
         /\ \A i \in 1..Len(Kept(more)) : Whole(Kept(more)[i])
         /\ Len(more) <= CacheEntries => Kept(more) = more
<1> DEFINE rest == Others(k)
           more == Append(rest, e)
           n == Len(rest)
           d == IF n + 1 > CacheEntries THEN n + 1 - CacheEntries ELSE 0
<1>1. /\ rest \in Seq(SearchEntries) /\ n \in Nat
      /\ DistinctKeys(rest)
      /\ \A i \in 1..n : Whole(rest[i]) /\ rest[i].key # k
  BY OthersProperties, LenProperties
<1>2. CacheEntries \in Nat /\ CacheEntries >= 1
  BY SearchAssumption
<1> HIDE DEF rest
<1>3. /\ more \in Seq(SearchEntries) /\ Len(more) = n + 1
      /\ \A i \in 1..n : more[i] = rest[i]
      /\ more[n + 1] = e
  BY <1>1, AppendProperties
<1> HIDE DEF more
<1>4. \A i \in 1..n + 1 : more[i] \in SearchEntries /\ Whole(more[i]) 
  <2> TAKE i \in 1..n + 1
  <2>1. i \in 1..n \/ i = n + 1
    BY <1>1
  <2> QED BY <2>1, <1>1, <1>3, ElementOfSeq
<1>5. DistinctKeys(more)
  <2> SUFFICES ASSUME NEW i \in 1..n + 1, NEW j \in 1..n + 1, more[i].key = more[j].key
               PROVE  i = j
    BY <1>3 DEF DistinctKeys
  <2>1. (i \in 1..n \/ i = n + 1) /\ (j \in 1..n \/ j = n + 1)
    BY <1>1
  <2> QED BY <2>1, <1>1, <1>3 DEF DistinctKeys
<1>6. Kept(more) = SubSeq(more, 1 + d, n + 1)
  <2>1. Len(more) > CacheEntries <=> n + 1 > CacheEntries
    BY <1>3
  <2>2. Kept(more) = SubSeq(more, 1 + (IF Len(more) > CacheEntries THEN Len(more) - CacheEntries ELSE 0),
                            Len(more))
    BY DEF Kept, Limit
  <2> QED BY <1>1, <1>2, <1>3, <2>1, <2>2
<1>7. d \in Nat /\ d <= n + 1 /\ n + 1 - d <= CacheEntries
  BY <1>1, <1>2
<1>8. n + 1 <= CacheEntries => d = 0
  BY <1>1, <1>2
<1> HIDE DEF d
<1> DEFINE cut == SubSeq(more, 1 + d, n + 1)
<1>9. \A i \in 1 + d..n + 1 : more[i] \in SearchEntries
  BY <1>1, <1>4, <1>7
<1>10. /\ cut \in Seq(SearchEntries)
       /\ Len(cut) = IF 1 + d <= n + 1 THEN n + 1 - (1 + d) + 1 ELSE 0
       /\ \A i \in 1..n + 1 - (1 + d) + 1 : cut[i] = more[1 + d + i - 1]
  BY <1>1, <1>3, <1>7, <1>9, SubSeqProperties
<1> HIDE DEF cut
<1>11. Len(cut) = n + 1 - d
  BY <1>1, <1>7, <1>10
<1>12. \A i \in 1..n + 1 - d : cut[i] = more[d + i] /\ d + i \in 1..n + 1
  BY <1>1, <1>7, <1>10
<1>13. DistinctKeys(cut) /\ \A i \in 1..Len(cut) : Whole(cut[i])
  <2>1. ASSUME NEW i \in 1..n + 1 - d, NEW j \in 1..n + 1 - d, cut[i].key = cut[j].key
        PROVE  i = j
    <3>1. d + i = d + j
      BY <2>1, <1>3, <1>5, <1>12 DEF DistinctKeys
    <3> QED BY <3>1, <1>1, <1>7
  <2> QED BY <2>1, <1>4, <1>11, <1>12 DEF DistinctKeys
<1>14. n + 1 <= CacheEntries => cut = more
  <2> SUFFICES ASSUME n + 1 <= CacheEntries PROVE cut = more
    OBVIOUS
  <2>1. d = 0 /\ Len(cut) = n + 1 /\ \A i \in 1..n + 1 : cut[i] = more[i]
    <3>1. d = 0
      BY <1>8
    <3>2. \A i \in 1..n + 1 : cut[i] = more[i]
      BY <3>1, <1>1, <1>12
    <3> QED BY <3>1, <3>2, <1>1, <1>11
  <2> QED BY <2>1, <1>3, <1>10, SeqEqual
<1> QED BY <1>3, <1>6, <1>7, <1>10, <1>11, <1>13, <1>14 DEF cut, more, rest

-----------------------------------------------------------------------------
(* The invariant holds at first ...                                        *)
LEMMA SearchInitInv == WebSearchInit => SearchInv
<1> SUFFICES ASSUME WebSearchInit PROVE SearchInv
  OBVIOUS
<1>1. cached = <<>> /\ cached \in Seq(SearchEntries) /\ Len(cached) = 0
  BY EmptySeq DEF WebSearchInit
<1>2. [report |-> Refusal, age |-> 0, fromCache |-> FALSE] \in SearchAnswers
  BY ReportsExchanged DEF SearchAnswers
<1>3. SearchTypes
  BY <1>1, <1>2, SearchAssumption DEF WebSearchInit, SearchTypes, SearchAsks
<1>4. SearchIsRecent /\ DegradedIsAskedAgain
  BY DEF WebSearchInit, SearchIsRecent, DegradedIsAskedAgain
<1> QED BY <1>1, <1>3, <1>4, SearchAssumption DEF SearchInv, DistinctKeys

(* What a search is told keeps the promises when it is told from a fresh   *)
(* entry, or by the service.                                               *)
LEMMA AnswerKept ==
  ASSUME SearchInv, NEW s \in Searchers, NEW report \in Exchanged, NEW askedAt \in Nat,
         NEW fromCache \in BOOLEAN, Answered(s, report, askedAt, fromCache),
         fromCache => searchClock - askedAt <= CacheTtl /\ Cacheable(report)
  PROVE  /\ answered' \in [Searchers -> SearchAnswers]
         /\ SearchIsRecent' /\ DegradedIsAskedAgain'
<1> DEFINE told == [report |-> report, age |-> searchClock - askedAt, fromCache |-> fromCache]
<1>1. searchClock \in Int /\ answered \in [Searchers -> SearchAnswers]
  BY SearchAssumption DEF SearchInv, SearchTypes
<1>2. told \in SearchAnswers
  BY <1>1 DEF SearchAnswers
<1>3. told.report = report /\ told.age = searchClock - askedAt /\ told.fromCache = fromCache
  OBVIOUS
<1>4. answered' = [answered EXCEPT ![s] = told]
  BY DEF Answered
<1> HIDE DEF told
<1>5. \A q \in Searchers : answered'[q] = IF q = s THEN told ELSE answered[q]
  BY <1>1, <1>4
<1>6. answered' \in [Searchers -> SearchAnswers]
  BY <1>1, <1>2, <1>4
<1>7. told.fromCache => /\ told.age <= CacheTtl
                        /\ told.report # Refusal /\ ~told.report.silent /\ ~told.report.capped
  BY <1>3, ReportsExchanged
<1> QED BY <1>5, <1>6, <1>7 DEF SearchInv, SearchIsRecent, DegradedIsAskedAgain

(* ... and every step keeps it.                                            *)
LEMMA SearchStepInv == SearchInv /\ [WebSearchNext]_searchVars => SearchInv'
<1> SUFFICES ASSUME SearchInv, [WebSearchNext]_searchVars PROVE SearchInv'
  OBVIOUS
<1>0. SearchAssumption /\ Len(cached) \in Nat /\ DOMAIN cached = 1..Len(cached)
  BY SearchAssumption, LenProperties DEF SearchInv, SearchTypes
<1>1. ASSUME NEW s \in Searchers, NEW k \in SearchKeys, BeginSearch(s, k)
      PROVE  SearchInv'
  <2>1. CASE /\ k \in CachedKeys /\ Fresh(EntryOf(k))
             /\ cached' = Append(Others(k), EntryOf(k))
             /\ Answered(s, EntryOf(k).report, EntryOf(k).askedAt, TRUE)
             /\ UNCHANGED asking
    <3> DEFINE e == EntryOf(k)
               more == Append(Others(k), e)
    <3>1. EntryAt(k) \in 1..Len(cached) /\ e.key = k
      BY <1>0, <2>1 DEF CachedKeys, EntryAt, EntryOf
    <3>2. e \in SearchEntries /\ Whole(e)
      BY <1>0, <3>1, ElementOfSeq DEF EntryOf, SearchInv, SearchTypes
    <3> HIDE DEF e
    <3>3. /\ Kept(more) \in Seq(SearchEntries) /\ Len(Kept(more)) <= CacheEntries
          /\ DistinctKeys(Kept(more)) /\ \A i \in 1..Len(Kept(more)) : Whole(Kept(more)[i])
          /\ Len(more) <= CacheEntries => Kept(more) = more
      BY <3>1, <3>2, KeptProperties
    <3>4. Len(more) <= CacheEntries
      <4>1. /\ Others(k) \in Seq(SearchEntries) /\ Len(Others(k)) = Len(cached) - 1
        BY <2>1, OthersProperties
      <4>2. Len(more) = Len(Others(k)) + 1
        BY <3>2, <4>1, AppendProperties
      <4> QED BY <1>0, <4>1, <4>2, SearchAssumption DEF SearchInv
    <3>5. cached' = Kept(more)
      BY <2>1, <3>3, <3>4 DEF e
    <3>6. e.report \in Exchanged /\ e.askedAt \in Nat /\ Cacheable(e.report) /\ e.storedAt = e.askedAt
      BY <3>2 DEF SearchEntries, Whole
    <3>7. searchClock - e.askedAt <= CacheTtl
      BY <2>1, <3>6 DEF Fresh, e
    <3>8. /\ answered' \in [Searchers -> SearchAnswers]
          /\ SearchIsRecent' /\ DegradedIsAskedAgain'
      <4>1. Answered(s, e.report, e.askedAt, TRUE)
        BY <2>1 DEF e
      <4> QED BY <3>6, <3>7, <4>1, AnswerKept
    <3>9. searchClock' = searchClock /\ asking' = asking
      BY <1>1, <2>1 DEF BeginSearch
    <3> QED BY <3>3, <3>5, <3>8, <3>9 DEF SearchInv, SearchTypes
  <2>2. CASE /\ asking' = [asking EXCEPT ![s] = [key |-> k, at |-> searchClock]]
             /\ UNCHANGED <<cached, answered>>
    <3>1. [key |-> k, at |-> searchClock] \in SearchAsks
      BY <1>0 DEF SearchAsks, SearchInv, SearchTypes
    <3>2. asking' \in [Searchers -> SearchAsks]
      BY <2>2, <3>1 DEF SearchInv, SearchTypes
    <3>3. searchClock' = searchClock
      BY <1>1 DEF BeginSearch
    <3> QED BY <2>2, <3>2, <3>3
            DEF SearchInv, SearchTypes, SearchIsRecent, DegradedIsAskedAgain
  <2> QED BY <1>1, <2>1, <2>2 DEF BeginSearch
<1>2. ASSUME NEW s \in Searchers, NEW report \in Exchanged, FinishSearch(s, report)
      PROVE  SearchInv'
  <2> DEFINE ask == asking[s]
             e == [key |-> ask.key, report |-> report, storedAt |-> StampOf(ask), askedAt |-> ask.at]
  <2>1. ask.key \in SearchKeys /\ ask.at \in Nat
    BY <1>2 DEF FinishSearch, SearchInv, SearchTypes, SearchAsks
  <2>2. e \in SearchEntries /\ e.key = ask.key /\ e.report = report /\ e.storedAt = e.askedAt
    BY <2>1 DEF SearchEntries, StampOf
  <2>3. asking' \in [Searchers -> SearchAsks] /\ searchClock' = searchClock
    BY <1>2 DEF FinishSearch, SearchInv, SearchTypes, SearchAsks
  <2>4. Answered(s, report, ask.at, FALSE)
    BY <1>2 DEF FinishSearch
  <2>5. cached' = IF Cacheable(report) THEN Kept(Append(Others(ask.key), e)) ELSE cached
    BY <1>2 DEF FinishSearch
  <2> HIDE DEF e, ask
  <2>6. /\ answered' \in [Searchers -> SearchAnswers]
        /\ SearchIsRecent' /\ DegradedIsAskedAgain'
    BY <2>1, <2>4, AnswerKept
  <2>7. /\ cached' \in Seq(SearchEntries) /\ Len(cached') <= CacheEntries
        /\ DistinctKeys(cached') /\ \A i \in 1..Len(cached') : Whole(cached'[i])
    <3>1. CASE Cacheable(report)
      <4>1. Whole(e)
        BY <2>2, <3>1 DEF Whole
      <4> QED BY <2>2, <2>5, <3>1, <4>1, KeptProperties
    <3>2. CASE ~Cacheable(report)
      BY <2>5, <3>2 DEF SearchInv, SearchTypes
    <3> QED BY <3>1, <3>2
  <2> QED BY <2>3, <2>6, <2>7 DEF SearchInv, SearchTypes
<1>3. CASE SearchTick
  <2>1. searchClock' \in 0..MaxSearchTime
    BY <1>3, SearchAssumption DEF SearchTick, SearchInv, SearchTypes
  <2> QED BY <1>3, <2>1 DEF SearchTick, SearchInv, SearchTypes, SearchIsRecent, DegradedIsAskedAgain
<1>4. CASE UNCHANGED searchVars
  BY <1>4 DEF searchVars, SearchInv, SearchTypes, SearchIsRecent, DegradedIsAskedAgain
<1> QED BY <1>1, <1>2, <1>3, <1>4 DEF WebSearchNext

(* The cache stays within its limit and holds no key twice, and what it    *)
(* answers was asked for no longer ago than the time to live and is        *)
(* complete, for any number of searches under way at once                  *)
(* (CachedWebSearch.search).                                               *)
THEOREM SearchSafety == WebSearchSpec => []WebSearchSafe
<1>1. SearchInv => WebSearchSafe
  <2> SUFFICES ASSUME SearchInv PROVE WebSearchSafe
    OBVIOUS
  <2>1. DOMAIN cached = 1..Len(cached) /\ \A i \in 1..Len(cached) : cached[i] \in SearchEntries
    BY LenProperties, ElementOfSeq DEF SearchInv, SearchTypes
  <2>2. \A e \in ToSet(cached) : e.key \in SearchKeys /\ e.report \in Exchanged
    BY <2>1 DEF ToSet, SearchEntries
  <2>3. \A s \in Searchers : asking[s] = NotAsking \/ asking[s].key \in SearchKeys
    BY DEF SearchInv, SearchTypes, SearchAsks
  <2>4. WebSearchTypeOK
    BY <2>1, <2>2, <2>3 DEF SearchInv, SearchTypes, DistinctKeys, WebSearchTypeOK
  <2> QED BY <2>4 DEF SearchInv, WebSearchSafe
<1> QED BY <1>1, SearchInitInv, SearchStepInv, PTL DEF WebSearchSpec

-----------------------------------------------------------------------------
(* Hardened fetches.                                                       *)

(* Types of the fetches and of their records.                              *)
Addresses == UNION {ToSet(answer) : answer \in NameAnswers}

FetchStates ==
  [phase : {"idle", "send", "sent"}, requested : Urls \cup {NoUrl}, target : Urls \cup {NoUrl},
   chain : Seq(Urls), hops : Nat, address : Addresses \cup {NoAddress}]

TripRecords ==
  [outcome : {"content", "refused"}, requested : Urls \cup {NoUrl}, final : Urls \cup {NoUrl},
   chain : Seq(Urls)]

FetchTypes ==
  /\ dns \in [Hosts -> NameAnswers]
  /\ fetching \in [Fetchers -> FetchStates]
  /\ visited \in [Fetchers -> Seq(Urls)]
  /\ record \in [Fetchers -> TripRecords]

(* The URLs of a fetch so far: all but the last were requested.            *)
AllAdmitted(urls) == \A i \in 1..Len(urls) : Admitted(urls[i])

(* What the record tells of a fetch that ended.                            *)
ToldTrip(r, trip) ==
  r.outcome = "content" =>
    /\ trip = Append(r.chain, r.final)
    /\ trip[1] = r.requested
    /\ AllAdmitted(trip)

(* How far a fetch has got: it is idle, is about to send a request, or     *)
(* has sent one on an admitted connection.                                 *)
Trip(now, trip, r) ==
  \/ now = NoFetch /\ Len(trip) <= MaxRedirects + 1 /\ ToldTrip(r, trip)
  \/ /\ now.phase = "send" /\ now.address = NoAddress
     /\ now.target \in Urls /\ Len(now.chain) = now.hops /\ now.hops <= MaxRedirects
     /\ trip = now.chain
     /\ Append(now.chain, now.target)[1] = now.requested
     /\ AllAdmitted(Append(now.chain, now.target))
  \/ /\ now.phase = "sent" /\ PublicAddress(now.address)
     /\ now.target \in Urls /\ Len(now.chain) = now.hops /\ now.hops <= MaxRedirects
     /\ trip = Append(now.chain, now.target)
     /\ trip[1] = now.requested
     /\ AllAdmitted(trip)

(* The inductive invariant.                                                *)
FetchInv ==
  /\ FetchTypes
  /\ \A c \in pool : PublicAddress(c.address) /\ c.address \in Addresses
  /\ \A f \in Fetchers : Trip(fetching[f], visited[f], record[f])

(* A fetch that has no address yet is not taken for one with a public      *)
(* address.                                                                *)
LEMMA NoAddressIsBlocked == ~PublicAddress(NoAddress)
BY DEF PublicAddress, NoAddress

(* A fetch that is idle.                                                   *)
LEMMA NoFetchState ==
  /\ NoFetch \in FetchStates /\ Refused \in TripRecords
  /\ NoFetch.phase = "idle" /\ NoFetch.address = NoAddress
  /\ NoFetch.chain = <<>> /\ Len(NoFetch.chain) = 0 /\ NoFetch.hops = 0
  /\ Refused.outcome = "refused"
<1>1. <<>> \in Seq(Urls) /\ Len(<<>>) = 0
  BY EmptySeq
<1> QED BY <1>1 DEF NoFetch, FetchStates, Refused, TripRecords

(* The address a name is pinned to is one of its answer, and public.       *)
LEMMA PinnedIsPublic ==
  ASSUME NEW h \in Hosts, dns \in [Hosts -> NameAnswers], Selectable(h)
  PROVE  PublicAddress(Pinned(h)) /\ Pinned(h) \in Addresses
<1>1. dns[h] \in NameAnswers /\ dns[h] # <<>>
  BY DEF Selectable
<1>2. dns[h] \in Seq(ToSet(dns[h]))
  BY <1>1, FetchAssumption
<1>3. Head(dns[h]) \in ToSet(dns[h])
  BY <1>1, <1>2, HeadTailProperties
<1> QED BY <1>1, <1>3 DEF Selectable, AllPublic, Pinned, Addresses

(* The invariant holds at first.                                           *)
LEMMA FetchInitInv == WebFetchInit => FetchInv
<1> SUFFICES ASSUME WebFetchInit PROVE FetchInv
  OBVIOUS
<1>1. <<>> \in Seq(Urls) /\ Len(<<>>) = 0
  BY EmptySeq
<1>2. FetchTypes
  BY <1>1, NoFetchState DEF WebFetchInit, FetchTypes
<1>3. \A f \in Fetchers : Trip(fetching[f], visited[f], record[f])
  BY <1>1, NoFetchState, FetchAssumption DEF WebFetchInit, Trip, ToldTrip
<1> QED BY <1>2, <1>3 DEF FetchInv, WebFetchInit

(* A step of one fetch leaves the others where they are.                   *)
LEMMA OneFetchMoves ==
  ASSUME FetchInv, NEW f \in Fetchers, NEW now \in FetchStates, NEW trip \in Seq(Urls), NEW r \in TripRecords,
         fetching' = [fetching EXCEPT ![f] = now], visited' = [visited EXCEPT ![f] = trip],
         record' = [record EXCEPT ![f] = r], UNCHANGED dns,
         Trip(now, trip, r),
         \A c \in pool' : PublicAddress(c.address) /\ c.address \in Addresses
  PROVE  FetchInv'
<1>1. FetchTypes'
  BY DEF FetchInv, FetchTypes
<1>2. ASSUME NEW g \in Fetchers PROVE Trip(fetching'[g], visited'[g], record'[g])
  <2>1. CASE g = f
    <3>1. fetching'[g] = now /\ visited'[g] = trip /\ record'[g] = r
      BY <2>1 DEF FetchInv, FetchTypes
    <3> QED BY <3>1
  <2>2. CASE g # f
    <3>1. fetching'[g] = fetching[g] /\ visited'[g] = visited[g] /\ record'[g] = record[g]
      BY <2>2 DEF FetchInv, FetchTypes
    <3> QED BY <3>1 DEF FetchInv
  <2> QED BY <2>1, <2>2
<1> QED BY <1>1, <1>2 DEF FetchInv

(* An action of one fetch leaves the others where they are.                *)
LEMMA NothingElse ==
  ASSUME FetchTypes, NEW f \in Fetchers
  PROVE  /\ fetching = [fetching EXCEPT ![f] = fetching[f]]
         /\ visited = [visited EXCEPT ![f] = visited[f]] /\ visited[f] \in Seq(Urls)
         /\ record = [record EXCEPT ![f] = record[f]] /\ record[f] \in TripRecords
         /\ fetching[f] \in FetchStates
BY DEF FetchTypes

(* Every step keeps the invariant.                                         *)
LEMMA FetchStepInv == FetchInv /\ [WebFetchNext]_fetchVars => FetchInv'
<1> SUFFICES ASSUME FetchInv, [WebFetchNext]_fetchVars PROVE FetchInv'
  OBVIOUS
<1>0. /\ FetchTypes
      /\ MaxRedirects \in Nat
      /\ \A c \in pool : PublicAddress(c.address) /\ c.address \in Addresses
      /\ <<>> \in Seq(Urls) /\ Len(<<>>) = 0
  BY FetchAssumption, EmptySeq DEF FetchInv
<1>1. ASSUME NEW f \in Fetchers, fetching[f].phase # "idle"
      PROVE  /\ fetching[f].target \in Urls /\ fetching[f].target.host \in Hosts
             /\ fetching[f].chain \in Seq(Urls)
             /\ Append(fetching[f].chain, fetching[f].target) \in Seq(Urls)
             /\ Len(Append(fetching[f].chain, fetching[f].target)) = fetching[f].hops + 1
             /\ Append(fetching[f].chain, fetching[f].target)[1] = fetching[f].requested
             /\ AllAdmitted(Append(fetching[f].chain, fetching[f].target))
             /\ fetching[f].hops \in Nat /\ fetching[f].hops <= MaxRedirects
  <2>1. Trip(fetching[f], visited[f], record[f]) /\ fetching[f] \in FetchStates
    BY DEF FetchInv, FetchTypes
  <2>2. fetching[f] # NoFetch
    BY <1>1, NoFetchState
  <2>3. /\ fetching[f].target \in Urls /\ Len(fetching[f].chain) = fetching[f].hops
        /\ fetching[f].hops <= MaxRedirects
        /\ Append(fetching[f].chain, fetching[f].target)[1] = fetching[f].requested
        /\ AllAdmitted(Append(fetching[f].chain, fetching[f].target))
    BY <2>1, <2>2 DEF Trip
  <2>4. fetching[f].chain \in Seq(Urls) /\ fetching[f].hops \in Nat
    BY <2>1 DEF FetchStates
  <2>5. fetching[f].target.host \in Hosts
    BY <2>3 DEF Hosts
  <2> QED BY <2>3, <2>4, <2>5, AppendProperties
<1>2. ASSUME NEW f \in Fetchers, NEW u \in Urls, BeginFetch(f, u)
      PROVE  FetchInv'
  <2>1. UNCHANGED dns /\ pool' = pool /\ visited' = [visited EXCEPT ![f] = <<>>]
    BY <1>2 DEF BeginFetch
  <2>2. CASE Admitted(u)
    <3> DEFINE now == [NoFetch EXCEPT !.phase = "send", !.requested = u, !.target = u]
    <3>1. fetching' = [fetching EXCEPT ![f] = now] /\ record' = record
      BY <1>2, <2>2 DEF BeginFetch, Become
    <3>2. /\ now \in FetchStates
          /\ now.phase = "send" /\ now.requested = u /\ now.target = u /\ now.chain = <<>>
          /\ now.hops = 0 /\ now.address = NoAddress
      BY <1>0 DEF NoFetch, FetchStates
    <3> HIDE DEF now
    <3>3. Append(<<>>, u)[1] = u /\ Len(Append(<<>>, u)) = 1
      BY <1>0, AppendProperties
    <3>4. AllAdmitted(Append(<<>>, u))
      BY <2>2, <3>3 DEF AllAdmitted
    <3>5. Trip(now, <<>>, record[f])
      BY <1>0, <3>2, <3>3, <3>4 DEF Trip
    <3> QED BY <1>0, <2>1, <3>1, <3>2, <3>5, NothingElse, OneFetchMoves
  <2>3. CASE ~Admitted(u)
    <3>1. fetching' = [fetching EXCEPT ![f] = NoFetch] /\ record' = [record EXCEPT ![f] = Refused]
      BY <1>2, <2>3 DEF BeginFetch, EndFetch, Become
    <3>2. Trip(NoFetch, <<>>, Refused)
      BY <1>0, NoFetchState DEF Trip, ToldTrip
    <3> QED BY <1>0, <2>1, <3>1, <3>2, NoFetchState, OneFetchMoves
  <2> QED BY <2>2, <2>3
<1>3. ASSUME NEW f \in Fetchers, fetching[f].phase # "idle", EndFetch(f, Refused),
             visited' = visited, dns' = dns, pool' = pool
      PROVE  FetchInv'
  <2>1. fetching' = [fetching EXCEPT ![f] = NoFetch] /\ record' = [record EXCEPT ![f] = Refused]
    BY <1>3 DEF EndFetch, Become
  <2>2. Len(visited[f]) <= MaxRedirects + 1
    <3>1. Trip(fetching[f], visited[f], record[f]) /\ fetching[f] # NoFetch
      BY <1>3, NoFetchState DEF FetchInv
    <3>2. \/ visited[f] = fetching[f].chain /\ Len(fetching[f].chain) = fetching[f].hops
          \/ visited[f] = Append(fetching[f].chain, fetching[f].target)
      BY <3>1 DEF Trip
    <3> QED BY <1>0, <1>1, <1>3, <3>2
  <2>3. Trip(NoFetch, visited[f], Refused)
    BY <2>2, NoFetchState DEF Trip, ToldTrip
  <2> QED BY <1>0, <1>3, <2>1, <2>3, NoFetchState, NothingElse, OneFetchMoves
<1>4. ASSUME NEW f \in Fetchers, fetching[f].phase = "send",
             NEW a, PublicAddress(a), a \in Addresses,
             Become(f, [fetching[f] EXCEPT !.phase = "sent", !.address = a]),
             visited' = [visited EXCEPT ![f] = Append(@, fetching[f].target)],
             record' = record, dns' = dns,
             \A c \in pool' : c \in pool
      PROVE  FetchInv'
  <2> DEFINE old == fetching[f]
             now == [old EXCEPT !.phase = "sent", !.address = a]
             trip == Append(old.chain, old.target)
  <2>1. fetching' = [fetching EXCEPT ![f] = now]
    BY <1>4 DEF Become
  <2>2. /\ old.target \in Urls /\ trip \in Seq(Urls) /\ trip[1] = old.requested /\ AllAdmitted(trip)
        /\ old.hops \in Nat /\ old.hops <= MaxRedirects
    BY <1>1, <1>4
  <2>3. visited[f] = old.chain /\ Len(old.chain) = old.hops
    <3>1. Trip(fetching[f], visited[f], record[f]) /\ fetching[f] # NoFetch
      BY <1>4, NoFetchState DEF FetchInv
    <3> QED BY <1>4, <3>1 DEF Trip
  <2>4. visited' = [visited EXCEPT ![f] = trip]
    BY <1>0, <1>4, <2>3 DEF FetchTypes
  <2>5. old \in FetchStates
    BY <1>0, NothingElse
  <2> HIDE DEF old
  <2>6. /\ now \in FetchStates
        /\ now.phase = "sent" /\ now.address = a /\ now.target = old.target /\ now.chain = old.chain
        /\ now.hops = old.hops /\ now.requested = old.requested
    BY <1>4, <2>5 DEF FetchStates
  <2> HIDE DEF now, trip
  <2>7. trip = Append(now.chain, now.target)
    BY <2>6 DEF trip
  <2>8. Trip(now, trip, record[f])
    BY <1>4, <2>2, <2>3, <2>6, <2>7 DEF Trip
  <2> QED BY <1>0, <1>4, <2>1, <2>2, <2>4, <2>6, <2>8, NothingElse, OneFetchMoves
<1>5. ASSUME NEW f \in Fetchers, SendHop(f)
      PROVE  FetchInv'
  <2> DEFINE h == fetching[f].target.host
  <2>1. fetching[f].phase = "send" /\ dns' = dns
    BY <1>5 DEF SendHop
  <2>2. h \in Hosts
    BY <1>1, <2>1
  <2>3. CASE \E c \in pool :
               /\ c.host = h
               /\ pool' = pool \ {c}
               /\ Become(f, [fetching[f] EXCEPT !.phase = "sent", !.address = c.address])
               /\ visited' = [visited EXCEPT ![f] = Append(@, fetching[f].target)]
               /\ UNCHANGED record
    BY <1>0, <1>4, <2>1, <2>3
  <2>4. CASE /\ Selectable(h)
             /\ Become(f, [fetching[f] EXCEPT !.phase = "sent", !.address = Pinned(h)])
             /\ visited' = [visited EXCEPT ![f] = Append(@, fetching[f].target)]
             /\ UNCHANGED <<pool, record>>
    <3>1. PublicAddress(Pinned(h)) /\ Pinned(h) \in Addresses
      BY <1>0, <2>2, <2>4, PinnedIsPublic DEF FetchTypes
    <3> QED BY <1>4, <2>1, <2>4, <3>1
  <2>5. CASE EndFetch(f, Refused) /\ UNCHANGED <<pool, visited>>
    BY <1>3, <2>1, <2>5
  <2> QED BY <1>5, <2>3, <2>4, <2>5 DEF SendHop
<1>6. ASSUME NEW f \in Fetchers, NEW u \in Urls, Redirected(f, u)
      PROVE  FetchInv'
  <2> DEFINE old == fetching[f]
             now == [old EXCEPT !.phase = "send", !.chain = Followed(f, u), !.target = u, !.hops = @ + 1,
                                !.address = NoAddress]
             trip == Append(old.chain, old.target)
  <2>1. old.phase = "sent" /\ dns' = dns /\ pool' = pool /\ visited' = visited
    BY <1>6 DEF Redirected
  <2>2. CASE Admitted(u) /\ HopLeft(f)
    <3>1. fetching' = [fetching EXCEPT ![f] = now] /\ record' = record
      BY <1>6, <2>2 DEF Redirected, Become
    <3>2. /\ trip \in Seq(Urls) /\ Len(trip) = old.hops + 1 /\ trip[1] = old.requested /\ AllAdmitted(trip)
          /\ old.hops \in Nat /\ old.hops < MaxRedirects
      BY <1>1, <2>1, <2>2 DEF HopLeft
    <3>3. visited[f] = trip
      <4>1. Trip(fetching[f], visited[f], record[f]) /\ fetching[f] # NoFetch
        BY <2>1, NoFetchState DEF FetchInv
      <4> QED BY <2>1, <4>1 DEF Trip
    <3>4. old \in FetchStates
      BY <1>0, NothingElse
    <3>5. Followed(f, u) = trip
      BY DEF Followed
    <3> HIDE DEF old, trip
    <3>6. /\ now \in FetchStates
          /\ now.phase = "send" /\ now.address = NoAddress /\ now.target = u /\ now.chain = trip
          /\ now.hops = old.hops + 1 /\ now.requested = old.requested
      <4>1. now = [old EXCEPT !.phase = "send", !.chain = trip, !.target = u, !.hops = old.hops + 1,
                              !.address = NoAddress]
        BY <3>4, <3>5 DEF FetchStates
      <4>2. old.hops + 1 \in Nat
        BY <3>2
      <4> QED BY <3>2, <3>4, <4>1, <4>2 DEF FetchStates
    <3> HIDE DEF now
    <3>7. /\ Append(trip, u)[1] = trip[1] /\ AllAdmitted(Append(trip, u))
      <4>1. /\ Len(Append(trip, u)) = old.hops + 2
            /\ \A i \in 1..old.hops + 1 : Append(trip, u)[i] = trip[i]
            /\ Append(trip, u)[old.hops + 2] = u
        BY <3>2, AppendProperties
      <4>2. 1 \in 1..old.hops + 1
        BY <3>2
      <4>3. \A i \in 1..old.hops + 2 : i \in 1..old.hops + 1 \/ i = old.hops + 2
        BY <3>2
      <4> QED BY <2>2, <3>2, <4>1, <4>2, <4>3 DEF AllAdmitted
    <3>8. old.hops + 1 <= MaxRedirects
      BY <1>0, <3>2
    <3>9. Trip(now, trip, record[f])
      BY <3>2, <3>6, <3>7, <3>8 DEF Trip
    <3>10. visited' = [visited EXCEPT ![f] = trip]
      BY <1>0, <2>1, <3>3, NothingElse
    <3> QED BY <1>0, <2>1, <3>1, <3>2, <3>6, <3>9, <3>10, NothingElse, OneFetchMoves
  <2>3. CASE ~(Admitted(u) /\ HopLeft(f))
    BY <1>3, <1>6, <2>1, <2>3 DEF Redirected
  <2> QED BY <2>2, <2>3
<1>7. ASSUME NEW f \in Fetchers, Captured(f)
      PROVE  FetchInv'
  <2> DEFINE old == fetching[f]
             r == [outcome |-> "content", requested |-> old.requested, final |-> old.target, chain |-> old.chain]
             trip == Append(old.chain, old.target)
  <2>1. /\ old.phase = "sent" /\ dns' = dns /\ visited' = visited
        /\ fetching' = [fetching EXCEPT ![f] = NoFetch] /\ record' = [record EXCEPT ![f] = r]
    BY <1>7 DEF Captured, EndFetch, Become
  <2>2. /\ visited[f] = trip /\ PublicAddress(old.address)
    <3>1. Trip(fetching[f], visited[f], record[f]) /\ fetching[f] # NoFetch
      BY <2>1, NoFetchState DEF FetchInv
    <3> QED BY <2>1, <3>1 DEF Trip
  <2>3. /\ trip[1] = old.requested /\ AllAdmitted(trip) /\ Len(trip) = old.hops + 1
        /\ old.hops \in Nat /\ old.hops <= MaxRedirects
    BY <1>1, <2>1
  <2>4. old \in FetchStates
    BY <1>0, NothingElse
  <2>5. old.address \in Addresses
    BY <2>2, <2>4, NoAddressIsBlocked DEF FetchStates
  <2>6. \A c \in pool' : PublicAddress(c.address) /\ c.address \in Addresses
    BY <1>0, <1>7, <2>2, <2>5 DEF Captured
  <2> HIDE DEF old
  <2>7. /\ r \in TripRecords /\ r.chain = old.chain /\ r.final = old.target /\ r.requested = old.requested
    BY <2>4 DEF FetchStates, TripRecords
  <2> HIDE DEF r
  <2>8. trip = Append(r.chain, r.final)
    BY <2>7
  <2> HIDE DEF trip
  <2>9. Trip(NoFetch, trip, r)
    BY <1>0, <2>3, <2>7, <2>8 DEF Trip, ToldTrip
  <2>10. trip \in Seq(Urls) /\ visited' = [visited EXCEPT ![f] = trip]
    BY <1>0, <2>1, <2>2, NothingElse
  <2> QED BY <2>1, <2>6, <2>7, <2>9, <2>10, NoFetchState, OneFetchMoves
<1>8. ASSUME NEW f \in Fetchers, Failed(f)
      PROVE  FetchInv'
  BY <1>3, <1>8 DEF Failed
<1>9. ASSUME NEW h \in Hosts, NEW candidates \in NameAnswers, DnsChanges(h, candidates)
      PROVE  FetchInv'
  BY <1>9 DEF DnsChanges, FetchInv, FetchTypes
<1>10. ASSUME NEW c \in pool, IdleClosed(c)
       PROVE  FetchInv'
  BY <1>10 DEF IdleClosed, FetchInv, FetchTypes
<1>11. CASE UNCHANGED fetchVars
  BY <1>11 DEF fetchVars, FetchInv, FetchTypes
<1> QED BY <1>2, <1>5, <1>6, <1>7, <1>8, <1>9, <1>10, <1>11 DEF WebFetchNext

(* However names change what they resolve to and servers redirect, every   *)
(* connection leads to a public address, a fetch follows no more redirects *)
(* than allowed, and its record names every URL it requested, in order     *)
(* (HardenedFetchService, ValidatingNetworkBackend.connect_tcp).           *)
THEOREM FetchSafety == WebFetchSpec => []WebFetchSafe
<1>1. FetchInv => WebFetchSafe
  <2> SUFFICES ASSUME FetchInv PROVE WebFetchSafe
    OBVIOUS
  <2>0. MaxRedirects \in Nat
    BY FetchAssumption
  <2>1. ASSUME NEW f \in Fetchers
        PROVE  /\ fetching[f].phase \in {"idle", "send", "sent"}
               /\ fetching[f].target \in Urls \cup {NoUrl}
               /\ Len(fetching[f].chain) = fetching[f].hops
               /\ Len(visited[f]) <= MaxRedirects + 1
               /\ fetching[f].phase = "sent" <=> fetching[f].address # NoAddress
               /\ fetching[f].phase = "sent" => PublicAddress(fetching[f].address)
               /\ fetching[f].phase = "idle" => ToldTrip(record[f], visited[f])
    <3> DEFINE now == fetching[f]
    <3>1. Trip(now, visited[f], record[f]) /\ now \in FetchStates
      BY DEF FetchInv, FetchTypes
    <3>2. /\ now.phase \in {"idle", "send", "sent"} /\ now.target \in Urls \cup {NoUrl}
          /\ now.chain \in Seq(Urls) /\ now.hops \in Nat
      BY <3>1 DEF FetchStates
    <3> HIDE DEF now
    <3>3. CASE now = NoFetch /\ Len(visited[f]) <= MaxRedirects + 1 /\ ToldTrip(record[f], visited[f])
      BY <3>2, <3>3, NoFetchState DEF now
    <3>4. CASE now # NoFetch
      <4>1. /\ now.target \in Urls /\ Len(now.chain) = now.hops /\ now.hops <= MaxRedirects
            /\ \/ now.phase = "send" /\ now.address = NoAddress /\ visited[f] = now.chain
               \/ /\ now.phase = "sent" /\ PublicAddress(now.address)
                  /\ visited[f] = Append(now.chain, now.target)
        BY <3>1, <3>4 DEF Trip
      <4>2. Len(Append(now.chain, now.target)) = now.hops + 1
        BY <3>2, <4>1, AppendProperties
      <4>3. Len(visited[f]) <= MaxRedirects + 1
        BY <2>0, <3>2, <4>1, <4>2
      <4> QED BY <3>2, <4>1, <4>3, NoAddressIsBlocked DEF now
    <3> QED BY <3>1, <3>3, <3>4, NoFetchState DEF Trip
  <2>2. WebFetchTypeOK
    BY <2>1 DEF WebFetchTypeOK, FetchInv, FetchTypes
  <2>3. DialsPublicOnly
    BY <2>1 DEF DialsPublicOnly, FetchInv
  <2>4. RecordTellsTheTrip
    <3>1. \A f \in Fetchers : DOMAIN visited[f] = 1..Len(visited[f])
      BY LenProperties DEF FetchInv, FetchTypes
    <3> QED BY <2>1, <3>1 DEF RecordTellsTheTrip, ToldTrip, AllAdmitted
  <2> QED BY <2>2, <2>3, <2>4 DEF WebFetchSafe
<1> QED BY <1>1, FetchInitInv, FetchStepInv, PTL DEF WebFetchSpec

-----------------------------------------------------------------------------
(* Credentials.                                                            *)

(* Types of the keyring, the rows and the commands.                        *)
Rings == [active : 0..MaxKeys, keys : SUBSET (1..MaxKeys)]
Rows == [key : 0..MaxKeys, secret : 0..MaxStores]
Picks == [record : Records, was : Rows]

CommandTypes ==
  [op : {"none", "store", "select", "update", "verify"}, ring : Rings, record : Records \cup {-1},
   secret : 0..MaxStores, picked : SUBSET Picks]

CredentialTypes ==
  /\ ciphertexts \in [Records -> Rows]
  /\ keyring \in Rings
  /\ command \in [Commands -> CommandTypes]
  /\ stores \in 0..MaxStores

(* The active key is the newest of a keyring.                              *)
RingKept(ring) == ring.active \in ring.keys /\ \A k \in ring.keys : k <= ring.active

(* Rows in hand: one per record, readable and not under the active key.    *)
HandKept(x) ==
  /\ IsFiniteSet(x.picked) /\ Cardinality(x.picked) <= RotationBatch
  /\ \A p \in x.picked : p.was.key \in x.ring.keys /\ p.was.key # x.ring.active
  /\ \A p, q \in x.picked : p.record = q.record => p = q

(* A command works with a keyring that was loaded, no newer than the       *)
(* file.                                                                   *)
CommandKept(x, newest) ==
  /\ x.op # "none" => RingKept(x.ring) /\ x.ring.active <= newest
  /\ x.op = "store" => x.record \in Records
  /\ HandKept(x)

(* The inductive invariant.                                                *)
CredInv ==
  /\ CredentialTypes
  /\ RingKept(keyring)
  /\ \A c \in Commands : CommandKept(command[c], keyring.active)
  /\ RetirableMeansRotated

-----------------------------------------------------------------------------
(* A batch is no larger than it may be: a row of it has fewer before it.   *)
LEMMA LowestFit ==
  ASSUME NEW S, S \subseteq Nat, IsFiniteSet(S)
  PROVE  Lowest(S) \subseteq S /\ IsFiniteSet(Lowest(S)) /\ Cardinality(Lowest(S)) <= RotationBatch
<1> DEFINE L == Lowest(S)
           Before(r) == {q \in S : q < r}
           rank == [r \in L |-> Cardinality(Before(r))]
<1>1. L \subseteq S /\ IsFiniteSet(L)
  <2>1. L \subseteq S
    BY DEF Lowest
  <2> QED BY <2>1, FS_Subset
<1>2. RotationBatch \in Nat
  BY CredentialsAssumption
<1>3. \A r : IsFiniteSet(Before(r)) /\ Cardinality(Before(r)) \in Nat
  <2> TAKE r
  <2>1. Before(r) \subseteq S
    OBVIOUS
  <2> QED BY <2>1, FS_Subset, FS_CardinalityType
<1>4. \A r \in L : Cardinality(Before(r)) < RotationBatch
  BY DEF Lowest
<1>5. ASSUME NEW x \in L, NEW y \in L, x < y
      PROVE  Cardinality(Before(x)) < Cardinality(Before(y))
  <2>1. Before(x) \subseteq Before(y) /\ x \in Before(y) /\ x \notin Before(x) /\ x \in Nat /\ y \in Nat
    <3>1. x \in S /\ y \in S /\ x \in Nat /\ y \in Nat
      BY <1>1
    <3>2. \A q \in S : q < x => q < y
      <4> TAKE q \in S
      <4>1. q \in Nat
        OBVIOUS
      <4> QED BY <1>5, <3>1, <4>1
    <3>3. Before(x) \subseteq Before(y)
      BY <3>2
    <3>4. x \in Before(y)
      BY <1>5, <3>1
    <3>5. ~(x < x)
      BY <3>1
    <3>6. x \notin Before(x)
      BY <3>5
    <3> HIDE DEF Before
    <3> QED BY <3>1, <3>3, <3>4, <3>6
  <2>2. Before(x) # Before(y)
    BY <2>1
  <2> HIDE DEF Before
  <2> QED BY <1>3, <2>1, <2>2, FS_Subset
<1> DEFINE T == 0..RotationBatch - 1
<1>6. IsFiniteSet(T) /\ Cardinality(T) = RotationBatch
  <2>1. RotationBatch - 1 \in Int /\ RotationBatch >= 1
    BY CredentialsAssumption
  <2>2. IsFiniteSet(T) /\ Cardinality(T) = IF 0 > RotationBatch - 1 THEN 0 ELSE RotationBatch - 1 - 0 + 1
    BY <2>1, FS_Interval
  <2> QED BY <1>2, <2>1, <2>2
<1>7. rank \in Injection(L, T)
  <2>1. \A r \in L : rank[r] = Cardinality(Before(r))
    OBVIOUS
  <2>2. \A r \in L : rank[r] \in T
    <3> TAKE r \in L
    <3>1. Cardinality(Before(r)) \in Nat /\ Cardinality(Before(r)) < RotationBatch
      BY <1>3, <1>4
    <3> HIDE DEF Before
    <3> QED BY <1>2, <2>1, <3>1
  <2>3. \A x, y \in L : rank[x] = rank[y] => x = y
    <3> SUFFICES ASSUME NEW x \in L, NEW y \in L, x # y
                 PROVE  rank[x] # rank[y]
      OBVIOUS
    <3>1. x \in Nat /\ y \in Nat
      BY <1>1
    <3>2. x < y \/ y < x
      BY <3>1
    <3>3. Cardinality(Before(x)) \in Nat /\ Cardinality(Before(y)) \in Nat
      BY <1>3
    <3>4. Cardinality(Before(x)) < Cardinality(Before(y)) \/ Cardinality(Before(y)) < Cardinality(Before(x))
      BY <1>5, <3>2
    <3> HIDE DEF Before
    <3> QED BY <2>1, <3>3, <3>4
  <2>4. rank \in [L -> T]
    BY <2>2
  <2> HIDE DEF rank, L, T
  <2> QED BY <2>3, <2>4 DEF Injection, IsInjective
<1>8. Cardinality(L) <= Cardinality(T)
  BY <1>6, <1>7, FS_Injection
<1> QED BY <1>1, <1>6, <1>8

(* A row that is selected can be read and is not under the active key.     *)
LEMMA RowsInactive ==
  ASSUME CredentialTypes, NEW ring
  PROVE  Inactive(ring) \subseteq Records /\ Inactive(ring) \subseteq Nat /\ IsFiniteSet(Inactive(ring))
<1>1. Inactive(ring) \subseteq Records
  BY DEF Inactive, Present
<1> QED BY <1>1, CredentialsAssumption, FS_Subset

(* A command that has ended is kept.                                       *)
LEMMA NoCommandKept ==
  /\ NoCommand \in CommandTypes /\ NoCommand.op = "none" /\ NoCommand.picked = {} /\ NoCommand.record = -1
  /\ NoCommand.secret = 0
  /\ \A n : CommandKept(NoCommand, n)
<1>1. NoCommand \in CommandTypes
  BY CredentialsAssumption DEF NoCommand, CommandTypes, Rings
<1>2. NoCommand.op = "none" /\ NoCommand.picked = {} /\ NoCommand.record = -1 /\ NoCommand.secret = 0
  BY DEF NoCommand
<1>3. HandKept(NoCommand)
  BY <1>2, FS_EmptySet, CredentialsAssumption DEF HandKept
<1> QED BY <1>1, <1>2, <1>3 DEF CommandKept

(* The invariant holds at first.                                           *)
LEMMA CredInitInv == CredentialsInit => CredInv
<1> SUFFICES ASSUME CredentialsInit PROVE CredInv
  OBVIOUS
<1>1. CredentialTypes
  BY NoCommandKept, CredentialsAssumption DEF CredentialsInit, CredentialTypes, Rows, Rings
<1>2. RingKept(keyring)
  BY DEF CredentialsInit, RingKept
<1> QED BY <1>1, <1>2, NoCommandKept DEF CredentialsInit, CredInv, RetirableMeansRotated

(* One command moves on; rows and keyring stay.                            *)
LEMMA CommandMoves ==
  ASSUME CredInv, NEW c \in Commands, NEW x \in CommandTypes, command' = [command EXCEPT ![c] = x],
         CommandKept(x, keyring.active), UNCHANGED keyring
  PROVE  /\ command' \in [Commands -> CommandTypes]
         /\ \A d \in Commands : CommandKept(command'[d], keyring'.active)
<1>1. command \in [Commands -> CommandTypes]
  BY DEF CredInv, CredentialTypes
<1>2. \A d \in Commands : command'[d] = IF d = c THEN x ELSE command[d]
  BY <1>1
<1> QED BY <1>1, <1>2 DEF CredInv

(* Rows that keep their keys, or are told to be outdated.                  *)
LEMMA CredStepInv == CredInv /\ [CredentialsNext]_credentialVars => CredInv'
<1> SUFFICES ASSUME CredInv, [CredentialsNext]_credentialVars PROVE CredInv'
  OBVIOUS
<1>0. /\ CredentialTypes /\ RingKept(keyring) /\ RetirableMeansRotated
      /\ ciphertexts \in [Records -> Rows] /\ keyring \in Rings
      /\ command \in [Commands -> CommandTypes] /\ stores \in 0..MaxStores
      /\ MaxStores \in Nat /\ MaxKeys \in Nat
      /\ \A c \in Commands : command[c] \in CommandTypes /\ CommandKept(command[c], keyring.active)
      /\ keyring.active \in 0..MaxKeys /\ keyring.keys \subseteq 1..MaxKeys
  BY CredentialsAssumption DEF CredInv, CredentialTypes, Rings
<1>1. ASSUME NEW c \in Commands, NEW work \in CommandTypes, work.op # "none", work.picked = {},
             work.op = "store" => work.record \in Records,
             BeginCommand(c, work), stores' \in 0..MaxStores
      PROVE  CredInv'
  <2> DEFINE x == [work EXCEPT !.ring = keyring]
  <2>1. x \in CommandTypes /\ x.op = work.op /\ x.picked = {} /\ x.ring = keyring /\ x.record = work.record
    BY <1>0, <1>1 DEF CommandTypes
  <2>2. command' = [command EXCEPT ![c] = x] /\ UNCHANGED <<ciphertexts, keyring, retirable, outdated>>
    BY <1>1 DEF BeginCommand
  <2> HIDE DEF x
  <2>3. HandKept(x)
    BY <2>1, FS_EmptySet, CredentialsAssumption DEF HandKept
  <2>4. CommandKept(x, keyring.active)
    BY <1>0, <1>1, <2>1, <2>3 DEF CommandKept
  <2>5. /\ command' \in [Commands -> CommandTypes]
        /\ \A d \in Commands : CommandKept(command'[d], keyring'.active)
    BY <2>1, <2>2, <2>4, CommandMoves
  <2> QED BY <1>0, <1>1, <2>2, <2>5 DEF CredInv, CredentialTypes, RetirableMeansRotated, Present
<1>2. ASSUME NEW c \in Commands, EndCommand(c)
      PROVE  /\ command' = [command EXCEPT ![c] = NoCommand]
             /\ keyring' = keyring =>
                  /\ command' \in [Commands -> CommandTypes]
                  /\ \A d \in Commands : CommandKept(command'[d], keyring'.active)
  <2>1. command' = [command EXCEPT ![c] = NoCommand]
    BY <1>2 DEF EndCommand
  <2> QED BY <2>1, NoCommandKept, CommandMoves
<1>3. ASSUME NEW c \in Commands, NEW r \in Records, BeginStore(c, r) PROVE CredInv'
  <2> DEFINE work == [NoCommand EXCEPT !.op = "store", !.record = r, !.secret = stores']
  <2>1. stores' \in 0..MaxStores /\ BeginCommand(c, work)
    BY <1>0, <1>3 DEF BeginStore
  <2>2. work \in CommandTypes /\ work.op = "store" /\ work.picked = {} /\ work.record = r
    BY <2>1, NoCommandKept DEF CommandTypes
  <2> HIDE DEF work
  <2> QED BY <1>1, <2>1, <2>2
<1>4. ASSUME NEW c \in Commands, BeginRotation(c) PROVE CredInv'
  <2> DEFINE work == [NoCommand EXCEPT !.op = "select"]
  <2>1. stores' \in 0..MaxStores /\ BeginCommand(c, work)
    BY <1>0, <1>4 DEF BeginRotation
  <2>2. work \in CommandTypes /\ work.op = "select" /\ work.picked = {}
    BY NoCommandKept DEF CommandTypes
  <2> HIDE DEF work
  <2> QED BY <1>1, <2>1, <2>2
<1>5. ASSUME NEW c \in Commands, Upsert(c) PROVE CredInv'
  <2> DEFINE x == command[c]
             row == [key |-> x.ring.active, secret |-> x.secret]
  <2>1. /\ x.op = "store" /\ ciphertexts' = [ciphertexts EXCEPT ![x.record] = row]
        /\ outdated' = IF x.ring.active = keyring.active THEN outdated \ {x.record} ELSE outdated \cup {x.record}
        /\ EndCommand(c) /\ UNCHANGED <<keyring, retirable, stores, commands>>
    BY <1>5 DEF Upsert
  <2>2. x \in CommandTypes /\ x.record \in Records /\ row \in Rows
    BY <1>0, <2>1 DEF CommandKept, CommandTypes, Rings, Rows
  <2>3. row.key = x.ring.active
    OBVIOUS
  <2> HIDE DEF x, row
  <2>4. \A r \in Records : ciphertexts'[r] = IF r = x.record THEN row ELSE ciphertexts[r]
    BY <1>0, <2>1
  <2>5. ciphertexts' \in [Records -> Rows]
    BY <1>0, <2>1, <2>2
  <2>6. RetirableMeansRotated'
    <3> SUFFICES ASSUME retirable, NEW r \in Records, ciphertexts'[r].key # 0, r \notin outdated'
                 PROVE  ciphertexts'[r].key = keyring.active
      BY <2>1 DEF RetirableMeansRotated, Present
    <3>1. CASE r = x.record
      BY <2>1, <2>3, <2>4, <3>1
    <3>2. CASE r # x.record
      <4>1. ciphertexts'[r] = ciphertexts[r] /\ r \notin outdated
        BY <2>1, <2>4, <3>2
      <4> QED BY <1>0, <4>1 DEF RetirableMeansRotated, Present
    <3> QED BY <3>1, <3>2
  <2> QED BY <1>0, <1>2, <2>1, <2>5, <2>6 DEF CredInv, CredentialTypes
<1>6. ASSUME NEW c \in Commands, SelectBatch(c) PROVE CredInv'
  <2> DEFINE ring == command[c].ring
             batch == Lowest(Inactive(ring))
             hand == {[record |-> r, was |-> ciphertexts[r]] : r \in batch}
  <2>1. command[c].op = "select" /\ UNCHANGED <<ciphertexts, keyring, retirable, outdated, stores, commands>>
    BY <1>6 DEF SelectBatch
  <2>2. \/ command' = [command EXCEPT ![c].op = "verify"]
        \/ EndCommand(c)
        \/ /\ \A r \in batch : Decrypts(ring, ciphertexts[r])
           /\ command' = [command EXCEPT ![c].op = "update", ![c].picked = hand]
    BY <1>6 DEF SelectBatch
  <2>3. command[c] \in CommandTypes /\ RingKept(ring) /\ ring.active <= keyring.active /\ HandKept(command[c])
    BY <1>0, <2>1 DEF CommandKept
  <2>4. ASSUME /\ command' \in [Commands -> CommandTypes]
               /\ \A d \in Commands : CommandKept(command'[d], keyring'.active)
        PROVE  CredInv'
    BY <1>0, <2>1, <2>4 DEF CredInv, CredentialTypes, RetirableMeansRotated, Present
  <2>5. CASE command' = [command EXCEPT ![c].op = "verify"]
    <3> DEFINE x == [command[c] EXCEPT !.op = "verify"]
    <3>1. command' = [command EXCEPT ![c] = x]
      BY <2>5
    <3>2. x \in CommandTypes /\ x.op = "verify" /\ x.ring = ring /\ x.picked = command[c].picked
      BY <2>3 DEF CommandTypes
    <3> HIDE DEF x
    <3>3. CommandKept(x, keyring.active)
      BY <2>3, <3>2 DEF CommandKept, HandKept
    <3> QED BY <2>1, <2>4, <3>1, <3>2, <3>3, CommandMoves
  <2>6. CASE EndCommand(c)
    BY <1>2, <2>1, <2>4, <2>6
  <2>7. CASE /\ \A r \in batch : Decrypts(ring, ciphertexts[r])
             /\ command' = [command EXCEPT ![c].op = "update", ![c].picked = hand]
    <3> DEFINE x == [command[c] EXCEPT !.op = "update", !.picked = hand]
    <3>1. command' = [command EXCEPT ![c] = x]
      BY <2>7
    <3>2. /\ batch \subseteq Inactive(ring) /\ IsFiniteSet(batch) /\ Cardinality(batch) <= RotationBatch
          /\ batch \subseteq Records
      BY <1>0, RowsInactive, LowestFit
    <3>3. \A r \in batch : ciphertexts[r].key # 0 /\ ciphertexts[r].key # ring.active
                            /\ ciphertexts[r].key \in ring.keys
      BY <2>7, <3>2 DEF Inactive, Present, Decrypts
    <3> HIDE DEF batch
    <3>4. hand \in SUBSET Picks
      BY <1>0, <3>2 DEF Picks
    <3>5. IsFiniteSet(hand) /\ Cardinality(hand) <= RotationBatch
      <4> DEFINE f == [p \in hand |-> p.record]
      <4>1. f \in [hand -> batch]
        OBVIOUS
      <4>2. \A p, q \in hand : f[p] = f[q] => p = q
        OBVIOUS
      <4> HIDE DEF f, hand
      <4>3. f \in Injection(hand, batch)
        BY <4>1, <4>2 DEF Injection, IsInjective
      <4>4. IsFiniteSet(hand) /\ Cardinality(hand) <= Cardinality(batch)
        BY <3>2, <4>3, FS_Injection
      <4>5. Cardinality(hand) \in Nat /\ Cardinality(batch) \in Nat /\ RotationBatch \in Nat
        BY <3>2, <4>4, FS_CardinalityType, CredentialsAssumption
      <4> QED BY <3>2, <4>4, <4>5
    <3>6. /\ \A p \in hand : p.was.key \in ring.keys /\ p.was.key # ring.active
          /\ \A p, q \in hand : p.record = q.record => p = q
      BY <3>3
    <3> HIDE DEF hand
    <3>7. x \in CommandTypes /\ x.op = "update" /\ x.ring = ring /\ x.picked = hand
      BY <2>3, <3>4 DEF CommandTypes
    <3> HIDE DEF x, ring
    <3>8. CommandKept(x, keyring.active)
      BY <2>3, <3>5, <3>6, <3>7 DEF CommandKept, HandKept
    <3> QED BY <2>1, <2>4, <3>1, <3>7, <3>8, CommandMoves
  <2> QED BY <2>2, <2>5, <2>6, <2>7
<1>7. ASSUME NEW c \in Commands, CommitBatch(c) PROVE CredInv'
  <2> DEFINE y == command[c]
             x == [y EXCEPT !.op = "select", !.picked = {}]
  <2>1. /\ y.op = "update" /\ ciphertexts' = Rewritten(c)
        /\ command' = [command EXCEPT ![c] = x]
        /\ UNCHANGED <<keyring, retirable, outdated, stores, commands>>
    BY <1>7 DEF CommitBatch
  <2>2. /\ y \in CommandTypes /\ RingKept(y.ring) /\ y.ring.active <= keyring.active /\ HandKept(y)
        /\ y.ring \in Rings /\ y.picked \subseteq Picks
    BY <1>0, <2>1 DEF CommandKept, CommandTypes
  <2>3. x \in CommandTypes /\ x.op = "select" /\ x.ring = y.ring /\ x.picked = {}
    BY <2>2 DEF CommandTypes
  <2>4. HandKept(x)
    BY <2>3, FS_EmptySet, CredentialsAssumption DEF HandKept
  <2>5. CommandKept(x, keyring.active)
    BY <2>2, <2>3, <2>4 DEF CommandKept
  <2>6. /\ command' \in [Commands -> CommandTypes]
        /\ \A d \in Commands : CommandKept(command'[d], keyring'.active)
    BY <2>1, <2>3, <2>5, CommandMoves
  <2>7. ASSUME NEW r \in Records
        PROVE  \/ ciphertexts'[r] = ciphertexts[r]
               \/ \E p \in y.picked : /\ p.record = r /\ SameKey(p)
                                      /\ ciphertexts'[r] = [key |-> y.ring.active, secret |-> p.was.secret]
    <3>1. CASE \E p \in y.picked : p.record = r /\ SameKey(p)
      <4>1. PICK p \in y.picked : p.record = r /\ SameKey(p)
        BY <3>1
      <4>2. (CHOOSE q \in y.picked : q.record = r) = p
        BY <2>2, <4>1 DEF HandKept
      <4>3. ciphertexts'[r] = [key |-> y.ring.active, secret |-> (CHOOSE q \in y.picked : q.record = r).was.secret]
        BY <2>1, <3>1 DEF Rewritten
      <4> QED BY <4>1, <4>2, <4>3
    <3>2. CASE ~\E p \in y.picked : p.record = r /\ SameKey(p)
      BY <2>1, <3>2 DEF Rewritten
    <3> QED BY <3>1, <3>2
  <2>8. ciphertexts' \in [Records -> Rows]
    <3>1. ASSUME NEW r \in Records PROVE ciphertexts'[r] \in Rows
      <4>1. CASE ciphertexts'[r] = ciphertexts[r]
        BY <1>0, <4>1
      <4>2. ASSUME NEW p \in y.picked,
                   ciphertexts'[r] = [key |-> y.ring.active, secret |-> p.was.secret]
            PROVE  ciphertexts'[r] \in Rows
        <5>1. p.was \in Rows /\ y.ring.active \in 0..MaxKeys
          BY <2>2, <4>2 DEF Rings, Picks
        <5>2. p.was.secret \in 0..MaxStores
          BY <5>1 DEF Rows
        <5> QED BY <4>2, <5>1, <5>2 DEF Rows
      <4> QED BY <2>7, <4>1, <4>2
    <3>2. ciphertexts' = [r \in Records |-> ciphertexts'[r]]
      BY <2>1 DEF Rewritten
    <3> QED BY <3>1, <3>2
  <2>9. RetirableMeansRotated'
    <3> SUFFICES ASSUME retirable, NEW r \in Records, ciphertexts'[r].key # 0, r \notin outdated
                 PROVE  ciphertexts'[r].key = keyring.active
      BY <2>1 DEF RetirableMeansRotated, Present
    <3>1. CASE ciphertexts'[r] = ciphertexts[r]
      BY <1>0, <3>1 DEF RetirableMeansRotated, Present
    <3>2. ASSUME NEW p \in y.picked, p.record = r, SameKey(p) PROVE FALSE
      <4>1. ciphertexts[r].key = p.was.key /\ p.was.key \in y.ring.keys /\ p.was.key # y.ring.active
        BY <2>2, <3>2 DEF SameKey, HandKept
      <4>2. y.ring.keys \subseteq 1..MaxKeys
        BY <2>2 DEF Rings
      <4>3. p.was.key # 0
        BY <4>1, <4>2
      <4>4. p.was.key = keyring.active
        BY <1>0, <3>2, <4>1, <4>3 DEF RetirableMeansRotated, Present
      <4>5. keyring.active <= y.ring.active /\ y.ring.active \in Int /\ keyring.active \in Int
        BY <1>0, <2>2, <4>1, <4>4 DEF RingKept, Rings
      <4> QED BY <2>2, <4>1, <4>4, <4>5
    <3> QED BY <2>7, <3>1, <3>2
  <2> QED BY <1>0, <2>1, <2>6, <2>8, <2>9 DEF CredInv, CredentialTypes
<1>8. ASSUME NEW c \in Commands, Verify(c) PROVE CredInv'
  <2>1. /\ retirable' = (SafeReport(command[c].ring) /\ command[c].ring = keyring)
        /\ EndCommand(c) /\ UNCHANGED <<ciphertexts, keyring, stores, commands>>
    BY <1>8 DEF Verify
  <2>2. RetirableMeansRotated'
    <3> SUFFICES ASSUME retirable', NEW r \in Records, ciphertexts[r].key # 0
                 PROVE  ciphertexts[r].key = keyring.active
      BY <2>1 DEF RetirableMeansRotated, Present
    <3>1. SafeReport(command[c].ring) /\ command[c].ring = keyring
      BY <2>1
    <3> QED BY <3>1 DEF SafeReport, Inactive, Present
  <2> QED BY <1>0, <1>2, <2>1, <2>2 DEF CredInv, CredentialTypes
<1>9. CASE NewKey
  <2> DEFINE k == keyring.active + 1
  <2>1. /\ keyring.active < MaxKeys /\ keyring' = [active |-> k, keys |-> keyring.keys \cup {k}]
        /\ retirable' = FALSE /\ UNCHANGED <<ciphertexts, command, outdated, stores, commands>>
    BY <1>9 DEF NewKey
  <2>2. k \in 1..MaxKeys /\ k \in Int /\ keyring.active \in Int
    BY <1>0, <2>1
  <2>3. keyring' \in Rings /\ keyring'.active = k /\ keyring'.keys = keyring.keys \cup {k}
    BY <1>0, <2>1, <2>2 DEF Rings
  <2>4. RingKept(keyring')
    <3>1. \A j \in keyring.keys : j \in Int /\ j <= keyring.active
      BY <1>0 DEF RingKept
    <3> QED BY <2>2, <2>3, <3>1 DEF RingKept
  <2>5. ASSUME NEW c \in Commands PROVE CommandKept(command'[c], keyring'.active)
    <3>1. command[c].ring.active \in Int
      BY <1>0 DEF CommandTypes, Rings
    <3>2. CommandKept(command[c], keyring.active) /\ command' = command
      BY <1>0, <2>1
    <3> QED BY <2>2, <2>3, <3>1, <3>2 DEF CommandKept
  <2> QED BY <1>0, <2>1, <2>3, <2>4, <2>5 DEF CredInv, CredentialTypes, RetirableMeansRotated
<1>10. CASE RetireKeys
  <2>1. /\ keyring' = [keyring EXCEPT !.keys = {keyring.active}]
        /\ UNCHANGED <<ciphertexts, retirable, command, outdated, stores, commands>>
    BY <1>10 DEF RetireKeys
  <2>2. keyring.active \in 1..MaxKeys /\ keyring.active \in Int
    BY <1>0 DEF RingKept
  <2>3. keyring' \in Rings /\ keyring'.active = keyring.active /\ keyring'.keys = {keyring.active}
    BY <1>0, <2>1, <2>2 DEF Rings
  <2>4. RingKept(keyring')
    BY <2>2, <2>3 DEF RingKept
  <2> QED BY <1>0, <2>1, <2>3, <2>4 DEF CredInv, CredentialTypes, RetirableMeansRotated, Present
<1>11. ASSUME NEW c \in Commands, KillCommand(c) PROVE CredInv'
  <2>1. EndCommand(c) /\ UNCHANGED <<ciphertexts, keyring, retirable, outdated, stores, commands>>
    BY <1>11 DEF KillCommand
  <2> QED BY <1>0, <1>2, <2>1 DEF CredInv, CredentialTypes, RetirableMeansRotated, Present
<1>12. CASE UNCHANGED credentialVars
  BY <1>12 DEF credentialVars, CredInv, CredentialTypes, RetirableMeansRotated, Present
<1> QED BY <1>3, <1>4, <1>5, <1>6, <1>7, <1>8, <1>9, <1>10, <1>11, <1>12 DEF CredentialsNext, CommandStep

(* It is an invariant of the specification.                                *)
LEMMA CredInvariant == CredentialsSpec => []CredInv
BY CredInitInv, CredStepInv, PTL DEF CredentialsSpec

(* For any number of records, commands and keys: what a rotation reports   *)
(* retirable is needed by no row but one stored since by a command with an *)
(* older keyring, and a rotation loses no secret but one stored under the  *)
(* very key it had read (rotate_credentials, PgCredentialStore).           *)
THEOREM CredentialsSafety == CredentialsSpec => CredentialsSafe
<1>1. CredInv => CredentialsTypeOK
  <2> SUFFICES ASSUME CredInv PROVE CredentialsTypeOK
    OBVIOUS
  <2>1. ASSUME NEW c \in Commands
        PROVE  /\ Cardinality(command[c].picked) <= RotationBatch
               /\ \A p \in command[c].picked : p.was.key \in command[c].ring.keys \ {0}
    <3>1. HandKept(command[c]) /\ command[c].ring.keys \subseteq 1..MaxKeys
      BY DEF CredInv, CredentialTypes, CommandKept, CommandTypes, Rings
    <3>2. 0 \notin command[c].ring.keys
      BY <3>1
    <3> QED BY <3>1, <3>2 DEF HandKept
  <2>2. \A r \in Records : ciphertexts[r] \in [key : 0..MaxKeys, secret : 0..MaxStores]
    BY DEF CredInv, CredentialTypes, Rows
  <2>3. keyring.active \in keyring.keys /\ keyring.keys \subseteq 1..MaxKeys
    BY DEF CredInv, CredentialTypes, RingKept, Rings
  <2> QED BY <2>1, <2>2, <2>3 DEF CredentialsTypeOK
<1>2. CredInv => RetirableMeansRotated
  BY DEF CredInv
<1>3. CredInv /\ [CredentialsNext]_credentialVars => [ \A r \in Present :
          ciphertexts'[r].secret # ciphertexts[r].secret =>
             \/ \E c \in Commands : command[c].op = "store" /\ command[c].record = r /\ command'[c] = NoCommand
             \/ \E c \in Commands : \E p \in command[c].picked :
                   p.record = r /\ p.was # ciphertexts[r] /\ p.was.key = ciphertexts[r].key]_credentialVars
  <2> SUFFICES ASSUME CredInv, CredentialsNext, NEW r \in Present,
                      ciphertexts'[r].secret # ciphertexts[r].secret
               PROVE  \/ \E c \in Commands : command[c].op = "store" /\ command[c].record = r /\ command'[c] = NoCommand
                      \/ \E c \in Commands : \E p \in command[c].picked :
                            p.record = r /\ p.was # ciphertexts[r] /\ p.was.key = ciphertexts[r].key
    OBVIOUS
  <2>0. ciphertexts \in [Records -> Rows] /\ command \in [Commands -> CommandTypes] /\ r \in Records
    BY DEF CredInv, CredentialTypes, Present
  <2>1. ASSUME NEW c \in Commands, Upsert(c)
        PROVE  command[c].record = r /\ command[c].op = "store" /\ command'[c] = NoCommand
    BY <2>0, <2>1 DEF Upsert, EndCommand
  <2>2. ASSUME NEW c \in Commands, CommitBatch(c)
        PROVE  \E p \in command[c].picked :
                 p.record = r /\ p.was # ciphertexts[r] /\ p.was.key = ciphertexts[r].key
    <3>1. ciphertexts' = Rewritten(c)
      BY <2>2 DEF CommitBatch
    <3>2. PICK p \in command[c].picked : p.record = r /\ SameKey(p)
      BY <2>0, <3>1 DEF Rewritten
    <3>3. (CHOOSE q \in command[c].picked : q.record = r) = p
      BY <3>2 DEF CredInv, CommandKept, HandKept
    <3>4. ciphertexts'[r].secret = p.was.secret
      BY <2>0, <3>1, <3>2, <3>3 DEF Rewritten
    <3> QED BY <3>2, <3>4 DEF SameKey
  <2>3. CASE ciphertexts' = ciphertexts
    BY <2>3
  <2> QED BY <2>1, <2>2, <2>3 DEF CredentialsNext, CommandStep, BeginStore, BeginRotation, BeginCommand,
             SelectBatch, Verify, NewKey, RetireKeys, KillCommand
<1> QED BY <1>1, <1>2, <1>3, CredInvariant, PTL DEF CredentialsSpec, CredentialsSafe, RotationKeepsSecrets

-----------------------------------------------------------------------------
(* The execution broker.                                                   *)

(* Types of the workers, the brokers, the jobs and the executions.         *)
TaskPoints == {"idle", "connect", "waiting", "refused", "authorize", "discard", "complete"}
EarlyPoints == {"idle", "connect", "waiting"}

TaskTypes ==
  [pc : TaskPoints, job : ExecJobs, current : BOOLEAN, x : Nat, checked : SUBSET Outputs, put : SUBSET Outputs]
WorkerTypes == [status : {"down", "rename", "listen", "up"}, task : TaskTypes]
BrokerTypes ==
  [pc : {"accept", "sandbox", "collect", "respond"}, caller : ExecWorkers \cup {NoWorker}, x : Nat,
   backlog : SUBSET ExecWorkers]
Fates ==
  [status : {"running", "refused", "violation", "error"} \cup SandboxOutcomes, denied : BOOLEAN, spoiled : BOOLEAN]
JobRows == [status : {"queued", "running", "done", "failed", "cancelled"}, refs : SUBSET (Nat \X Outputs), result : Nat]

ExecTypes ==
  /\ workerOf \in [ExecWorkers -> WorkerTypes]
  /\ broker \in [ExecWorkers -> BrokerTypes]
  /\ socketOf \in ExecWorkers \cup {NoWorker}
  /\ execJob \in [ExecJobs -> JobRows]
  /\ \E n \in Nat : execution \in [1..n -> Fates]
  /\ quarantine \subseteq DOMAIN execution

(* A broker that is busy serves the handler of its own process, which      *)
(* waits, and has left files only of an execution that succeeded or broke. *)
Serves(b, t) ==
  \/ b.pc = "accept" /\ b.caller = NoWorker /\ b.x = 0
  \/ /\ b.pc # "accept" /\ t.pc = "waiting" /\ b.x \in DOMAIN execution
     /\ ~execution[b.x].denied
     /\ b.pc = "collect" => execution[b.x].status = "succeeded"
     /\ b.x \in quarantine =>
          b.pc = "respond" /\ (execution[b.x].status = "succeeded" \/ execution[b.x].spoiled)

(* A handler has stored nothing before everything was checked, refers to   *)
(* what it has stored, and leaves no file behind.                          *)
TaskKept(t) ==
  /\ t.pc \in EarlyPoints => t.x = 0 /\ t.checked = {}
  /\ t.put \subseteq t.checked
  /\ t.put # {} => t.checked = Outputs
  /\ t.x \in DOMAIN execution \cup {0}
  /\ t.pc \in {"authorize", "discard", "complete"} => t.x # 0
  /\ t.pc = "authorize" => execution[t.x].status = "succeeded" /\ ~execution[t.x].denied
  /\ \A o \in t.put : <<t.x, o>> \in execJob[t.job].refs
  /\ t.pc = "complete" => t.put = Outputs
  /\ t.pc \in {"complete", "refused"} => t.x \notin quarantine

(* A worker and the broker of its process.                                 *)
WorkerKept(w) ==
  /\ Serves(broker[w], workerOf[w].task)
  /\ broker[w].pc # "accept" => broker[w].caller = w
  /\ TaskKept(workerOf[w].task)
  /\ workerOf[w].status # "up" => workerOf[w].task = NoTask /\ broker[w] = IdleBroker

(* Who is in a backlog waits there and nowhere else.                       *)
Queueing ==
  \A b, w \in ExecWorkers : w \in broker[b].backlog =>
    /\ workerOf[w].task.pc = "waiting" /\ broker[w].pc = "accept"
    /\ \A c \in ExecWorkers : w \in broker[c].backlog => c = b

(* An execution is in the hands of one process.                            *)
Holds(w) == {broker[w].x, workerOf[w].task.x} \ {0}

(* No two processes have the same.                                         *)
OneHolds == \A v, w \in ExecWorkers : v # w => Holds(v) \cap Holds(w) = {}

(* What a job refers to is of an execution that succeeded, and, if that is *)
(* still in hand, among what was put.                                      *)
RefsKept ==
  \A j \in ExecJobs : \A r \in execJob[j].refs :
    /\ r[1] \in DOMAIN execution /\ execution[r[1]].status = "succeeded" /\ ~execution[r[1]].denied
    /\ \A w \in ExecWorkers : /\ broker[w].x # r[1]
                              /\ workerOf[w].task.x = r[1] => r[2] \in workerOf[w].task.put

(* The inductive invariant.                                                *)
ExecInv ==
  /\ ExecTypes
  /\ \A w \in ExecWorkers : WorkerKept(w)
  /\ Queueing /\ OneHolds /\ RefsKept /\ ResultIsStored /\ QuarantineDrains

-----------------------------------------------------------------------------
(* A worker that has no task, and its broker.                              *)
LEMMA NothingToDo ==
  /\ NoTask \in TaskTypes /\ IdleBroker \in BrokerTypes /\ DownWorker \in WorkerTypes
  /\ NoTask.pc = "idle" /\ NoTask.x = 0 /\ NoTask.checked = {} /\ NoTask.put = {}
  /\ DownWorker.task = NoTask
  /\ IdleBroker.pc = "accept" /\ IdleBroker.caller = NoWorker /\ IdleBroker.x = 0 /\ IdleBroker.backlog = {}
<1>1. (CHOOSE j \in ExecJobs : TRUE) \in ExecJobs
  BY ExecutionAssumption
<1> DEFINE j0 == CHOOSE j \in ExecJobs : TRUE
<1>2. j0 \in ExecJobs /\ NoTask = [pc |-> "idle", job |-> j0, current |-> FALSE, x |-> 0, checked |-> {}, put |-> {}]
  BY <1>1 DEF NoTask
<1> HIDE DEF j0
<1>3. NoTask \in TaskTypes
  BY <1>2 DEF TaskTypes, TaskPoints
<1>4. /\ NoTask.pc = "idle" /\ NoTask.x = 0 /\ NoTask.checked = {} /\ NoTask.put = {}
  BY <1>2
<1>5. DownWorker \in WorkerTypes /\ DownWorker.task = NoTask
  BY <1>3 DEF DownWorker, WorkerTypes
<1>6. IdleBroker \in BrokerTypes
  BY DEF IdleBroker, BrokerTypes
<1>7. /\ IdleBroker.pc = "accept" /\ IdleBroker.caller = NoWorker /\ IdleBroker.x = 0 /\ IdleBroker.backlog = {}
  BY DEF IdleBroker
<1> QED BY <1>3, <1>4, <1>5, <1>6, <1>7

(* The invariant holds at first.                                           *)
LEMMA ExecInitInv == ExecInit => ExecInv
<1> SUFFICES ASSUME ExecInit PROVE ExecInv
  OBVIOUS
<1>1. /\ \A w \in ExecWorkers : /\ workerOf[w] = DownWorker /\ broker[w] = IdleBroker
                                /\ workerOf[w].task = NoTask
      /\ \A j \in ExecJobs : execJob[j].refs = {} /\ execJob[j].status = "queued"
      /\ quarantine = {} /\ DOMAIN execution = {}
  BY NothingToDo DEF ExecInit
<1>2. ExecTypes
  <2>1. execution \in [1..0 -> Fates]
    <3>1. 1..0 = {}
      OBVIOUS
    <3> QED BY <3>1 DEF ExecInit
  <2>2. execJob \in [ExecJobs -> JobRows]
    BY DEF ExecInit, JobRows
  <2> QED BY <1>1, <2>1, <2>2, NothingToDo DEF ExecInit, ExecTypes
<1>3. \A w \in ExecWorkers : WorkerKept(w)
  BY <1>1, NothingToDo DEF WorkerKept, Serves, TaskKept, EarlyPoints
<1>4. Queueing /\ OneHolds /\ RefsKept /\ QuarantineDrains
  BY <1>1, NothingToDo DEF Queueing, OneHolds, Holds, RefsKept, QuarantineDrains
<1>5. ResultIsStored
  BY <1>1 DEF ResultIsStored
<1> QED BY <1>2, <1>3, <1>4, <1>5 DEF ExecInv

-----------------------------------------------------------------------------
(* What a step may do to a process whose execution is not concerned: its   *)
(* task stays, or is an early one, or it ends and spoils what it has.      *)
Stays(v) ==
  /\ workerOf'[v].task.pc = workerOf[v].task.pc /\ workerOf'[v].task.x = workerOf[v].task.x
  /\ workerOf'[v].task.job = workerOf[v].task.job
  /\ workerOf'[v].task.checked = workerOf[v].task.checked /\ workerOf'[v].task.put = workerOf[v].task.put
  /\ workerOf'[v].status # "up" => workerOf[v].status # "up" /\ workerOf'[v].task = workerOf[v].task

(* Its task waits, is refused or is given back with nothing in hand.       *)
Early(v) ==
  /\ broker[v].pc = "accept" /\ workerOf'[v].status = "up"
  /\ workerOf[v].task.pc \in EarlyPoints /\ workerOf'[v].task.pc \in EarlyPoints \cup {"refused"}
  /\ workerOf'[v].task.x = 0 /\ workerOf'[v].task.checked = {} /\ workerOf'[v].task.put = {}

(* Its broker goes on with what it does.                                   *)
SameService(v) ==
  /\ broker'[v].pc = broker[v].pc /\ broker'[v].caller = broker[v].caller /\ broker'[v].x = broker[v].x
  /\ workerOf'[v].status # "up" => broker'[v] = broker[v]

(* The process ends, and marks what it had as spoiled.                     *)
Ends(v) ==
  /\ workerOf'[v].task = NoTask /\ broker'[v] = IdleBroker
  /\ \A x \in Holds(v) : execution'[x].spoiled

(* One of them.                                                            *)
QuietFor(v) == ((Stays(v) \/ Early(v)) /\ SameService(v)) \/ Ends(v)

(* Executions may be spoiled, and jobs handed out or given back.           *)
SameFates ==
  /\ DOMAIN execution' = DOMAIN execution
  /\ \A x \in DOMAIN execution :
       /\ execution'[x].status = execution[x].status /\ execution'[x].denied = execution[x].denied
       /\ execution[x].spoiled => execution'[x].spoiled

(* No job gets a reference, and none becomes done.                         *)
SameResults ==
  \A j \in ExecJobs :
    /\ execJob'[j].refs = execJob[j].refs
    /\ execJob'[j].status = "done" => execJob[j].status = "done" /\ execJob'[j].result = execJob[j].result

(* A step that concerns no execution but to spoil it.                      *)
LEMMA OthersKeepInv ==
  ASSUME ExecInv, ExecTypes', Queueing', SameFates, SameResults, quarantine' = quarantine,
         \A v \in ExecWorkers : QuietFor(v)
  PROVE  ExecInv'
<1>0. /\ ExecTypes /\ \A v \in ExecWorkers : WorkerKept(v)
      /\ OneHolds /\ RefsKept /\ ResultIsStored /\ QuarantineDrains
  BY DEF ExecInv
<1>1. 0 \notin DOMAIN execution
  BY <1>0 DEF ExecTypes
<1>2. 0 \notin quarantine
  BY <1>0, <1>1 DEF ExecTypes
<1>3. ASSUME NEW v \in ExecWorkers
      PROVE  /\ workerOf[v].task \in TaskTypes /\ workerOf'[v].task \in TaskTypes
             /\ broker[v] \in BrokerTypes /\ broker'[v] \in BrokerTypes
             /\ workerOf[v].task.job \in ExecJobs
  BY <1>0 DEF ExecTypes, WorkerTypes, TaskTypes
<1>4. ASSUME NEW v \in ExecWorkers
      PROVE  WorkerKept(v)'
  <2>0. WorkerKept(v) /\ QuietFor(v)
    BY <1>0
  <2>1. CASE Ends(v)
    BY <2>1, <1>2, NothingToDo DEF Ends, WorkerKept, Serves, TaskKept, EarlyPoints
  <2>2. CASE (Stays(v) \/ Early(v)) /\ SameService(v)
    <3> DEFINE t == workerOf[v].task
               u == workerOf'[v].task
               b == broker[v]
               c == broker'[v]
    <3>1. Serves(b, t) /\ TaskKept(t) /\ c.pc = b.pc /\ c.caller = b.caller /\ c.x = b.x
          /\ (b.pc # "accept" => b.caller = v)
      BY <2>0, <2>2 DEF WorkerKept, SameService
    <3>2. u.job \in ExecJobs
      BY <1>3 DEF TaskTypes
    <3>3. CASE Stays(v)
      <4>1. u.pc = t.pc /\ u.x = t.x /\ u.job = t.job /\ u.checked = t.checked /\ u.put = t.put
        BY <3>3 DEF Stays
      <4>2. t.job \in ExecJobs
        BY <1>3
      <4>3. Serves(broker[v], workerOf[v].task)'
        BY <3>1, <4>1 DEF Serves, SameFates
      <4>4. TaskKept(workerOf[v].task)'
        <5> HIDE DEF t, u, b, c
        <5>1. /\ u.pc \in EarlyPoints => u.x = 0 /\ u.checked = {}
              /\ u.put \subseteq u.checked
              /\ u.put # {} => u.checked = Outputs
              /\ u.x \in DOMAIN execution' \cup {0}
              /\ u.pc \in {"authorize", "discard", "complete"} => u.x # 0
              /\ u.pc = "complete" => u.put = Outputs
              /\ u.pc \in {"complete", "refused"} => u.x \notin quarantine'
          BY <3>1, <4>1 DEF TaskKept, SameFates
        <5>2. \A o \in u.put : <<u.x, o>> \in execJob'[u.job].refs
          BY <3>1, <4>1, <4>2 DEF TaskKept, SameResults
        <5>3. u.pc = "authorize" => execution'[u.x].status = "succeeded" /\ ~execution'[u.x].denied
          BY <3>1, <4>1 DEF TaskKept, SameFates
        <5> QED BY <5>1, <5>2, <5>3 DEF TaskKept, u
      <4>6. workerOf'[v].status # "up" => u = NoTask /\ c = IdleBroker
        BY <2>0, <2>2, <3>3 DEF Stays, SameService, WorkerKept
      <4> QED BY <3>1, <4>3, <4>4, <4>6 DEF WorkerKept
    <3>4. CASE Early(v)
      <4>1. /\ b.pc = "accept" /\ u.pc \in EarlyPoints \cup {"refused"} /\ u.x = 0 /\ u.checked = {} /\ u.put = {}
            /\ workerOf'[v].status = "up"
        BY <3>4 DEF Early
      <4>2. Serves(broker[v], workerOf[v].task)'
        BY <3>1, <4>1 DEF Serves
      <4>3. TaskKept(workerOf[v].task)'
        BY <4>1, <1>2 DEF TaskKept, EarlyPoints
      <4> QED BY <3>1, <4>1, <4>2, <4>3 DEF WorkerKept
    <3> QED BY <2>2, <3>3, <3>4
  <2> QED BY <2>0, <2>1, <2>2 DEF QuietFor
<1>5. ASSUME NEW v \in ExecWorkers
      PROVE  Holds(v)' \subseteq Holds(v)
  <2>1. CASE Ends(v)
    BY <2>1, NothingToDo DEF Ends, Holds
  <2>2. CASE (Stays(v) \/ Early(v)) /\ SameService(v)
    BY <2>2 DEF Stays, Early, SameService, Holds
  <2> QED BY <2>1, <2>2 DEF QuietFor
<1>6. OneHolds'
  BY <1>0, <1>5 DEF OneHolds
<1>7. RefsKept'
  <2> SUFFICES ASSUME NEW j \in ExecJobs, NEW r \in execJob'[j].refs
               PROVE  /\ r[1] \in DOMAIN execution' /\ execution'[r[1]].status = "succeeded"
                      /\ ~execution'[r[1]].denied
                      /\ \A w \in ExecWorkers : /\ broker'[w].x # r[1]
                                                /\ workerOf'[w].task.x = r[1] => r[2] \in workerOf'[w].task.put
    BY DEF RefsKept
  <2>1. /\ r[1] \in DOMAIN execution /\ execution[r[1]].status = "succeeded" /\ ~execution[r[1]].denied
        /\ \A w \in ExecWorkers : /\ broker[w].x # r[1]
                                  /\ workerOf[w].task.x = r[1] => r[2] \in workerOf[w].task.put
    BY <1>0 DEF RefsKept, SameResults
  <2>2. r[1] # 0
    BY <1>1, <2>1
  <2>3. ASSUME NEW w \in ExecWorkers
        PROVE  broker'[w].x # r[1] /\ (workerOf'[w].task.x = r[1] => r[2] \in workerOf'[w].task.put)
    <3>1. CASE Ends(w)
      BY <2>2, <3>1, NothingToDo DEF Ends
    <3>2. CASE (Stays(w) \/ Early(w)) /\ SameService(w)
      BY <2>1, <2>2, <3>2 DEF Stays, Early, SameService
    <3> QED BY <3>1, <3>2 DEF QuietFor
  <2> QED BY <2>1, <2>3 DEF SameFates
<1>8. ResultIsStored'
  BY <1>0 DEF ResultIsStored, SameResults
<1>9. QuarantineDrains'
  <2> SUFFICES ASSUME NEW x \in quarantine PROVE x \in InProgress' \/ execution'[x].spoiled
    BY DEF QuarantineDrains
  <2>1. x \in DOMAIN execution /\ x # 0
    BY <1>0, <1>2 DEF ExecTypes
  <2>2. CASE execution[x].spoiled
    BY <2>1, <2>2 DEF SameFates
  <2>3. ASSUME NEW w \in ExecWorkers, x = broker[w].x \/ x = workerOf[w].task.x
        PROVE  x \in InProgress' \/ execution'[x].spoiled
    <3>1. CASE Ends(w)
      BY <2>1, <2>3, <3>1 DEF Ends, Holds
    <3>2. CASE SameService(w) /\ Stays(w)
      <4>1. x = broker'[w].x \/ x = workerOf'[w].task.x
        BY <2>3, <3>2 DEF SameService, Stays
      <4> QED BY <4>1 DEF InProgress
    <3>3. CASE SameService(w) /\ Early(w)
      <4>1. workerOf[w].task.x = 0
        BY <1>0, <3>3 DEF WorkerKept, TaskKept, Early
      <4>2. x = broker'[w].x
        BY <2>1, <2>3, <3>3, <4>1 DEF SameService
      <4> QED BY <4>2 DEF InProgress
    <3> QED BY <3>1, <3>2, <3>3 DEF QuietFor
  <2>4. x \in InProgress \/ execution[x].spoiled
    BY <1>0 DEF QuarantineDrains
  <2> QED BY <2>2, <2>3, <2>4 DEF InProgress
<1> QED BY <1>4, <1>6, <1>7, <1>8, <1>9 DEF ExecInv

-----------------------------------------------------------------------------
(* The step of a handler to another point.                                 *)
LEMMA TaskToMoves ==
  ASSUME ExecTypes, NEW w \in ExecWorkers, NEW at \in TaskPoints, TaskTo(w, at)
  PROVE  /\ workerOf' \in [ExecWorkers -> WorkerTypes]
         /\ \A v \in ExecWorkers : v # w => workerOf'[v] = workerOf[v]
         /\ workerOf'[w].status = workerOf[w].status
         /\ workerOf'[w].task = [workerOf[w].task EXCEPT !.pc = at]
         /\ workerOf'[w].task.pc = at
         /\ workerOf'[w].task.x = workerOf[w].task.x /\ workerOf'[w].task.job = workerOf[w].task.job
         /\ workerOf'[w].task.checked = workerOf[w].task.checked
         /\ workerOf'[w].task.put = workerOf[w].task.put
         /\ workerOf'[w].task.current = workerOf[w].task.current
<1> DEFINE t == [workerOf[w].task EXCEPT !.pc = at]
           r == [workerOf[w] EXCEPT !.task = t]
<1>1. workerOf \in [ExecWorkers -> WorkerTypes] /\ workerOf[w] \in WorkerTypes /\ workerOf[w].task \in TaskTypes
  BY DEF ExecTypes, WorkerTypes
<1>2. workerOf' = [workerOf EXCEPT ![w] = r]
  BY <1>1 DEF TaskTo, WorkerTypes, TaskTypes
<1>3. t \in TaskTypes /\ t.pc = at /\ t.x = workerOf[w].task.x /\ t.job = workerOf[w].task.job
      /\ t.checked = workerOf[w].task.checked /\ t.put = workerOf[w].task.put
      /\ t.current = workerOf[w].task.current
  BY <1>1 DEF TaskTypes
<1>4. r \in WorkerTypes /\ r.task = t /\ r.status = workerOf[w].status
  <2> HIDE DEF t
  <2> QED BY <1>1, <1>3 DEF WorkerTypes
<1> HIDE DEF t, r
<1> QED BY <1>1, <1>2, <1>3, <1>4 DEF t

(* A handler that gets another task.                                       *)
LEMMA TaskMoves ==
  ASSUME ExecTypes, NEW w \in ExecWorkers, NEW t \in TaskTypes, workerOf' = [workerOf EXCEPT ![w].task = t]
  PROVE  /\ workerOf' \in [ExecWorkers -> WorkerTypes]
         /\ \A v \in ExecWorkers : v # w => workerOf'[v] = workerOf[v]
         /\ workerOf'[w].status = workerOf[w].status /\ workerOf'[w].task = t
<1> DEFINE r == [workerOf[w] EXCEPT !.task = t]
<1>1. workerOf \in [ExecWorkers -> WorkerTypes] /\ workerOf[w] \in WorkerTypes
  BY DEF ExecTypes
<1>2. workerOf' = [workerOf EXCEPT ![w] = r]
  BY <1>1
<1>3. r \in WorkerTypes /\ r.task = t /\ r.status = workerOf[w].status
  BY <1>1 DEF WorkerTypes
<1> HIDE DEF r
<1> QED BY <1>1, <1>2, <1>3

(* The step of a broker to another point.                                  *)
LEMMA BrokerToMoves ==
  ASSUME ExecTypes, NEW w \in ExecWorkers, NEW at \in {"accept", "sandbox", "collect", "respond"}, BrokerTo(w, at)
  PROVE  /\ broker' \in [ExecWorkers -> BrokerTypes]
         /\ \A v \in ExecWorkers : v # w => broker'[v] = broker[v]
         /\ broker'[w].pc = at /\ broker'[w].caller = broker[w].caller
         /\ broker'[w].x = broker[w].x /\ broker'[w].backlog = broker[w].backlog
<1> DEFINE r == [broker[w] EXCEPT !.pc = at]
<1>1. broker \in [ExecWorkers -> BrokerTypes] /\ broker[w] \in BrokerTypes
  BY DEF ExecTypes
<1>2. broker' = [broker EXCEPT ![w] = r]
  BY DEF BrokerTo
<1>3. r \in BrokerTypes /\ r.pc = at /\ r.caller = broker[w].caller /\ r.x = broker[w].x
      /\ r.backlog = broker[w].backlog
  BY <1>1 DEF BrokerTypes
<1> HIDE DEF r
<1> QED BY <1>1, <1>2, <1>3

(* Requests stay in order while backlogs lose some.                        *)
LEMMA ShorterBacklogs ==
  ASSUME ExecInv,
         \A b \in ExecWorkers : broker'[b].backlog \subseteq broker[b].backlog,
         \A b, v \in ExecWorkers : v \in broker'[b].backlog =>
           workerOf'[v].task.pc = workerOf[v].task.pc /\ broker'[v].pc = broker[v].pc
  PROVE  Queueing'
<1>1. Queueing
  BY DEF ExecInv
<1> SUFFICES ASSUME NEW b \in ExecWorkers, NEW v \in ExecWorkers, v \in broker'[b].backlog
             PROVE  /\ workerOf'[v].task.pc = "waiting" /\ broker'[v].pc = "accept"
                    /\ \A c \in ExecWorkers : v \in broker'[c].backlog => c = b
  BY DEF Queueing
<1> QED BY <1>1 DEF Queueing

(* Who does not wait is in no backlog, and its broker is free.             *)
LEMMA NotWaiting ==
  ASSUME ExecInv, NEW w \in ExecWorkers, workerOf[w].task.pc # "waiting"
  PROVE  /\ \A b \in ExecWorkers : w \notin broker[b].backlog
         /\ broker[w].pc = "accept" /\ broker[w].caller = NoWorker /\ broker[w].x = 0
<1>1. Queueing /\ WorkerKept(w)
  BY DEF ExecInv
<1> QED BY <1>1 DEF Queueing, WorkerKept, Serves

(* Steps of a worker and of its handler up to the answer of the broker.    *)
LEMMA WorkerStartKeepsInv ==
  ASSUME ExecInv, NEW w \in ExecWorkers, StartExecWorker(w) \/ RenameImage(w) \/ Listen(w)
  PROVE  ExecInv'
<1>0. ExecTypes /\ WorkerKept(w)
  BY DEF ExecInv
<1>1. /\ workerOf[w].status # "up"
      /\ workerOf[w].task = NoTask /\ broker[w] = IdleBroker
  BY <1>0 DEF StartExecWorker, RenameImage, Listen, WorkerKept
<1>2. PICK s \in {"down", "rename", "listen", "up"} :
        workerOf' = [workerOf EXCEPT ![w] = [workerOf[w] EXCEPT !.status = s]]
  <2>1. workerOf[w] \in WorkerTypes
    BY <1>0 DEF ExecTypes
  <2>2. CASE StartExecWorker(w)
    <3>1. workerOf[w] = DownWorker
      BY <1>1, <2>1, <2>2 DEF StartExecWorker, DownWorker, WorkerTypes
    <3> QED BY <2>2, <3>1 DEF StartExecWorker
  <2>3. CASE RenameImage(w) \/ Listen(w)
    BY <2>3 DEF RenameImage, Listen
  <2> QED BY <2>2, <2>3
<1>3. broker' = broker
  BY <1>0, <1>1 DEF StartExecWorker, RenameImage, Listen, ExecTypes
<1>4. /\ workerOf' \in [ExecWorkers -> WorkerTypes]
      /\ \A v \in ExecWorkers : workerOf'[v].task = workerOf[v].task
      /\ \A v \in ExecWorkers : v # w => workerOf'[v] = workerOf[v]
  BY <1>0, <1>2 DEF ExecTypes, WorkerTypes
<1>5. /\ execJob' = execJob /\ execution' = execution /\ quarantine' = quarantine
      /\ socketOf' \in ExecWorkers \cup {NoWorker}
  BY <1>0 DEF StartExecWorker, RenameImage, Listen, ExecTypes
<1>6. ExecTypes'
  BY <1>0, <1>3, <1>4, <1>5 DEF ExecTypes
<1>7. Queueing'
  BY <1>3, <1>4, ShorterBacklogs
<1>8. ASSUME NEW v \in ExecWorkers PROVE QuietFor(v)
  <2>1. Stays(v)
    BY <1>1, <1>4 DEF Stays
  <2>2. SameService(v)
    BY <1>3 DEF SameService
  <2> QED BY <2>1, <2>2 DEF QuietFor
<1> QED BY <1>5, <1>6, <1>7, <1>8, OthersKeepInv DEF SameFates, SameResults

(* A job that moves without a result, or stays.                            *)
LEMMA JobMoves ==
  ASSUME ExecInv, NEW j \in ExecJobs, NEW status \in {"queued", "running", "failed", "cancelled"},
         SetJob(j, status)
  PROVE  execJob' \in [ExecJobs -> JobRows] /\ SameResults
<1> DEFINE row == [execJob[j] EXCEPT !.status = status]
<1>1. execJob \in [ExecJobs -> JobRows] /\ execJob' = [execJob EXCEPT ![j] = row]
  BY DEF ExecInv, ExecTypes, SetJob
<1>2. row \in JobRows /\ row.refs = execJob[j].refs /\ row.status # "done"
  BY <1>1 DEF JobRows
<1> HIDE DEF row
<1>3. execJob' \in [ExecJobs -> JobRows]
  BY <1>1, <1>2
<1>4. SameResults
  BY <1>1, <1>2 DEF SameResults
<1> QED BY <1>3, <1>4

LEMMA ReapMoves ==
  ASSUME ExecInv, NEW w \in ExecWorkers, ReapExecJob(w) \/ UNCHANGED execJob
  PROVE  execJob' \in [ExecJobs -> JobRows] /\ SameResults
<1>1. execJob \in [ExecJobs -> JobRows] /\ workerOf[w].task.job \in ExecJobs
  BY DEF ExecInv, ExecTypes, WorkerTypes, TaskTypes
<1>2. CASE ReapExecJob(w)
  BY <1>1, <1>2, JobMoves DEF ReapExecJob
<1>3. CASE UNCHANGED execJob
  BY <1>1, <1>3 DEF SameResults
<1> QED BY <1>2, <1>3

(* The worker dies or stops: who had asked its broker is refused.          *)
LEMMA BrokenMoves ==
  ASSUME ExecInv, NEW w \in ExecWorkers, workerOf' = [Broken(w) EXCEPT ![w] = DownWorker]
  PROVE  /\ workerOf' \in [ExecWorkers -> WorkerTypes]
         /\ workerOf'[w] = DownWorker
         /\ \A v \in ExecWorkers : v # w =>
              \/ workerOf'[v] = workerOf[v] /\ v \notin broker[w].backlog
              \/ /\ v \in broker[w].backlog /\ Early(v)
<1>0. ExecTypes /\ Queueing /\ \A v \in ExecWorkers : WorkerKept(v)
  BY DEF ExecInv
<1>1. Broken(w) \in [ExecWorkers -> WorkerTypes]
  <2> SUFFICES ASSUME NEW v \in ExecWorkers PROVE Broken(w)[v] \in WorkerTypes
    BY DEF Broken
  <2>1. workerOf[v] \in WorkerTypes
    BY <1>0 DEF ExecTypes
  <2>2. [workerOf[v] EXCEPT !.task.pc = "refused"] \in WorkerTypes
    BY <2>1 DEF WorkerTypes, TaskTypes, TaskPoints
  <2> QED BY <2>1, <2>2 DEF Broken
<1>2. workerOf' \in [ExecWorkers -> WorkerTypes] /\ workerOf'[w] = DownWorker
  BY <1>1, NothingToDo
<1>3. ASSUME NEW v \in ExecWorkers, v # w
      PROVE  \/ workerOf'[v] = workerOf[v] /\ v \notin broker[w].backlog
             \/ v \in broker[w].backlog /\ Early(v)
  <2>1. workerOf'[v] = Broken(w)[v]
    BY <1>1, <1>3
  <2>2. broker[w].caller # v
    BY <1>0, <1>3, ExecutionAssumption DEF WorkerKept, Serves
  <2>3. CASE v \notin broker[w].backlog
    BY <2>1, <2>2, <2>3 DEF Broken
  <2>4. CASE v \in broker[w].backlog
    <3>1. workerOf[v].task.pc = "waiting" /\ broker[v].pc = "accept"
      BY <1>0, <2>4 DEF Queueing
    <3>2. workerOf'[v] = [workerOf[v] EXCEPT !.task.pc = "refused"]
      BY <1>3, <2>1, <2>4, <3>1 DEF Broken
    <3>3. workerOf[v] \in WorkerTypes /\ workerOf[v].task \in TaskTypes
      BY <1>0 DEF ExecTypes, WorkerTypes
    <3>4. /\ workerOf'[v].status = workerOf[v].status /\ workerOf'[v].task.pc = "refused"
          /\ workerOf'[v].task.x = workerOf[v].task.x /\ workerOf'[v].task.checked = workerOf[v].task.checked
          /\ workerOf'[v].task.put = workerOf[v].task.put
      BY <3>2, <3>3 DEF WorkerTypes, TaskTypes
    <3>5. TaskKept(workerOf[v].task) /\ workerOf[v].status = "up"
      BY <1>0, <3>1, NothingToDo DEF WorkerKept
    <3>6. workerOf[v].task.x = 0 /\ workerOf[v].task.checked = {} /\ workerOf[v].task.put = {}
      BY <3>1, <3>5 DEF TaskKept, EarlyPoints
    <3> QED BY <2>4, <3>1, <3>4, <3>5, <3>6 DEF Early, EarlyPoints
  <2> QED BY <2>3, <2>4
<1> QED BY <1>2, <1>3

(* A worker stops or dies: callers in its backlog are refused.             *)
LEMMA WorkerEndKeepsInv ==
  ASSUME ExecInv, NEW w \in ExecWorkers, StopExecWorker(w) \/ KillExecWorker(w)
  PROVE  ExecInv'
<1>0. ExecTypes /\ Queueing /\ \A v \in ExecWorkers : WorkerKept(v)
  BY DEF ExecInv
<1>1. workerOf' = [Broken(w) EXCEPT ![w] = DownWorker]
  BY DEF StopExecWorker, KillExecWorker
<1>2. /\ workerOf' \in [ExecWorkers -> WorkerTypes]
      /\ workerOf'[w] = DownWorker
      /\ \A v \in ExecWorkers : v # w =>
           \/ workerOf'[v] = workerOf[v] /\ v \notin broker[w].backlog
           \/ v \in broker[w].backlog /\ Early(v)
  BY <1>1, BrokenMoves
<1>3. ASSUME NEW v \in ExecWorkers
      PROVE  /\ broker'[v] \in BrokerTypes
             /\ v = w => broker'[v] = IdleBroker
             /\ v # w => /\ broker'[v].pc = broker[v].pc /\ broker'[v].caller = broker[v].caller
                         /\ broker'[v].x = broker[v].x
                         /\ broker'[v].backlog = broker[v].backlog \ {w}
  <2>0. broker[v] \in BrokerTypes
    BY <1>0 DEF ExecTypes
  <2>1. CASE StopExecWorker(w)
    <3>1. \A b \in ExecWorkers : w \notin broker[b].backlog
      BY <2>1, NotWaiting DEF StopExecWorker
    <3>2. broker' = [broker EXCEPT ![w] = IdleBroker]
      BY <2>1 DEF StopExecWorker
    <3> QED BY <1>0, <2>0, <3>1, <3>2, NothingToDo DEF ExecTypes
  <2>2. CASE KillExecWorker(w)
    <3>1. broker'[v] = IF v = w THEN IdleBroker ELSE [broker[v] EXCEPT !.backlog = @ \ {w}]
      BY <2>2 DEF KillExecWorker
    <3>2. [broker[v] EXCEPT !.backlog = @ \ {w}] \in BrokerTypes
      BY <2>0 DEF BrokerTypes
    <3> QED BY <2>0, <3>1, <3>2, NothingToDo DEF BrokerTypes
  <2> QED BY <2>1, <2>2
<1>4. broker' \in [ExecWorkers -> BrokerTypes]
  <2>1. broker' = [v \in ExecWorkers |-> broker'[v]]
    <3>1. CASE StopExecWorker(w)
      BY <1>0, <3>1 DEF StopExecWorker, ExecTypes
    <3>2. CASE KillExecWorker(w)
      BY <3>2 DEF KillExecWorker
    <3> QED BY <3>1, <3>2
  <2> QED BY <1>3, <2>1
<1>5. /\ quarantine' = quarantine /\ socketOf' \in ExecWorkers \cup {NoWorker}
  BY <1>0 DEF StopExecWorker, KillExecWorker, ExecTypes
<1>6. execJob' \in [ExecJobs -> JobRows] /\ SameResults
  <2>1. CASE StopExecWorker(w)
    BY <1>0, <2>1 DEF StopExecWorker, ExecTypes, SameResults
  <2>2. CASE KillExecWorker(w)
    BY <2>2, ReapMoves DEF KillExecWorker
  <2> QED BY <2>1, <2>2
<1>7. /\ \E n \in Nat : execution' \in [1..n -> Fates]
      /\ SameFates
      /\ \A x \in Holds(w) : execution'[x].spoiled
  <2> PICK n \in Nat : execution \in [1..n -> Fates]
    BY <1>0 DEF ExecTypes
  <2>1. CASE StopExecWorker(w)
    <3>1. Holds(w) = {}
      <4>1. broker[w].x = 0
        BY <2>1, NotWaiting DEF StopExecWorker
      <4>2. workerOf[w].task.x = 0
        BY <1>0, <2>1 DEF StopExecWorker, WorkerKept, TaskKept, EarlyPoints
      <4> QED BY <4>1, <4>2 DEF Holds
    <3> QED BY <2>1, <3>1 DEF StopExecWorker, SameFates
  <2>2. CASE KillExecWorker(w)
    <3> DEFINE spoil(x) == [execution[x] EXCEPT !.spoiled = TRUE]
    <3>1. execution' = [x \in DOMAIN execution |->
            IF x \in {broker[w].x, workerOf[w].task.x} THEN spoil(x) ELSE execution[x]]
      BY <2>2 DEF KillExecWorker
    <3>2. \A x \in 1..n : /\ spoil(x) \in Fates /\ spoil(x).spoiled
                          /\ spoil(x).status = execution[x].status /\ spoil(x).denied = execution[x].denied
      BY DEF Fates
    <3> HIDE DEF spoil
    <3>3. DOMAIN execution = 1..n
      OBVIOUS
    <3>4. execution' \in [1..n -> Fates]
      BY <3>1, <3>2, <3>3
    <3>5. SameFates
      BY <3>1, <3>2, <3>3, <3>4 DEF SameFates
    <3>6. Holds(w) \subseteq DOMAIN execution
      BY <1>0 DEF Holds, WorkerKept, Serves, TaskKept
    <3>7. \A x \in Holds(w) : execution'[x].spoiled
      BY <3>1, <3>2, <3>3, <3>6 DEF Holds
    <3> QED BY <3>4, <3>5, <3>7
  <2> QED BY <2>1, <2>2
<1>8. ExecTypes'
  <2>1. quarantine' \subseteq DOMAIN execution'
    BY <1>0, <1>5, <1>7 DEF ExecTypes, SameFates
  <2> QED BY <1>2, <1>4, <1>5, <1>6, <1>7, <2>1 DEF ExecTypes
<1>9. Queueing'
  <2>1. \A b \in ExecWorkers : broker'[b].backlog \subseteq broker[b].backlog
    BY <1>3, NothingToDo
  <2>2. ASSUME NEW b \in ExecWorkers, NEW v \in ExecWorkers, v \in broker'[b].backlog
        PROVE  workerOf'[v].task.pc = workerOf[v].task.pc /\ broker'[v].pc = broker[v].pc
    <3>1. b # w /\ v # w /\ v \in broker[b].backlog
      BY <1>3, <2>2, NothingToDo
    <3>2. v \notin broker[w].backlog
      BY <1>0, <3>1 DEF Queueing
    <3> QED BY <1>2, <1>3, <3>1, <3>2
  <2> QED BY <2>1, <2>2, ShorterBacklogs
<1>10. ASSUME NEW v \in ExecWorkers PROVE QuietFor(v)
  <2>1. CASE v = w
    BY <2>1, <1>2, <1>3, <1>7, NothingToDo DEF QuietFor, Ends
  <2>2. CASE v # w
    <3>1. Stays(v) \/ Early(v)
      <4>1. workerOf'[v] = workerOf[v] \/ Early(v)
        BY <2>2, <1>2
      <4> QED BY <4>1 DEF Stays
    <3>2. SameService(v)
      <4>1. workerOf'[v].status # "up" => broker[v] = IdleBroker
        BY <1>0, <2>2, <1>2 DEF WorkerKept, Early
      <4>2. workerOf'[v].status # "up" => broker'[v] = broker[v]
        <5> SUFFICES ASSUME workerOf'[v].status # "up" PROVE broker'[v] = broker[v]
          OBVIOUS
        <5>1. broker'[v].backlog = broker[v].backlog
          BY <1>3, <2>2, <4>1, NothingToDo
        <5>2. broker[v] \in BrokerTypes
          BY <1>0 DEF ExecTypes
        <5> QED BY <1>3, <2>2, <5>1, <5>2 DEF BrokerTypes
      <4> QED BY <2>2, <1>3, <4>2 DEF SameService
    <3> QED BY <3>1, <3>2 DEF QuietFor
  <2> QED BY <2>1, <2>2
<1> QED BY <1>5, <1>6, <1>7, <1>8, <1>9, <1>10, OthersKeepInv

(* The lease is lost.                                                      *)
LEMMA LoseLeaseKeepsInv ==
  ASSUME ExecInv, NEW w \in ExecWorkers, LoseLease(w)
  PROVE  ExecInv'
<1> DEFINE t == [workerOf[w].task EXCEPT !.current = FALSE]
<1>0. ExecTypes /\ \A v \in ExecWorkers : WorkerKept(v)
  BY DEF ExecInv
<1>1. workerOf[w].task \in TaskTypes /\ workerOf[w] \in WorkerTypes
  BY <1>0 DEF ExecTypes, WorkerTypes
<1>2. /\ t \in TaskTypes /\ t.pc = workerOf[w].task.pc /\ t.x = workerOf[w].task.x /\ t.job = workerOf[w].task.job
      /\ t.checked = workerOf[w].task.checked /\ t.put = workerOf[w].task.put
  BY <1>1 DEF TaskTypes
<1>3. workerOf' = [workerOf EXCEPT ![w].task = t]
  BY <1>0, <1>1 DEF LoseLease, ExecTypes, WorkerTypes, TaskTypes
<1>4. workerOf[w].status = "up"
  BY <1>0, NothingToDo DEF LoseLease, HoldsLease, WorkerKept
<1> HIDE DEF t
<1>5. /\ workerOf' \in [ExecWorkers -> WorkerTypes]
      /\ \A v \in ExecWorkers : v # w => workerOf'[v] = workerOf[v]
      /\ workerOf'[w].status = workerOf[w].status /\ workerOf'[w].task = t
  BY <1>0, <1>2, <1>3, TaskMoves
<1>6. execJob' \in [ExecJobs -> JobRows] /\ SameResults
  BY ReapMoves DEF LoseLease
<1>7. UNCHANGED <<broker, socketOf, quarantine, execution>>
  BY DEF LoseLease
<1>8. ExecTypes'
  BY <1>0, <1>5, <1>6, <1>7 DEF ExecTypes
<1>9. Queueing'
  BY <1>2, <1>5, <1>7, ShorterBacklogs
<1>10. ASSUME NEW v \in ExecWorkers PROVE QuietFor(v)
  <2>1. Stays(v)
    BY <1>2, <1>4, <1>5 DEF Stays
  <2> QED BY <1>7, <2>1 DEF QuietFor, SameService
<1> QED BY <1>6, <1>7, <1>8, <1>9, <1>10, OthersKeepInv DEF SameFates

(* A job is cancelled, by its owner or as it is handed out.                *)
LEMMA CancelKeepsInv ==
  ASSUME ExecInv, NEW j \in ExecJobs, SetJob(j, "cancelled"),
         UNCHANGED <<workerOf, broker, socketOf, quarantine, execution>>
  PROVE  ExecInv'
<1>1. execJob' \in [ExecJobs -> JobRows] /\ SameResults
  BY JobMoves
<1>2. ExecTypes' /\ Queueing'
  BY <1>1 DEF ExecInv, ExecTypes, Queueing
<1>3. \A v \in ExecWorkers : WorkerKept(v)
  BY DEF ExecInv
<1>4. ASSUME NEW v \in ExecWorkers PROVE QuietFor(v)
  <2>1. SameService(v)
    BY <1>3 DEF SameService, WorkerKept
  <2> QED BY <2>1 DEF QuietFor, Stays
<1> QED BY <1>1, <1>2, <1>4, OthersKeepInv DEF SameFates

(* The handler takes a job, ...                                            *)
LEMMA TakeJobKeepsInv ==
  ASSUME ExecInv, NEW w \in ExecWorkers, TakeJob(w)
  PROVE  ExecInv'
<1>0. ExecTypes /\ \A v \in ExecWorkers : WorkerKept(v)
  BY DEF ExecInv
<1>a. CASE \E j \in ExecJobs : SetJob(j, "cancelled") /\ UNCHANGED workerOf
  BY <1>a, CancelKeepsInv DEF TakeJob
<1> SUFFICES ASSUME NEW j \in ExecJobs, SetJob(j, "running"),
                    workerOf' = [workerOf EXCEPT ![w].task =
                      [NoTask EXCEPT !.pc = "connect", !.job = j, !.current = TRUE]]
             PROVE  ExecInv'
  BY <1>a DEF TakeJob
<1> DEFINE t == [NoTask EXCEPT !.pc = "connect", !.job = j, !.current = TRUE]
<1>2. t \in TaskTypes /\ t.pc = "connect" /\ t.x = 0 /\ t.checked = {} /\ t.put = {}
  BY NothingToDo DEF TaskTypes, TaskPoints
<1> HIDE DEF t
<1>3. /\ workerOf' \in [ExecWorkers -> WorkerTypes]
      /\ \A v \in ExecWorkers : v # w => workerOf'[v] = workerOf[v]
      /\ workerOf'[w].status = workerOf[w].status /\ workerOf'[w].task = t
  BY <1>0, <1>2, TaskMoves DEF t
<1>4. workerOf[w].status = "up" /\ workerOf[w].task.pc = "idle"
  BY DEF TakeJob, Up
<1>5. execJob' \in [ExecJobs -> JobRows] /\ SameResults
  BY JobMoves
<1>6. UNCHANGED <<broker, socketOf, quarantine, execution>>
  BY DEF TakeJob
<1>7. ExecTypes'
  BY <1>0, <1>3, <1>5, <1>6 DEF ExecTypes
<1>8. (\A b \in ExecWorkers : w \notin broker[b].backlog) /\ broker[w].pc = "accept"
  BY <1>4, NotWaiting
<1>9. Queueing'
  BY <1>3, <1>6, <1>8, ShorterBacklogs
<1>10. ASSUME NEW v \in ExecWorkers PROVE QuietFor(v)
  <2>1. CASE v = w
    <3>1. Early(v)
      BY <2>1, <1>2, <1>3, <1>4, <1>8 DEF Early, EarlyPoints
    <3> QED BY <1>6, <3>1 DEF QuietFor, SameService
  <2>2. CASE v # w
    BY <2>2, <1>3, <1>6 DEF QuietFor, SameService, Stays
  <2> QED BY <2>1, <2>2
<1> QED BY <1>5, <1>6, <1>7, <1>9, <1>10, OthersKeepInv DEF SameFates

(* ... and asks for its execution, or cannot.                              *)
LEMMA AskingKeepsInv ==
  ASSUME ExecInv, NEW w \in ExecWorkers, PayloadInvalid(w) \/ ConnectBroker(w)
  PROVE  ExecInv'
<1>0. ExecTypes /\ Queueing /\ \A v \in ExecWorkers : WorkerKept(v)
  BY DEF ExecInv
<1>1. /\ workerOf[w].task.pc = "connect"
      /\ UNCHANGED <<socketOf, quarantine, execution, execJob>>
  BY DEF PayloadInvalid, ConnectBroker
<1>2. /\ workerOf[w].task.x = 0 /\ workerOf[w].task.checked = {} /\ workerOf[w].task.put = {}
      /\ workerOf[w].status = "up"
  BY <1>0, <1>1, NothingToDo DEF WorkerKept, TaskKept, EarlyPoints
<1>3. (\A b \in ExecWorkers : w \notin broker[b].backlog) /\ broker[w].pc = "accept"
  BY <1>1, NotWaiting
<1>4. PICK at \in {"refused", "waiting"} :
        /\ TaskTo(w, at)
        /\ \/ broker' = broker
           \/ /\ at = "waiting" /\ socketOf \in ExecWorkers
              /\ Up(socketOf) /\ broker' = [broker EXCEPT ![socketOf].backlog = @ \cup {w}]
  BY <1>0 DEF PayloadInvalid, ConnectBroker, ExecTypes
<1>5. /\ workerOf' \in [ExecWorkers -> WorkerTypes]
      /\ \A v \in ExecWorkers : v # w => workerOf'[v] = workerOf[v]
      /\ workerOf'[w].status = workerOf[w].status /\ workerOf'[w].task.pc = at
      /\ workerOf'[w].task.x = 0 /\ workerOf'[w].task.checked = {} /\ workerOf'[w].task.put = {}
  <2>1. at \in TaskPoints
    BY DEF TaskPoints
  <2>2. /\ workerOf' \in [ExecWorkers -> WorkerTypes]
        /\ \A v \in ExecWorkers : v # w => workerOf'[v] = workerOf[v]
        /\ workerOf'[w].status = workerOf[w].status /\ workerOf'[w].task.pc = at
        /\ workerOf'[w].task.x = workerOf[w].task.x /\ workerOf'[w].task.checked = workerOf[w].task.checked
        /\ workerOf'[w].task.put = workerOf[w].task.put
    BY <1>0, <1>4, <2>1, TaskToMoves
  <2> QED BY <1>2, <2>2
<1>6. /\ broker' \in [ExecWorkers -> BrokerTypes]
      /\ \A b \in ExecWorkers :
           /\ broker'[b].pc = broker[b].pc /\ broker'[b].caller = broker[b].caller /\ broker'[b].x = broker[b].x
           /\ \/ broker'[b].backlog = broker[b].backlog
              \/ at = "waiting" /\ broker'[b].backlog = broker[b].backlog \cup {w} /\ b = socketOf
           /\ workerOf[b].status # "up" => broker'[b] = broker[b]
  <2>1. CASE broker' = broker
    <3>1. broker' \in [ExecWorkers -> BrokerTypes]
      BY <1>0, <2>1 DEF ExecTypes
    <3> QED BY <2>1, <3>1
  <2>2. CASE /\ at = "waiting" /\ socketOf \in ExecWorkers
             /\ Up(socketOf) /\ broker' = [broker EXCEPT ![socketOf].backlog = @ \cup {w}]
    <3> DEFINE q == socketOf
               r == [broker[q] EXCEPT !.backlog = @ \cup {w}]
    <3>1. broker[q] \in BrokerTypes /\ broker \in [ExecWorkers -> BrokerTypes]
      BY <1>0, <2>2 DEF ExecTypes
    <3>2. /\ r \in BrokerTypes /\ r.pc = broker[q].pc /\ r.caller = broker[q].caller
          /\ r.x = broker[q].x /\ r.backlog = broker[q].backlog \cup {w}
      BY <3>1 DEF BrokerTypes
    <3>3. broker' = [broker EXCEPT ![q] = r] /\ q \in ExecWorkers /\ workerOf[q].status = "up"
      BY <2>2 DEF Up
    <3> HIDE DEF r
    <3>4. broker' \in [ExecWorkers -> BrokerTypes]
      BY <3>1, <3>2, <3>3
    <3>5. ASSUME NEW b \in ExecWorkers PROVE broker'[b] = IF b = q THEN r ELSE broker[b]
      BY <3>1, <3>3
    <3> QED BY <2>2, <3>2, <3>3, <3>4, <3>5
  <2> QED BY <1>4, <2>1, <2>2
<1>7. ExecTypes'
  BY <1>0, <1>1, <1>5, <1>6 DEF ExecTypes
<1>8. Queueing'
  <2> SUFFICES ASSUME NEW b \in ExecWorkers, NEW v \in ExecWorkers, v \in broker'[b].backlog
               PROVE  /\ workerOf'[v].task.pc = "waiting" /\ broker'[v].pc = "accept"
                      /\ \A c \in ExecWorkers : v \in broker'[c].backlog => c = b
    BY DEF Queueing
  <2>1. CASE v = w
    BY <2>1, <1>3, <1>5, <1>6
  <2>2. CASE v # w
    <3>1. \A c \in ExecWorkers : v \in broker'[c].backlog <=> v \in broker[c].backlog
      BY <2>2, <1>6
    <3> QED BY <1>0, <2>2, <1>5, <1>6, <3>1 DEF Queueing
  <2> QED BY <2>1, <2>2
<1>9. ASSUME NEW v \in ExecWorkers PROVE QuietFor(v)
  <2>1. Stays(v) \/ Early(v)
    <3>1. CASE v = w
      BY <3>1, <1>1, <1>2, <1>3, <1>5 DEF Early, EarlyPoints
    <3>2. CASE v # w
      BY <3>2, <1>5 DEF Stays
    <3> QED BY <3>1, <3>2
  <2>2. SameService(v)
    BY <1>5, <1>6 DEF SameService
  <2> QED BY <2>1, <2>2 DEF QuietFor
<1> QED BY <1>1, <1>7, <1>8, <1>9, OthersKeepInv DEF SameFates, SameResults

(* A broker refuses a request.                                             *)
LEMMA RefusalKeepsInv ==
  ASSUME ExecInv, NEW b \in ExecWorkers, NEW w \in broker[b].backlog, broker[b].pc = "accept",
         broker' = [broker EXCEPT ![b].backlog = @ \ {w}], TaskTo(w, "refused"),
         UNCHANGED <<socketOf, quarantine, execution, execJob>>
  PROVE  ExecInv'
<1>0. ExecTypes /\ Queueing /\ \A v \in ExecWorkers : WorkerKept(v)
  BY DEF ExecInv
<1>1. broker[b] \in BrokerTypes /\ w \in ExecWorkers
  BY <1>0 DEF ExecTypes, BrokerTypes
<1>2. workerOf[w].task.pc = "waiting" /\ broker[w].pc = "accept" /\ \A c \in ExecWorkers : w \in broker[c].backlog => c = b
  BY <1>0, <1>1 DEF Queueing
<1>3. /\ workerOf[w].task.x = 0 /\ workerOf[w].task.checked = {} /\ workerOf[w].task.put = {}
      /\ workerOf[w].status = "up"
  BY <1>0, <1>1, <1>2, NothingToDo DEF WorkerKept, TaskKept, EarlyPoints
<1>4. workerOf[b].status = "up"
  BY <1>0, NothingToDo DEF WorkerKept
<1>5. /\ workerOf' \in [ExecWorkers -> WorkerTypes]
      /\ \A v \in ExecWorkers : v # w => workerOf'[v] = workerOf[v]
      /\ workerOf'[w].status = "up" /\ workerOf'[w].task.pc = "refused"
      /\ workerOf'[w].task.x = 0 /\ workerOf'[w].task.checked = {} /\ workerOf'[w].task.put = {}
  <2>1. "refused" \in TaskPoints
    BY DEF TaskPoints
  <2>2. /\ workerOf' \in [ExecWorkers -> WorkerTypes]
        /\ \A v \in ExecWorkers : v # w => workerOf'[v] = workerOf[v]
        /\ workerOf'[w].status = workerOf[w].status /\ workerOf'[w].task.pc = "refused"
        /\ workerOf'[w].task.x = workerOf[w].task.x /\ workerOf'[w].task.checked = workerOf[w].task.checked
        /\ workerOf'[w].task.put = workerOf[w].task.put
    BY <1>0, <1>1, <2>1, TaskToMoves
  <2> QED BY <1>3, <2>2
<1>6. /\ broker' \in [ExecWorkers -> BrokerTypes]
      /\ \A c \in ExecWorkers :
           /\ broker'[c].pc = broker[c].pc /\ broker'[c].caller = broker[c].caller /\ broker'[c].x = broker[c].x
           /\ broker'[c].backlog = IF c = b THEN broker[c].backlog \ {w} ELSE broker[c].backlog
           /\ c # b => broker'[c] = broker[c]
  <2> DEFINE r == [broker[b] EXCEPT !.backlog = @ \ {w}]
  <2>1. /\ r \in BrokerTypes /\ r.pc = broker[b].pc /\ r.caller = broker[b].caller
        /\ r.x = broker[b].x /\ r.backlog = broker[b].backlog \ {w}
    BY <1>1 DEF BrokerTypes
  <2>2. broker' = [broker EXCEPT ![b] = r]
    OBVIOUS
  <2> HIDE DEF r
  <2> QED BY <1>0, <2>1, <2>2 DEF ExecTypes
<1>7. ExecTypes'
  BY <1>0, <1>5, <1>6 DEF ExecTypes
<1>8. Queueing'
  <2>1. \A c \in ExecWorkers : broker'[c].backlog \subseteq broker[c].backlog /\ w \notin broker'[c].backlog
    BY <1>2, <1>6
  <2> QED BY <2>1, <1>5, <1>6, ShorterBacklogs
<1>9. ASSUME NEW v \in ExecWorkers PROVE QuietFor(v)
  <2>1. Stays(v) \/ Early(v)
    <3>1. CASE v = w
      BY <3>1, <1>2, <1>5 DEF Early, EarlyPoints
    <3>2. CASE v # w
      BY <3>2, <1>5 DEF Stays
    <3> QED BY <3>1, <3>2
  <2>2. SameService(v)
    BY <1>4, <1>5, <1>6 DEF SameService
  <2> QED BY <2>1, <2>2 DEF QuietFor
<1> QED BY <1>7, <1>8, <1>9, OthersKeepInv DEF SameFates, SameResults

-----------------------------------------------------------------------------
(* A step that concerns the execution one process holds, or gets.          *)
Alone(w) ==
  /\ \A v \in ExecWorkers : v # w => workerOf'[v] = workerOf[v] /\ broker'[v] = broker[v]
  /\ \A b \in ExecWorkers : b # w => w \notin broker[b].backlog
  /\ broker'[w].backlog = broker[w].backlog \ {w}
  /\ Holds(w)' \subseteq Holds(w) \cup (DOMAIN execution' \ DOMAIN execution)

(* Executions of other processes, and their files, stay as they are.       *)
OwnFate(w) ==
  /\ DOMAIN execution \subseteq DOMAIN execution'
  /\ \A x \in DOMAIN execution : x \notin Holds(w) => execution'[x] = execution[x]
  /\ \A x \in DOMAIN execution' : x \notin Holds(w) => (x \in quarantine' <=> x \in quarantine)
  /\ \A x \in Holds(w) : x \in quarantine' => x \in Holds(w)' \/ execution'[x].spoiled

(* References are added to what the process holds, as it puts outputs.     *)
OwnRefs(w) ==
  \A j \in ExecJobs :
    /\ execJob[j].refs \subseteq execJob'[j].refs
    /\ \A r \in execJob'[j].refs :
         /\ r \notin execJob[j].refs => r[1] \in Holds(w)
         /\ r[1] \in Holds(w) =>
              /\ execution'[r[1]].status = "succeeded" /\ ~execution'[r[1]].denied
              /\ broker'[w].x # r[1]
              /\ workerOf'[w].task.x = r[1] => r[2] \in workerOf'[w].task.put

(* So the invariant needs to be shown for that process alone.              *)
LEMMA OwnStepKeepsInv ==
  ASSUME ExecInv, ExecTypes', NEW w \in ExecWorkers, Alone(w), OwnFate(w), OwnRefs(w),
         ResultIsStored', WorkerKept(w)'
  PROVE  ExecInv'
<1>0. /\ ExecTypes /\ \A v \in ExecWorkers : WorkerKept(v)
      /\ Queueing /\ OneHolds /\ RefsKept /\ ResultIsStored /\ QuarantineDrains
  BY DEF ExecInv
<1>1. 0 \notin DOMAIN execution' /\ 0 \notin DOMAIN execution
  BY <1>0 DEF ExecTypes
<1>2. quarantine' \subseteq DOMAIN execution' /\ quarantine \subseteq DOMAIN execution
  BY <1>0 DEF ExecTypes
<1>3. ASSUME NEW v \in ExecWorkers
      PROVE  Holds(v) \subseteq DOMAIN execution
  <2>1. Serves(broker[v], workerOf[v].task) /\ TaskKept(workerOf[v].task)
    BY <1>0 DEF WorkerKept
  <2>2. broker[v].x \in DOMAIN execution \cup {0}
    BY <2>1 DEF Serves
  <2>3. workerOf[v].task.x \in DOMAIN execution \cup {0}
    BY <2>1 DEF TaskKept
  <2> QED BY <2>2, <2>3 DEF Holds
<1>4. ASSUME NEW v \in ExecWorkers, v # w
      PROVE  /\ Holds(v)' = Holds(v) /\ Holds(v) \cap Holds(w) = {}
             /\ workerOf'[v] = workerOf[v] /\ broker'[v] = broker[v]
  BY <1>0, <1>4 DEF Holds, OneHolds, Alone
<1>5. ASSUME NEW v \in ExecWorkers, v # w
      PROVE  WorkerKept(v)'
  <2> DEFINE t == workerOf[v].task
             b == broker[v]
  <2>1. workerOf'[v] = workerOf[v] /\ broker'[v] = broker[v]
    BY <1>4, <1>5
  <2>2. Serves(b, t) /\ TaskKept(t)
    BY <1>0 DEF WorkerKept
  <2>3. /\ b.x # 0 => b.x \in DOMAIN execution /\ b.x \notin Holds(w)
        /\ t.x # 0 => t.x \in DOMAIN execution /\ t.x \notin Holds(w)
    BY <1>3, <1>4, <1>5 DEF Holds
  <2>4. ASSUME NEW x \in DOMAIN execution, x \notin Holds(w)
        PROVE  /\ x \in DOMAIN execution' /\ execution'[x] = execution[x]
               /\ x \in quarantine' <=> x \in quarantine
    BY <2>4 DEF OwnFate
  <2>5. t.job \in ExecJobs
    BY <1>0 DEF ExecTypes, WorkerTypes, TaskTypes
  <2>6. Serves(broker[v], workerOf[v].task)'
    <3>1. CASE b.pc = "accept"
      BY <2>1, <2>2, <3>1 DEF Serves
    <3>2. CASE b.pc # "accept"
      <4>1. b.x \in DOMAIN execution /\ b.x # 0
        BY <2>2, <3>2, <1>1 DEF Serves
      <4> QED BY <2>1, <2>2, <2>3, <2>4, <3>2, <4>1 DEF Serves
    <3> QED BY <3>1, <3>2
  <2>7. TaskKept(workerOf[v].task)'
    <3>1. t.x \in DOMAIN execution' \cup {0}
      BY <2>3, <2>4
    <3>2. t.pc = "authorize" => execution'[t.x].status = "succeeded" /\ ~execution'[t.x].denied
      BY <2>2, <2>3, <2>4 DEF TaskKept
    <3>3. t.pc \in {"complete", "refused"} => t.x \notin quarantine'
      BY <2>2, <2>3, <2>4, <1>1, <1>2 DEF TaskKept
    <3>4. \A o \in t.put : <<t.x, o>> \in execJob'[t.job].refs
      BY <2>2, <2>5 DEF TaskKept, OwnRefs
    <3>5. workerOf'[v].task = t
      BY <2>1
    <3> HIDE DEF t
    <3> QED BY <2>2, <3>1, <3>2, <3>3, <3>4, <3>5 DEF TaskKept
  <2> QED BY <1>0, <2>1, <2>6, <2>7 DEF WorkerKept
<1>6. Queueing'
  <2> SUFFICES ASSUME NEW b \in ExecWorkers, NEW v \in ExecWorkers, v \in broker'[b].backlog
               PROVE  /\ workerOf'[v].task.pc = "waiting" /\ broker'[v].pc = "accept"
                      /\ \A c \in ExecWorkers : v \in broker'[c].backlog => c = b
    BY DEF Queueing
  <2>1. v # w /\ v \in broker[b].backlog
    BY DEF Alone
  <2>2. \A c \in ExecWorkers : v \in broker'[c].backlog => v \in broker[c].backlog
    BY DEF Alone
  <2> QED BY <1>0, <1>4, <2>1, <2>2 DEF Queueing
<1>7. OneHolds'
  <2>1. ASSUME NEW v \in ExecWorkers, v # w PROVE Holds(v)' \cap Holds(w)' = {}
    <3>1. Holds(v)' = Holds(v) /\ Holds(v) \cap Holds(w) = {} /\ Holds(v) \subseteq DOMAIN execution
      BY <1>3, <1>4, <2>1
    <3> QED BY <3>1 DEF Alone
  <2>2. \A u, v \in ExecWorkers : u # w /\ v # w /\ u # v => Holds(u)' \cap Holds(v)' = {}
    <3>1. \A u \in ExecWorkers : u # w => Holds(u)' = Holds(u)
      BY <1>4
    <3> QED BY <1>0, <3>1 DEF OneHolds
  <2>3. OneHolds' = \A u, v \in ExecWorkers : u # v => Holds(u)' \cap Holds(v)' = {}
    BY DEF OneHolds
  <2> HIDE DEF OneHolds
  <2> QED BY <2>1, <2>2, <2>3
<1>8. RefsKept'
  <2> SUFFICES ASSUME NEW j \in ExecJobs, NEW r \in execJob'[j].refs
               PROVE  /\ r[1] \in DOMAIN execution' /\ execution'[r[1]].status = "succeeded"
                      /\ ~execution'[r[1]].denied
                      /\ \A v \in ExecWorkers : /\ broker'[v].x # r[1]
                                                /\ workerOf'[v].task.x = r[1] => r[2] \in workerOf'[v].task.put
    BY DEF RefsKept
  <2>1. CASE r[1] \in Holds(w)
    <3>1. r[1] \in DOMAIN execution' /\ r[1] # 0
      BY <1>3, <2>1, <1>1 DEF OwnFate
    <3>2. \A v \in ExecWorkers : v # w => broker'[v].x # r[1] /\ workerOf'[v].task.x # r[1]
      <4> SUFFICES ASSUME NEW v \in ExecWorkers, v # w PROVE broker'[v].x # r[1] /\ workerOf'[v].task.x # r[1]
        OBVIOUS
      <4>1. r[1] \notin Holds(v) /\ workerOf'[v] = workerOf[v] /\ broker'[v] = broker[v]
        BY <1>4, <2>1
      <4> QED BY <3>1, <4>1 DEF Holds
    <3>3. /\ execution'[r[1]].status = "succeeded" /\ ~execution'[r[1]].denied
          /\ broker'[w].x # r[1]
          /\ workerOf'[w].task.x = r[1] => r[2] \in workerOf'[w].task.put
      BY <2>1 DEF OwnRefs
    <3> QED BY <3>1, <3>2, <3>3
  <2>2. CASE r[1] \notin Holds(w)
    <3>1. r \in execJob[j].refs
      BY <2>2 DEF OwnRefs
    <3>2. /\ r[1] \in DOMAIN execution /\ execution[r[1]].status = "succeeded" /\ ~execution[r[1]].denied
          /\ \A v \in ExecWorkers : /\ broker[v].x # r[1]
                                    /\ workerOf[v].task.x = r[1] => r[2] \in workerOf[v].task.put
      BY <1>0, <3>1 DEF RefsKept
    <3>3. r[1] \notin Holds(w)' /\ r[1] # 0
      BY <1>1, <2>2, <3>2 DEF Alone
    <3>4. broker'[w].x # r[1] /\ workerOf'[w].task.x # r[1]
      BY <3>3 DEF Holds
    <3>5. execution'[r[1]] = execution[r[1]] /\ r[1] \in DOMAIN execution'
      BY <2>2, <3>2 DEF OwnFate
    <3> QED BY <1>4, <3>2, <3>4, <3>5
  <2> QED BY <2>1, <2>2
<1>9. QuarantineDrains'
  <2> SUFFICES ASSUME NEW x \in quarantine' PROVE x \in InProgress' \/ execution'[x].spoiled
    BY DEF QuarantineDrains
  <2>1. ASSUME NEW v \in ExecWorkers, x \in Holds(v)' PROVE x \in InProgress'
    BY <2>1 DEF Holds, InProgress
  <2>2. CASE x \in Holds(w)
    BY <2>1, <2>2 DEF OwnFate
  <2>3. CASE x \notin Holds(w)
    <3>1. x \in quarantine /\ x \in DOMAIN execution /\ execution'[x] = execution[x] /\ x # 0
      BY <1>1, <1>2, <2>3 DEF OwnFate
    <3>2. CASE execution[x].spoiled
      BY <3>1, <3>2
    <3>3. CASE ~execution[x].spoiled
      <4>1. x \in InProgress
        BY <1>0, <3>1, <3>3 DEF QuarantineDrains
      <4>2. PICK v \in ExecWorkers : x = broker[v].x \/ x = workerOf[v].task.x
        BY <4>1 DEF InProgress
      <4>3. x \in Holds(v)
        BY <3>1, <4>2 DEF Holds
      <4> QED BY <1>4, <2>1, <2>3, <4>3
    <3> QED BY <3>2, <3>3
  <2> QED BY <2>2, <2>3
<1> QED BY <1>5, <1>6, <1>7, <1>8, <1>9 DEF ExecInv

(* A broker at work, and the handler that waits for it.                    *)
LEMMA AtWork ==
  ASSUME ExecInv, NEW b \in ExecWorkers, broker[b].pc # "accept"
  PROVE  /\ broker[b].x \in DOMAIN execution /\ broker[b].x # 0 /\ broker[b].caller = b
         /\ workerOf[b].task.pc = "waiting" /\ workerOf[b].status = "up" /\ workerOf[b].task.x = 0
         /\ workerOf[b].task.checked = {} /\ workerOf[b].task.put = {}
         /\ Holds(b) = {broker[b].x}
         /\ ~execution[broker[b].x].denied
         /\ broker[b].pc = "collect" => execution[broker[b].x].status = "succeeded"
         /\ broker[b].x \in quarantine =>
              broker[b].pc = "respond" /\ (execution[broker[b].x].status = "succeeded"
                                             \/ execution[broker[b].x].spoiled)
         /\ \A j \in ExecJobs : \A r \in execJob[j].refs : r[1] # broker[b].x
         /\ \A c \in ExecWorkers : b \notin broker[c].backlog
<1>0. ExecTypes /\ WorkerKept(b) /\ Queueing /\ RefsKept
  BY DEF ExecInv
<1>1. 0 \notin DOMAIN execution
  BY <1>0 DEF ExecTypes
<1>2. Serves(broker[b], workerOf[b].task) /\ TaskKept(workerOf[b].task) /\ broker[b].caller = b
  BY <1>0 DEF WorkerKept
<1>3. /\ broker[b].x \in DOMAIN execution /\ broker[b].x # 0 /\ workerOf[b].task.pc = "waiting"
      /\ ~execution[broker[b].x].denied
      /\ broker[b].pc = "collect" => execution[broker[b].x].status = "succeeded"
      /\ broker[b].x \in quarantine =>
           broker[b].pc = "respond" /\ (execution[broker[b].x].status = "succeeded"
                                             \/ execution[broker[b].x].spoiled)
  BY <1>1, <1>2 DEF Serves
<1>4. /\ workerOf[b].task.x = 0 /\ workerOf[b].task.checked = {} /\ workerOf[b].task.put = {}
  BY <1>2, <1>3 DEF TaskKept, EarlyPoints
<1>5. workerOf[b].status = "up"
  BY <1>0, NothingToDo DEF WorkerKept
<1>6. Holds(b) = {broker[b].x}
  BY <1>3, <1>4 DEF Holds
<1>7. \A j \in ExecJobs : \A r \in execJob[j].refs : r[1] # broker[b].x
  BY <1>0 DEF RefsKept
<1>8. \A c \in ExecWorkers : b \notin broker[c].backlog
  BY <1>0 DEF Queueing
<1> QED BY <1>2, <1>3, <1>4, <1>5, <1>6, <1>7, <1>8

(* The fate of one execution.                                              *)
LEMMA FateMoves ==
  ASSUME ExecTypes, NEW x \in DOMAIN execution, NEW fate \in Fates, execution' = [execution EXCEPT ![x] = fate]
  PROVE  /\ \E n \in Nat : execution' \in [1..n -> Fates]
         /\ DOMAIN execution' = DOMAIN execution
         /\ execution'[x] = fate
         /\ \A y \in DOMAIN execution : y # x => execution'[y] = execution[y]
<1> PICK n \in Nat : execution \in [1..n -> Fates]
  BY DEF ExecTypes
<1>1. execution' \in [1..n -> Fates]
  OBVIOUS
<1> QED BY <1>1

(* The sandbox runs and its outputs are collected.                         *)
LEMMA SandboxKeepsInv ==
  ASSUME ExecInv, NEW b \in ExecWorkers, broker[b].pc # "accept",
         NEW at \in {"collect", "respond"}, BrokerTo(b, at),
         NEW fate \in Fates, execution' = [execution EXCEPT ![broker[b].x] = fate],
         ~fate.denied, at = "collect" => fate.status = "succeeded",
         quarantine' \in {quarantine, quarantine \cup {broker[b].x}},
         broker[b].x \in quarantine' => at = "respond" /\ (fate.status = "succeeded" \/ fate.spoiled),
         UNCHANGED <<workerOf, socketOf, execJob>>
  PROVE  ExecInv'
<1> DEFINE x == broker[b].x
<1>0. ExecTypes /\ (\A v \in ExecWorkers : WorkerKept(v)) /\ RefsKept /\ ResultIsStored
  BY DEF ExecInv
<1>1. /\ x \in DOMAIN execution /\ x # 0 /\ broker[b].caller = b
      /\ workerOf[b].task.pc = "waiting" /\ workerOf[b].status = "up" /\ workerOf[b].task.x = 0
      /\ Holds(b) = {x}
      /\ \A j \in ExecJobs : \A r \in execJob[j].refs : r[1] # x
      /\ \A c \in ExecWorkers : b \notin broker[c].backlog
  BY AtWork
<1>2. /\ \E n \in Nat : execution' \in [1..n -> Fates]
      /\ DOMAIN execution' = DOMAIN execution
      /\ execution'[x] = fate
      /\ \A y \in DOMAIN execution : y # x => execution'[y] = execution[y]
  BY <1>0, <1>1, FateMoves
<1>3. /\ broker' \in [ExecWorkers -> BrokerTypes]
      /\ \A v \in ExecWorkers : v # b => broker'[v] = broker[v]
      /\ broker'[b].pc = at /\ broker'[b].caller = broker[b].caller
      /\ broker'[b].x = x /\ broker'[b].backlog = broker[b].backlog
  <2>1. at \in {"accept", "sandbox", "collect", "respond"}
    OBVIOUS
  <2> QED BY <1>0, <2>1, BrokerToMoves
<1>4. ExecTypes'
  <2>1. quarantine' \subseteq DOMAIN execution'
    BY <1>0, <1>1, <1>2 DEF ExecTypes
  <2> QED BY <1>0, <1>2, <1>3, <2>1 DEF ExecTypes
<1>5. Alone(b)
  BY <1>1, <1>3 DEF Alone, Holds
<1>6. OwnFate(b)
  <2>1. x \in Holds(b)'
    BY <1>1, <1>3 DEF Holds
  <2> HIDE DEF x
  <2> QED BY <1>1, <1>2, <2>1 DEF OwnFate, x
<1>7. OwnRefs(b)
  BY <1>1 DEF OwnRefs
<1>8. ResultIsStored'
  BY <1>0 DEF ResultIsStored
<1>9. WorkerKept(b)'
  <2>1. Serves(broker[b], workerOf[b].task)'
    BY <1>1, <1>2, <1>3 DEF Serves
  <2>2. TaskKept(workerOf[b].task)'
    <3>1. TaskKept(workerOf[b].task)
      BY <1>0 DEF WorkerKept
    <3> QED BY <1>1, <1>2, <3>1 DEF TaskKept
  <2> QED BY <1>1, <1>3, <2>1, <2>2 DEF WorkerKept
<1> QED BY <1>4, <1>5, <1>6, <1>7, <1>8, <1>9, OwnStepKeepsInv

(* It is refused, or its sandbox ends, or its outputs are collected.       *)
LEMMA BrokerWorks ==
  ASSUME ExecInv, NEW b \in ExecWorkers,
         SpecRefused(b) \/ SandboxEnds(b) \/ CollectOutputs(b) \/ CollectRaises(b)
  PROVE  ExecInv'
<1> DEFINE x == broker[b].x
<1>0. ExecTypes /\ broker[b].pc \in {"sandbox", "collect"} /\ broker[b].pc # "accept"
  BY DEF ExecInv, SpecRefused, SandboxEnds, CollectOutputs, CollectRaises
<1>1. /\ x \in DOMAIN execution /\ ~execution[x].denied /\ x \notin quarantine
      /\ broker[b].pc = "collect" => execution[x].status = "succeeded"
  BY <1>0, AtWork
<1>2. execution[x] \in Fates /\ \E n \in Nat : execution \in [1..n -> Fates]
  BY <1>0, <1>1 DEF ExecTypes
<1>3. ASSUME NEW s \in {"refused", "violation", "error"} \cup SandboxOutcomes
      PROVE  /\ [execution[x] EXCEPT !.status = s] \in Fates
             /\ ~[execution[x] EXCEPT !.status = s].denied
             /\ [execution[x] EXCEPT !.status = s].status = s
  BY <1>1, <1>2 DEF Fates
<1>4. CASE SpecRefused(b)
  <2> DEFINE fate == [execution[x] EXCEPT !.status = "refused"]
  <2>1. execution' = [execution EXCEPT ![x] = fate] /\ BrokerTo(b, "respond")
        /\ UNCHANGED <<workerOf, socketOf, execJob, quarantine>>
    BY <1>4 DEF SpecRefused
  <2>2. fate \in Fates /\ ~fate.denied
    BY <1>3
  <2> HIDE DEF fate
  <2> QED BY <1>0, <1>1, <2>1, <2>2, SandboxKeepsInv
<1>5. CASE SandboxEnds(b)
  <2>1. PICK s \in SandboxOutcomes :
          /\ execution' = [execution EXCEPT ![x].status = s]
          /\ BrokerTo(b, IF s = "succeeded" THEN "collect" ELSE "respond")
    BY <1>5 DEF SandboxEnds
  <2> DEFINE fate == [execution[x] EXCEPT !.status = s]
             at == IF s = "succeeded" THEN "collect" ELSE "respond"
  <2>2. execution' = [execution EXCEPT ![x] = fate] /\ BrokerTo(b, at)
        /\ UNCHANGED <<workerOf, socketOf, execJob, quarantine>>
    BY <1>5, <2>1 DEF SandboxEnds
  <2>3. fate \in Fates /\ ~fate.denied /\ fate.status = s
    BY <1>3
  <2>4. at \in {"collect", "respond"} /\ (at = "collect" => fate.status = "succeeded")
    BY <2>3
  <2> HIDE DEF fate, at
  <2> QED BY <1>0, <1>1, <2>2, <2>3, <2>4, SandboxKeepsInv
<1>6. CASE CollectOutputs(b)
  <2>0. BrokerTo(b, "respond") /\ UNCHANGED <<workerOf, socketOf, execJob>> /\ broker[b].pc = "collect"
    BY <1>6 DEF CollectOutputs
  <2>1. CASE quarantine' = quarantine \cup {x} /\ execution' = execution
    <3> DEFINE fate == execution[x]
    <3>1. execution' = [execution EXCEPT ![x] = fate]
      BY <1>2, <2>1
    <3>2. fate \in Fates /\ ~fate.denied /\ fate.status = "succeeded"
      BY <1>1, <1>2, <2>0
    <3> HIDE DEF fate
    <3> QED BY <1>0, <2>0, <2>1, <3>1, <3>2, SandboxKeepsInv
  <2>2. CASE quarantine' = quarantine /\ execution' = [execution EXCEPT ![x].status = "violation"]
    <3> DEFINE fate == [execution[x] EXCEPT !.status = "violation"]
    <3>1. execution' = [execution EXCEPT ![x] = fate]
      BY <2>2
    <3>2. fate \in Fates /\ ~fate.denied
      BY <1>3
    <3> HIDE DEF fate
    <3> QED BY <1>0, <1>1, <2>0, <2>2, <3>1, <3>2, SandboxKeepsInv
  <2> QED BY <1>6, <2>1, <2>2 DEF CollectOutputs
<1>7. CASE CollectRaises(b)
  <2> DEFINE fate == [execution[x] EXCEPT !.status = "error", !.spoiled = TRUE]
  <2>1. execution' = [execution EXCEPT ![x] = fate] /\ BrokerTo(b, "respond")
        /\ UNCHANGED <<workerOf, socketOf, execJob>> /\ quarantine' = quarantine \cup {x}
    BY <1>2, <1>7 DEF CollectRaises, Fates
  <2>2. fate \in Fates /\ ~fate.denied /\ fate.spoiled
    BY <1>1, <1>2 DEF Fates
  <2> HIDE DEF fate
  <2> QED BY <1>0, <2>1, <2>2, SandboxKeepsInv
<1> QED BY <1>4, <1>5, <1>6, <1>7

(* A broker takes the request of its own process, ...                      *)
LEMMA ServiceKeepsInv ==
  ASSUME ExecInv, NEW b \in ExecWorkers, broker[b].pc = "accept", b \in broker[b].backlog,
         NEW x, x = Cardinality(DOMAIN execution) + 1,
         broker' = [broker EXCEPT ![b].pc = "sandbox", ![b].caller = b, ![b].x = x, ![b].backlog = @ \ {b}],
         execution' = [y \in 1..x |->
           IF y = x THEN [status |-> "running", denied |-> FALSE, spoiled |-> FALSE] ELSE execution[y]],
         UNCHANGED <<workerOf, socketOf, quarantine, execJob>>
  PROVE  ExecInv'
<1> DEFINE fate == [status |-> "running", denied |-> FALSE, spoiled |-> FALSE]
<1>0. ExecTypes /\ (\A v \in ExecWorkers : WorkerKept(v)) /\ Queueing /\ RefsKept /\ ResultIsStored
  BY DEF ExecInv
<1> PICK n \in Nat : execution \in [1..n -> Fates]
  BY <1>0 DEF ExecTypes
<1>1. DOMAIN execution = 1..n /\ x = n + 1
  <2>1. DOMAIN execution = 1..n /\ Cardinality(1..n) = n
    BY FS_Interval, SMTT(40)
  <2> QED BY <2>1
<1>2. fate \in Fates /\ ~fate.denied
  BY DEF Fates
<1>3. workerOf[b].task.pc = "waiting" /\ \A c \in ExecWorkers : c # b => b \notin broker[c].backlog
  BY <1>0 DEF Queueing
<1>4. /\ workerOf[b].task.x = 0 /\ workerOf[b].task.checked = {} /\ workerOf[b].task.put = {}
      /\ TaskKept(workerOf[b].task) /\ broker[b].x = 0 /\ workerOf[b].status = "up"
  BY <1>0, <1>3, NothingToDo DEF WorkerKept, TaskKept, EarlyPoints, Serves
<1> HIDE DEF fate
<1>5. /\ execution' \in [1..x -> Fates] /\ DOMAIN execution' = DOMAIN execution \cup {x}
      /\ execution'[x] = fate /\ x \notin DOMAIN execution /\ x # 0 /\ x \in Nat
      /\ \A y \in DOMAIN execution : execution'[y] = execution[y]
  <2>1. \A y \in 1..x : y # x => y \in 1..n
    BY <1>1
  <2>2. 1..x = 1..n \cup {x} /\ x \notin 1..n /\ x # 0 /\ x \in Nat
    BY <1>1
  <2>3. execution' = [y \in 1..x |-> IF y = x THEN fate ELSE execution[y]]
    BY DEF fate
  <2> QED BY <1>1, <1>2, <2>1, <2>2, <2>3
<1>6. /\ broker' \in [ExecWorkers -> BrokerTypes]
      /\ \A v \in ExecWorkers : v # b => broker'[v] = broker[v]
      /\ broker'[b].pc = "sandbox" /\ broker'[b].caller = b
      /\ broker'[b].x = x /\ broker'[b].backlog = broker[b].backlog \ {b}
  <2> DEFINE r == [broker[b] EXCEPT !.pc = "sandbox", !.caller = b, !.x = x, !.backlog = @ \ {b}]
  <2>1. broker[b] \in BrokerTypes /\ broker \in [ExecWorkers -> BrokerTypes]
    BY <1>0 DEF ExecTypes
  <2>2. /\ r \in BrokerTypes /\ r.pc = "sandbox" /\ r.caller = b
        /\ r.x = x /\ r.backlog = broker[b].backlog \ {b}
    BY <1>5, <2>1 DEF BrokerTypes
  <2>3. broker' = [broker EXCEPT ![b] = r]
    OBVIOUS
  <2> HIDE DEF r
  <2>4. broker' \in [ExecWorkers -> BrokerTypes]
    <3>1. \A f \in [ExecWorkers -> BrokerTypes], v \in BrokerTypes : [f EXCEPT ![b] = v] \in [ExecWorkers -> BrokerTypes]
      OBVIOUS
    <3>2. [broker EXCEPT ![b] = r] \in [ExecWorkers -> BrokerTypes]
      BY <2>1, <2>2, <3>1
    <3> QED BY <2>3, <3>2
  <2>5. \A v \in ExecWorkers : v # b => broker'[v] = broker[v]
    BY <2>1, <2>3
  <2>6. broker'[b] = r
    BY <2>1, <2>3
  <2> QED BY <2>2, <2>4, <2>5, <2>6
<1>7. x \notin quarantine /\ quarantine \subseteq DOMAIN execution
  BY <1>0, <1>5 DEF ExecTypes
<1>8. ExecTypes'
  <2>1. quarantine' \subseteq DOMAIN execution'
    BY <1>5, <1>7
  <2>2. \E m \in Nat : execution' \in [1..m -> Fates]
    BY <1>5
  <2> QED BY <1>0, <1>6, <2>1, <2>2 DEF ExecTypes
<1>9. Holds(b) = {} /\ Holds(b)' = {x}
  BY <1>4, <1>5, <1>6 DEF Holds
<1>10. Alone(b)
  BY <1>3, <1>5, <1>6, <1>9 DEF Alone
<1>11. OwnFate(b)
  BY <1>5, <1>9 DEF OwnFate
<1>12. OwnRefs(b)
  BY <1>9 DEF OwnRefs
<1>13. ResultIsStored'
  BY <1>0 DEF ResultIsStored
<1>14. WorkerKept(b)'
  <2>1. Serves(broker[b], workerOf[b].task)'
    BY <1>2, <1>3, <1>5, <1>6, <1>7 DEF Serves
  <2>2. TaskKept(workerOf[b].task)'
    BY <1>3, <1>4, <1>5, <1>7 DEF TaskKept
  <2> QED BY <1>4, <1>6, <2>1, <2>2 DEF WorkerKept
<1> QED BY <1>8, <1>10, <1>11, <1>12, <1>13, <1>14, OwnStepKeepsInv

(* A connection is verified, and refused when its peer is another          *)
(* process.                                                                *)
LEMMA BrokerAcceptsKeepsInv ==
  ASSUME ExecInv, NEW b \in ExecWorkers, AcceptConnection(b)
  PROVE  ExecInv'
<1>1. broker[b].pc = "accept" /\ UNCHANGED <<socketOf, quarantine, execJob>>
  BY DEF AcceptConnection
<1>2. PICK w \in broker[b].backlog :
        IF Verifies(b, w) /\ Cardinality(DOMAIN execution) < MaxExecutions
        THEN LET x == Cardinality(DOMAIN execution) + 1 IN
               /\ broker' = [broker EXCEPT ![b].pc = "sandbox", ![b].caller = w, ![b].x = x,
                                           ![b].backlog = @ \ {w}]
               /\ execution' = [y \in 1..x |->
                    IF y = x THEN [status |-> "running", denied |-> FALSE, spoiled |-> FALSE]
                    ELSE execution[y]]
               /\ UNCHANGED workerOf
        ELSE /\ broker' = [broker EXCEPT ![b].backlog = @ \ {w}]
             /\ TaskTo(w, "refused")
             /\ UNCHANGED execution
  BY DEF AcceptConnection
<1>3. CASE Verifies(b, w) /\ Cardinality(DOMAIN execution) < MaxExecutions
  <2> DEFINE x == Cardinality(DOMAIN execution) + 1
  <2>1. w = b
    BY <1>3 DEF Verifies
  <2>2. /\ broker' = [broker EXCEPT ![b].pc = "sandbox", ![b].caller = b, ![b].x = x, ![b].backlog = @ \ {b}]
        /\ execution' = [y \in 1..x |->
             IF y = x THEN [status |-> "running", denied |-> FALSE, spoiled |-> FALSE] ELSE execution[y]]
        /\ UNCHANGED workerOf
    BY <1>2, <1>3, <2>1
  <2> QED BY <1>1, <2>1, <2>2, ServiceKeepsInv
<1>4. CASE ~(Verifies(b, w) /\ Cardinality(DOMAIN execution) < MaxExecutions)
  BY <1>1, <1>2, <1>4, RefusalKeepsInv
<1> QED BY <1>3, <1>4

(* ... and answers it.                                                     *)
LEMMA RespondKeepsInv ==
  ASSUME ExecInv, NEW b \in ExecWorkers, Respond(b)
  PROVE  ExecInv'
<1> DEFINE x == broker[b].x
           ok == execution[x].status = "succeeded"
           t == [workerOf[b].task EXCEPT !.pc = IF ok THEN "authorize" ELSE "refused", !.x = IF ok THEN x ELSE 0]
<1>0. ExecTypes /\ (\A v \in ExecWorkers : WorkerKept(v)) /\ RefsKept /\ ResultIsStored
  BY DEF ExecInv
<1>1. /\ x \in DOMAIN execution /\ x # 0 /\ broker[b].caller = b
      /\ workerOf[b].task.pc = "waiting" /\ workerOf[b].status = "up"
      /\ workerOf[b].task.checked = {} /\ workerOf[b].task.put = {}
      /\ Holds(b) = {x}
      /\ ~execution[x].denied
      /\ x \in quarantine => ok \/ execution[x].spoiled
      /\ \A j \in ExecJobs : \A r \in execJob[j].refs : r[1] # x
      /\ \A c \in ExecWorkers : b \notin broker[c].backlog
  BY AtWork DEF Respond
<1>2. /\ workerOf \in [ExecWorkers -> WorkerTypes] /\ workerOf[b] \in WorkerTypes /\ workerOf[b].task \in TaskTypes
      /\ broker[b] \in BrokerTypes /\ broker \in [ExecWorkers -> BrokerTypes] /\ x \in Nat
  BY <1>0 DEF ExecTypes, WorkerTypes, BrokerTypes
<1>3. workerOf' = [workerOf EXCEPT ![b].task.pc = IF ok THEN "authorize" ELSE "refused",
                                   ![b].task.x  = IF ok THEN x ELSE 0]
  BY <1>1 DEF Respond
<1>4. workerOf' = [workerOf EXCEPT ![b].task = t]
  BY <1>2, <1>3 DEF WorkerTypes, TaskTypes
<1>5. /\ t \in TaskTypes /\ t.pc = IF ok THEN "authorize" ELSE "refused"
      /\ t.x = IF ok THEN x ELSE 0
      /\ t.checked = {} /\ t.put = {}
  BY <1>1, <1>2 DEF TaskTypes, TaskPoints
<1> HIDE DEF t
<1>6. /\ workerOf' \in [ExecWorkers -> WorkerTypes]
      /\ \A v \in ExecWorkers : v # b => workerOf'[v] = workerOf[v]
      /\ workerOf'[b].status = "up" /\ workerOf'[b].task = t
  BY <1>0, <1>1, <1>4, <1>5, TaskMoves
<1>7. /\ broker' \in [ExecWorkers -> BrokerTypes]
      /\ \A v \in ExecWorkers : v # b => broker'[v] = broker[v]
      /\ broker'[b].pc = "accept" /\ broker'[b].caller = NoWorker
      /\ broker'[b].x = 0 /\ broker'[b].backlog = broker[b].backlog
  <2> DEFINE r == [broker[b] EXCEPT !.pc = "accept", !.caller = NoWorker, !.x = 0]
  <2>1. /\ r \in BrokerTypes /\ r.pc = "accept" /\ r.caller = NoWorker
        /\ r.x = 0 /\ r.backlog = broker[b].backlog
    BY <1>2 DEF BrokerTypes
  <2>2. broker' = [broker EXCEPT ![b] = r]
    BY DEF Respond
  <2> HIDE DEF r
  <2> QED BY <1>2, <2>1, <2>2
<1>8. UNCHANGED <<socketOf, quarantine, execJob, execution>>
  BY DEF Respond
<1>9. ExecTypes'
  BY <1>0, <1>6, <1>7, <1>8 DEF ExecTypes
<1>10. Holds(b)' = IF ok THEN {x} ELSE {}
  BY <1>1, <1>5, <1>6, <1>7 DEF Holds
<1>11. Alone(b)
  BY <1>1, <1>6, <1>7, <1>10 DEF Alone
<1>12. OwnFate(b)
  BY <1>1, <1>8, <1>10 DEF OwnFate
<1>13. OwnRefs(b)
  BY <1>1, <1>8 DEF OwnRefs
<1>14. ResultIsStored'
  BY <1>0, <1>8 DEF ResultIsStored
<1>15. WorkerKept(b)'
  <2>0. 0 \notin quarantine
    BY <1>0 DEF ExecTypes
  <2>1. Serves(broker[b], workerOf[b].task)'
    BY <1>7 DEF Serves
  <2>2. /\ t.pc \notin EarlyPoints /\ t.pc # "complete" /\ t.pc # "discard"
        /\ t.put = {} /\ t.x \in DOMAIN execution \cup {0}
        /\ t.pc = "authorize" => ok /\ t.x = x
        /\ t.pc = "refused" => t.x = 0
    BY <1>1, <1>5 DEF EarlyPoints
  <2>3. TaskKept(workerOf[b].task)'
    BY <1>1, <1>5, <1>6, <1>8, <2>0, <2>2 DEF TaskKept
  <2> QED BY <1>6, <1>7, <2>1, <2>3 DEF WorkerKept
<1> QED BY <1>9, <1>11, <1>12, <1>13, <1>14, <1>15, OwnStepKeepsInv

-----------------------------------------------------------------------------
(* A step of a handler that has its answer.                                *)
LEMMA TaskStepKeepsInv ==
  ASSUME ExecInv, NEW w \in ExecWorkers, workerOf[w].task.pc \notin EarlyPoints,
         NEW t \in TaskTypes, workerOf' = [workerOf EXCEPT ![w].task = t], t.x \in {workerOf[w].task.x, 0},
         UNCHANGED <<broker, socketOf>>, execJob' \in [ExecJobs -> JobRows],
         \E n \in Nat : execution' \in [1..n -> Fates], DOMAIN execution' = DOMAIN execution,
         \A y \in DOMAIN execution : y # workerOf[w].task.x => execution'[y] = execution[y],
         quarantine' \subseteq quarantine, quarantine \ {workerOf[w].task.x} \subseteq quarantine',
         t.x = 0 => workerOf[w].task.x \notin quarantine',
         OwnRefs(w), ResultIsStored', TaskKept(workerOf[w].task)'
  PROVE  ExecInv'
<1>0. ExecTypes /\ (\A v \in ExecWorkers : WorkerKept(v))
  BY DEF ExecInv
<1>1. /\ \A b \in ExecWorkers : w \notin broker[b].backlog
      /\ broker[w].pc = "accept" /\ broker[w].caller = NoWorker /\ broker[w].x = 0
  BY NotWaiting DEF EarlyPoints
<1>2. workerOf[w].status = "up"
  BY <1>0, NothingToDo DEF WorkerKept, EarlyPoints
<1>3. /\ workerOf' \in [ExecWorkers -> WorkerTypes]
      /\ \A v \in ExecWorkers : v # w => workerOf'[v] = workerOf[v]
      /\ workerOf'[w].status = "up" /\ workerOf'[w].task = t
  BY <1>0, <1>2, TaskMoves
<1>4. ExecTypes'
  BY <1>0, <1>3 DEF ExecTypes
<1>5. Holds(w) = {workerOf[w].task.x} \ {0} /\ Holds(w)' = {t.x} \ {0}
  BY <1>1, <1>3 DEF Holds
<1>6. Alone(w)
  BY <1>1, <1>3, <1>5 DEF Alone
<1>7. 0 \notin DOMAIN execution
  BY <1>0 DEF ExecTypes
<1>8. OwnFate(w)
  <2>1. \A y \in DOMAIN execution : y \notin Holds(w) => execution'[y] = execution[y]
    BY <1>5, <1>7
  <2>2. \A y \in DOMAIN execution' : y \notin Holds(w) => (y \in quarantine' <=> y \in quarantine)
    BY <1>5, <1>7
  <2>3. \A y \in Holds(w) : y \in quarantine' => y \in Holds(w)'
    BY <1>5
  <2> QED BY <2>1, <2>2, <2>3 DEF OwnFate
<1>9. WorkerKept(w)'
  <2>1. Serves(broker[w], workerOf[w].task)'
    BY <1>1 DEF Serves
  <2> QED BY <1>1, <1>3, <2>1 DEF WorkerKept
<1> QED BY <1>4, <1>6, <1>8, <1>9, OwnStepKeepsInv

(* What a handler with an answer has in hand.                              *)
LEMMA InHand ==
  ASSUME ExecInv, NEW w \in ExecWorkers
  PROVE  /\ workerOf[w].task \in TaskTypes /\ workerOf[w].task.job \in ExecJobs
         /\ TaskKept(workerOf[w].task)
         /\ execJob \in [ExecJobs -> JobRows]
         /\ \E n \in Nat : execution \in [1..n -> Fates]
         /\ quarantine \subseteq DOMAIN execution /\ 0 \notin DOMAIN execution
         /\ \A j \in ExecJobs : \A r \in execJob[j].refs :
              /\ execution[r[1]].status = "succeeded" /\ ~execution[r[1]].denied
              /\ broker[w].x # r[1]
              /\ workerOf[w].task.x = r[1] => r[2] \in workerOf[w].task.put
         /\ ResultIsStored
<1>0. ExecTypes /\ WorkerKept(w) /\ RefsKept /\ ResultIsStored
  BY DEF ExecInv
<1>1. workerOf[w].task \in TaskTypes /\ workerOf[w].task.job \in ExecJobs
  BY <1>0 DEF ExecTypes, WorkerTypes, TaskTypes
<1>2. TaskKept(workerOf[w].task)
  BY <1>0 DEF WorkerKept
<1>3. /\ execJob \in [ExecJobs -> JobRows] /\ \E n \in Nat : execution \in [1..n -> Fates]
      /\ quarantine \subseteq DOMAIN execution /\ 0 \notin DOMAIN execution
  BY <1>0 DEF ExecTypes
<1>4. \A j \in ExecJobs : \A r \in execJob[j].refs :
        /\ execution[r[1]].status = "succeeded" /\ ~execution[r[1]].denied
        /\ broker[w].x # r[1]
        /\ workerOf[w].task.x = r[1] => r[2] \in workerOf[w].task.put
  BY <1>0 DEF RefsKept
<1> QED BY <1>0, <1>1, <1>2, <1>3, <1>4

(* The outputs are authorized one after the other, or the execution        *)
(* denied.                                                                 *)
LEMMA AuthorizeKeepsInv ==
  ASSUME ExecInv, NEW w \in ExecWorkers, AuthorizeOutput(w)
  PROVE  ExecInv'
<1> DEFINE s == workerOf[w].task
<1>0. ExecTypes
  BY DEF ExecInv
<1>1. /\ s \in TaskTypes /\ s.job \in ExecJobs /\ TaskKept(s) /\ s.pc = "authorize"
      /\ UNCHANGED <<broker, socketOf, quarantine, execJob>>
  BY InHand DEF AuthorizeOutput
<1>2. /\ s.pc \notin EarlyPoints /\ s.x # 0 /\ s.x \in DOMAIN execution
      /\ execution[s.x].status = "succeeded" /\ ~execution[s.x].denied
  BY <1>1 DEF TaskKept, EarlyPoints
<1>3. PICK o \in Outputs \ s.checked :
        IF granted
        THEN /\ workerOf' = [workerOf EXCEPT ![w].task.checked = @ \cup {o}]
             /\ UNCHANGED execution
        ELSE /\ TaskTo(w, "discard")
             /\ execution' = [execution EXCEPT ![s.x].denied = TRUE]
  BY DEF AuthorizeOutput
<1>4. s.put = {}
  BY <1>1 DEF TaskKept
<1>5. ResultIsStored'
  BY <1>1, InHand DEF ResultIsStored
<1>6. workerOf \in [ExecWorkers -> WorkerTypes] /\ workerOf[w] \in WorkerTypes
  BY <1>0 DEF ExecTypes
<1>7. \A j \in ExecJobs : \A r \in execJob[j].refs : r[1] # s.x
  BY <1>4, InHand
<1>8. broker[w].x = 0
  BY <1>2, NotWaiting DEF EarlyPoints
<1>9. CASE granted
  <2> DEFINE t == [s EXCEPT !.checked = @ \cup {o}]
  <2>1. workerOf' = [workerOf EXCEPT ![w].task = t]
    BY <1>3, <1>6, <1>9 DEF WorkerTypes, TaskTypes
  <2>2. /\ t \in TaskTypes /\ t.pc = "authorize" /\ t.x = s.x /\ t.job = s.job
        /\ t.put = {}
    BY <1>1, <1>4 DEF TaskTypes
  <2> HIDE DEF t
  <2>3. workerOf'[w].task = t
    BY <1>0, <2>1, <2>2, TaskMoves
  <2>4. execution' = execution
    BY <1>3, <1>9
  <2>5. TaskKept(workerOf[w].task)'
    BY <1>1, <1>2, <2>2, <2>3, <2>4 DEF TaskKept, EarlyPoints
  <2>6. OwnRefs(w)
    BY <1>1, <1>7, <1>8 DEF OwnRefs, Holds
  <2> QED BY <1>1, <1>2, <1>5, <2>1, <2>2, <2>4, <2>5, <2>6, InHand, TaskStepKeepsInv
<1>10. CASE ~granted
  <2> DEFINE t == [s EXCEPT !.pc = "discard"]
             fate == [execution[s.x] EXCEPT !.denied = TRUE]
  <2>1. workerOf' = [workerOf EXCEPT ![w].task = t]
    BY <1>3, <1>6, <1>10 DEF WorkerTypes, TaskTypes, TaskTo
  <2>2. /\ t \in TaskTypes /\ t.pc = "discard" /\ t.x = s.x /\ t.job = s.job
        /\ t.put = {}
    BY <1>1, <1>4 DEF TaskTypes, TaskPoints
  <2>3. fate \in Fates
    <3>1. execution[s.x] \in Fates
      BY <1>2, InHand
    <3>2. \A f \in Fates : [f EXCEPT !.denied = TRUE] \in Fates
      BY DEF Fates
    <3> QED BY <3>1, <3>2
  <2>4. execution' = [execution EXCEPT ![s.x] = fate]
    BY <1>3, <1>10
  <2> HIDE DEF t, fate
  <2>5. /\ \E n \in Nat : execution' \in [1..n -> Fates]
        /\ DOMAIN execution' = DOMAIN execution
        /\ \A y \in DOMAIN execution : y # s.x => execution'[y] = execution[y]
    BY <1>0, <1>2, <2>3, <2>4, FateMoves
  <2>6. workerOf'[w].task = t
    BY <1>0, <2>1, <2>2, TaskMoves
  <2>7. TaskKept(workerOf[w].task)'
    BY <1>1, <1>2, <2>2, <2>5, <2>6 DEF TaskKept, EarlyPoints
  <2>8. OwnRefs(w)
    BY <1>1, <1>7, <1>8 DEF OwnRefs, Holds
  <2> QED BY <1>1, <1>2, <1>5, <2>1, <2>2, <2>5, <2>7, <2>8, InHand, TaskStepKeepsInv
<1> QED BY <1>9, <1>10

(* An output is stored and referred to.                                    *)
LEMMA PutKeepsInv ==
  ASSUME ExecInv, NEW w \in ExecWorkers, PutOutput(w)
  PROVE  ExecInv'
<1> DEFINE s == workerOf[w].task
<1>0. ExecTypes
  BY DEF ExecInv
<1>1. /\ s \in TaskTypes /\ s.job \in ExecJobs /\ TaskKept(s) /\ s.pc = "authorize" /\ s.checked = Outputs
      /\ UNCHANGED <<broker, socketOf, quarantine, execution>>
  BY InHand DEF PutOutput, AllChecked
<1>2. /\ s.pc \notin EarlyPoints /\ s.x # 0 /\ s.x \in DOMAIN execution
      /\ execution[s.x].status = "succeeded" /\ ~execution[s.x].denied
  BY <1>1 DEF TaskKept, EarlyPoints
<1>3. PICK o \in Outputs :
        /\ workerOf' = [workerOf EXCEPT ![w].task.put = @ \cup {o}]
        /\ execJob' = [execJob EXCEPT ![s.job].refs = @ \cup {<<s.x, o>>}]
  BY <1>1 DEF PutOutput
<1>4. workerOf \in [ExecWorkers -> WorkerTypes] /\ workerOf[w] \in WorkerTypes
  BY <1>0 DEF ExecTypes
<1>5. broker[w].x = 0
  BY <1>2, NotWaiting DEF EarlyPoints
<1> DEFINE t == [s EXCEPT !.put = @ \cup {o}]
           row == [execJob[s.job] EXCEPT !.refs = @ \cup {<<s.x, o>>}]
<1>6. workerOf' = [workerOf EXCEPT ![w].task = t]
  BY <1>3, <1>4 DEF WorkerTypes, TaskTypes
<1>7. /\ t \in TaskTypes /\ t.pc = "authorize" /\ t.x = s.x /\ t.job = s.job
      /\ t.put = s.put \cup {o} /\ t.checked = Outputs
  BY <1>1 DEF TaskTypes
<1>8. /\ row \in JobRows /\ row.refs = execJob[s.job].refs \cup {<<s.x, o>>}
      /\ row.status = execJob[s.job].status /\ row.result = execJob[s.job].result
  <2>1. execJob[s.job] \in JobRows /\ s.x \in Nat
    BY <1>1, InHand DEF TaskTypes
  <2>2. <<s.x, o>> \in Nat \X Outputs
    BY <2>1
  <2> QED BY <2>1, <2>2 DEF JobRows
<1>9. execJob' = [execJob EXCEPT ![s.job] = row] /\ execJob \in [ExecJobs -> JobRows]
  BY <1>3, InHand
<1> HIDE DEF t, row
<1>10. execJob' \in [ExecJobs -> JobRows]
  BY <1>8, <1>9
<1>11. workerOf'[w].task = t
  BY <1>0, <1>6, <1>7, TaskMoves
<1>12. execJob'[s.job] = row /\ \A j \in ExecJobs : j # s.job => execJob'[j] = execJob[j]
  BY <1>1, <1>9
<1>13. TaskKept(workerOf[w].task)'
  <2>1. \A p \in t.put : <<t.x, p>> \in execJob'[t.job].refs
    BY <1>1, <1>7, <1>8, <1>12 DEF TaskKept
  <2>2. t.put \subseteq t.checked
    BY <1>7, <1>1 DEF TaskKept
  <2> QED BY <1>1, <1>2, <1>7, <1>11, <2>1, <2>2 DEF TaskKept, EarlyPoints
<1>14. OwnRefs(w)
  <2> SUFFICES ASSUME NEW j \in ExecJobs
               PROVE  /\ execJob[j].refs \subseteq execJob'[j].refs
                      /\ \A r \in execJob'[j].refs :
                           /\ r \notin execJob[j].refs => r[1] \in Holds(w)
                           /\ r[1] \in Holds(w) =>
                                /\ execution'[r[1]].status = "succeeded" /\ ~execution'[r[1]].denied
                                /\ broker'[w].x # r[1]
                                /\ workerOf'[w].task.x = r[1] => r[2] \in workerOf'[w].task.put
    BY DEF OwnRefs
  <2>1. execJob[j].refs \subseteq execJob'[j].refs
        /\ \A r \in execJob'[j].refs : r \in execJob[j].refs \/ r = <<s.x, o>>
    BY <1>8, <1>12
  <2>2. Holds(w) = {s.x}
    BY <1>2, <1>5 DEF Holds
  <2>3. ASSUME NEW r \in execJob'[j].refs, r[1] = s.x PROVE r[2] \in t.put
    <3>1. CASE r \in execJob[j].refs
      BY <2>3, <3>1, <1>7, InHand
    <3>2. CASE r = <<s.x, o>>
      BY <3>2, <1>7
    <3> QED BY <2>1, <3>1, <3>2
  <2>4. \A r \in execJob'[j].refs : r \notin execJob[j].refs => r[1] = s.x
    BY <2>1
  <2> QED BY <1>1, <1>2, <1>5, <1>11, <2>1, <2>2, <2>3, <2>4
<1>15. ResultIsStored'
  <2> SUFFICES ASSUME NEW j \in ExecJobs, execJob'[j].status = "done"
               PROVE  execJob'[j].result # 0 /\ {execJob'[j].result} \X Outputs \subseteq execJob'[j].refs
    BY DEF ResultIsStored
  <2>1. /\ execJob[j].status = "done" /\ execJob'[j].result = execJob[j].result
        /\ execJob[j].refs \subseteq execJob'[j].refs
    BY <1>8, <1>12
  <2> QED BY <2>1, InHand DEF ResultIsStored
<1> QED BY <1>1, <1>2, <1>6, <1>7, <1>10, <1>13, <1>14, <1>15, InHand, TaskStepKeepsInv

(* What cannot be published is discarded.                                  *)
LEMMA DiscardKeepsInv ==
  ASSUME ExecInv, NEW w \in ExecWorkers, PutRaises(w) \/ DiscardOutputs(w)
  PROVE  ExecInv'
<1> DEFINE s == workerOf[w].task
<1>0. ExecTypes
  BY DEF ExecInv
<1>1. /\ s \in TaskTypes /\ s.job \in ExecJobs /\ TaskKept(s) /\ s.pc \in {"authorize", "discard"}
      /\ UNCHANGED <<broker, socketOf, execution, execJob>>
  BY InHand DEF PutRaises, DiscardOutputs
<1>2. s.pc \notin EarlyPoints /\ s.x # 0 /\ s.x \in DOMAIN execution
  BY <1>1 DEF TaskKept, EarlyPoints
<1>3. PICK at \in {"discard", "complete", "refused"} :
        /\ TaskTo(w, at)
        /\ \/ at = "discard" /\ quarantine' = quarantine
           \/ at \in {"complete", "refused"} /\ quarantine' = quarantine \ {s.x}
        /\ at = "complete" => s.put = Outputs
  <2>1. CASE PutRaises(w)
    BY <2>1 DEF PutRaises
  <2>2. CASE DiscardOutputs(w)
    BY <2>2 DEF DiscardOutputs, Discarded, Published
  <2> QED BY <2>1, <2>2
<1>4. workerOf \in [ExecWorkers -> WorkerTypes] /\ workerOf[w] \in WorkerTypes
  BY <1>0 DEF ExecTypes
<1>5. broker[w].x = 0
  BY <1>2, NotWaiting DEF EarlyPoints
<1> DEFINE t == [s EXCEPT !.pc = at]
<1>6. workerOf' = [workerOf EXCEPT ![w].task = t]
  BY <1>3, <1>4 DEF WorkerTypes, TaskTypes, TaskTo
<1>7. /\ t \in TaskTypes /\ t.pc = at /\ t.x = s.x /\ t.job = s.job
      /\ t.put = s.put /\ t.checked = s.checked
  BY <1>1 DEF TaskTypes, TaskPoints
<1> HIDE DEF t
<1>8. workerOf'[w].task = t
  BY <1>0, <1>6, <1>7, TaskMoves
<1>9. TaskKept(workerOf[w].task)'
  BY <1>1, <1>2, <1>3, <1>7, <1>8 DEF TaskKept, EarlyPoints
<1>10. OwnRefs(w)
  BY <1>1, <1>5, <1>7, <1>8, InHand DEF OwnRefs, Holds
<1>11. ResultIsStored'
  BY <1>1, InHand DEF ResultIsStored
<1>12. quarantine' \subseteq quarantine /\ quarantine \ {s.x} \subseteq quarantine'
  BY <1>3
<1> QED BY <1>1, <1>2, <1>6, <1>7, <1>9, <1>10, <1>11, <1>12, InHand, TaskStepKeepsInv

(* The job is completed.                                                   *)
LEMMA SettleKeepsInv ==
  ASSUME ExecInv, NEW w \in ExecWorkers, SettleExecJob(w)
  PROVE  ExecInv'
<1> DEFINE s == workerOf[w].task
<1>0. ExecTypes
  BY DEF ExecInv
<1>1. /\ s \in TaskTypes /\ s.job \in ExecJobs /\ TaskKept(s) /\ s.pc \in {"complete", "refused"}
      /\ UNCHANGED <<broker, socketOf, execution, quarantine>>
      /\ workerOf' = [workerOf EXCEPT ![w].task = NoTask]
  BY InHand DEF SettleExecJob
<1>2. /\ s.pc \notin EarlyPoints /\ s.x \notin quarantine /\ s.x \in Nat
      /\ s.pc = "complete" => s.x # 0 /\ s.put = Outputs /\ \A o \in Outputs : <<s.x, o>> \in execJob[s.job].refs
  BY <1>1 DEF TaskKept, EarlyPoints, TaskTypes
<1>3. /\ execJob' \in [ExecJobs -> JobRows]
      /\ \A j \in ExecJobs : /\ execJob'[j].refs = execJob[j].refs
                             /\ \/ execJob'[j] = execJob[j]
                                \/ /\ j = s.job /\ execJob'[j].result = s.x
                                   /\ execJob'[j].status = "done" => s.pc = "complete"
  <2>0. execJob \in [ExecJobs -> JobRows]
    BY <1>0 DEF ExecTypes
  <2>1. CASE UNCHANGED execJob
    BY <2>0, <2>1
  <2>2. CASE execJob' = [execJob EXCEPT ![s.job].status = Verdict(w), ![s.job].result = s.x]
    <3> DEFINE now == Verdict(w)
               row == [execJob[s.job] EXCEPT !.status = now, !.result = s.x]
    <3>1. execJob' = [execJob EXCEPT ![s.job] = row]
      BY <2>0, <2>2
    <3>2. now \in {"failed", "done", "cancelled"} /\ (now = "done" => s.pc = "complete")
      BY <1>1 DEF Verdict
    <3> HIDE DEF now
    <3>3. /\ row \in JobRows /\ row.refs = execJob[s.job].refs /\ row.result = s.x
          /\ row.status = "done" => s.pc = "complete"
      <4>1. execJob[s.job] \in JobRows
        BY <1>1, <2>0
      <4> QED BY <1>2, <3>2, <4>1 DEF JobRows
    <3> HIDE DEF row
    <3> QED BY <1>1, <2>0, <3>1, <3>3
  <2> QED BY <2>1, <2>2 DEF SettleExecJob
<1>4. broker[w].x = 0
  BY <1>2, NotWaiting DEF EarlyPoints
<1>5. workerOf'[w].task = NoTask
  BY <1>0, <1>1, NothingToDo, TaskMoves
<1>6. TaskKept(workerOf[w].task)'
  <2>1. 0 \notin quarantine
    BY InHand
  <2> QED BY <1>1, <1>5, <2>1, NothingToDo DEF TaskKept, EarlyPoints
<1>7. OwnRefs(w)
  <2>1. \A x \in Holds(w) : x # NoTask.x
    BY NothingToDo DEF Holds
  <2> SUFFICES ASSUME NEW j \in ExecJobs, NEW e \in execJob[j].refs
               PROVE  e[1] \in Holds(w) =>
                        /\ execution'[e[1]].status = "succeeded" /\ ~execution'[e[1]].denied
                        /\ broker'[w].x # e[1] /\ workerOf'[w].task.x # e[1]
    BY <1>3 DEF OwnRefs
  <2>2. execution[e[1]].status = "succeeded" /\ ~execution[e[1]].denied /\ broker[w].x # e[1]
    BY InHand
  <2>3. execution' = execution /\ broker' = broker
    BY <1>1
  <2> QED BY <1>5, <2>1, <2>2, <2>3
<1>8. ResultIsStored'
  <2> SUFFICES ASSUME NEW j \in ExecJobs, execJob'[j].status = "done"
               PROVE  execJob'[j].result # 0 /\ {execJob'[j].result} \X Outputs \subseteq execJob'[j].refs
    BY DEF ResultIsStored
  <2>1. CASE execJob'[j] = execJob[j]
    BY <2>1, InHand DEF ResultIsStored
  <2>2. CASE execJob'[j] # execJob[j]
    <3>1. /\ j = s.job /\ execJob'[j].result = s.x /\ s.pc = "complete"
          /\ execJob'[j].refs = execJob[j].refs
      BY <1>3, <2>2
    <3> QED BY <1>2, <3>1
  <2> QED BY <2>1, <2>2
<1> QED BY <1>1, <1>2, <1>3, <1>6, <1>7, <1>8, NothingToDo, InHand, TaskStepKeepsInv

-----------------------------------------------------------------------------
(* Every step keeps the invariant.                                         *)
LEMMA ExecStepInv == ExecInv /\ [ExecNext]_execVars => ExecInv'
<1> SUFFICES ASSUME ExecInv, [ExecNext]_execVars PROVE ExecInv'
  OBVIOUS
<1>1. CASE ChangeGrant \/ UNCHANGED execVars
  <2>1. UNCHANGED <<workerOf, broker, socketOf, quarantine, execJob, execution>>
    BY <1>1 DEF ChangeGrant, execVars
  <2>2. ExecTypes' /\ Queueing' /\ RefsKept'
    BY <2>1 DEF ExecInv, ExecTypes, Queueing, RefsKept
  <2>4. OneHolds' /\ ResultIsStored' /\ QuarantineDrains'
    BY <2>1 DEF ExecInv, OneHolds, Holds, ResultIsStored, QuarantineDrains, InProgress
  <2>3. ASSUME NEW v \in ExecWorkers PROVE WorkerKept(v)'
    BY <2>1 DEF ExecInv, WorkerKept, Serves, TaskKept
  <2> QED BY <2>2, <2>3, <2>4 DEF ExecInv
<1>2. ASSUME NEW w \in ExecWorkers,
             \/ StartExecWorker(w) \/ StopExecWorker(w) \/ KillExecWorker(w) \/ LoseLease(w)
             \/ ExecStep(w) \/ BrokerStep(w) \/ CollectRaises(w) \/ PutRaises(w)
      PROVE  ExecInv'
  BY <1>2, WorkerStartKeepsInv, WorkerEndKeepsInv, LoseLeaseKeepsInv, TakeJobKeepsInv, AskingKeepsInv, BrokerAcceptsKeepsInv,
     BrokerWorks, RespondKeepsInv, AuthorizeKeepsInv, PutKeepsInv, DiscardKeepsInv, SettleKeepsInv
     DEF ExecStep, BrokerStep
<1>3. ASSUME NEW j \in ExecJobs, CancelExecJob(j)
      PROVE  ExecInv'
  BY <1>3, CancelKeepsInv DEF CancelExecJob
<1> QED BY <1>1, <1>2, <1>3 DEF ExecNext

(* However workers start, stop, die and lose leases, and whoever's socket  *)
(* broker.sock is: a job refers to outputs of executions that succeeded    *)
(* and were not denied, the result of a job that is done is stored in      *)
(* full, and quarantine holds what is in progress or was left by a crash   *)
(* (ExecutionRunHandler.run, publish, ExecutionBroker).                    *)
THEOREM ExecutionSafety == ExecSpec => []ExecSafe
<1>1. ExecInv => ExecSafe
  <2> SUFFICES ASSUME ExecInv PROVE ExecSafe
    OBVIOUS
  <2>0. ExecTypes /\ (\A w \in ExecWorkers : WorkerKept(w)) /\ RefsKept /\ ResultIsStored /\ QuarantineDrains
    BY DEF ExecInv
  <2>1. ASSUME NEW w \in ExecWorkers
        PROVE  /\ workerOf[w].status \in {"down", "rename", "listen", "up"}
               /\ workerOf[w].task.put \subseteq workerOf[w].task.checked
               /\ workerOf[w].task.checked \subseteq Outputs
               /\ broker[w].backlog \subseteq ExecWorkers /\ broker[w].caller \in ExecWorkers \cup {NoWorker}
               /\ (broker[w].x # 0) = (broker[w].pc # "accept")
    <3>1. workerOf[w] \in WorkerTypes /\ workerOf[w].task \in TaskTypes /\ broker[w] \in BrokerTypes
      BY <2>0 DEF ExecTypes, WorkerTypes
    <3>2. 0 \notin DOMAIN execution
      BY <2>0 DEF ExecTypes
    <3>3. Serves(broker[w], workerOf[w].task) /\ TaskKept(workerOf[w].task)
      BY <2>0 DEF WorkerKept
    <3>4. (broker[w].x # 0) <=> (broker[w].pc # "accept")
      BY <3>2, <3>3 DEF Serves
    <3>5. workerOf[w].task.put \subseteq workerOf[w].task.checked
      BY <3>3 DEF TaskKept
    <3> QED BY <3>1, <3>4, <3>5 DEF WorkerTypes, TaskTypes, BrokerTypes
  <2>2. ExecTypeOK
    BY <2>0, <2>1 DEF ExecTypeOK, ExecTypes
  <2>3. DeniedWritesNothing
    BY <2>0 DEF DeniedWritesNothing, RefsKept
  <2> QED BY <2>0, <2>2, <2>3 DEF ExecSafe
<1> QED BY <1>1, ExecInitInv, ExecStepInv, PTL DEF ExecSpec

-----------------------------------------------------------------------------
(* The browser session.                                                    *)

(* Types of the driver, of answers and of processes.                       *)
DriverTypes ==
  [process : Nat, posture : BOOLEAN, next : 0..MaxBrowserCalls, call : Lines \cup {Idle}]

AnswerTypes == [id : 0..MaxBrowserCalls, ok : BOOLEAN, events : SUBSET Nat]

ProcessTypes ==
  [up : BOOLEAN, proven : BOOLEAN, guarded : BOOLEAN, handles : SUBSET Lines, out : Seq(AnswerTypes),
   happened : SUBSET Nat, waiting : SUBSET Nat, givenUp : BOOLEAN]

BrowserStates ==
  /\ driver \in DriverTypes /\ driver.process <= Len(chrome)
  /\ chrome \in Seq(ProcessTypes)
  /\ recorded \subseteq 1..pageEvents
  /\ browserFaults \in 0..MaxBrowserFaults
  /\ pageEvents \in 0..MaxPageEvents
  /\ \A p \in 1..Len(chrome) : chrome[p].happened \subseteq 1..pageEvents

(* A page is or will be opened in it.                                      *)
PageOf(x) == x.guarded \/ \E r \in x.handles : r.kind = "op"

(* A process that is gone handles nothing; one with a page is proven.      *)
ProcessKept(x) ==
  /\ ~x.up => x.handles = {}
  /\ PageOf(x) => x.proven

(* What has been noted in a process is in one place.                       *)
Reported(x, told) ==
  /\ x.waiting \subseteq x.happened /\ x.waiting \cap told = {}
  /\ \A i \in 1..Len(x.out) : /\ x.out[i].events \subseteq x.happened
                              /\ x.out[i].events \cap told = {} /\ x.out[i].events \cap x.waiting = {}
  /\ \A i, j \in 1..Len(x.out) : i # j => x.out[i].events \cap x.out[j].events = {}
  /\ x.up => \A e \in x.happened :
       e \in x.waiting \/ e \in told \/ \E i \in 1..Len(x.out) : e \in x.out[i].events

(* A process on which no call was given up handles the call under way, has *)
(* answered it, or has lost it.                                            *)
InStep(call, x) ==
  \/ x.out = <<>> /\ (call = Idle => x.handles = {}) /\ x.handles \subseteq {call}
  \/ /\ call # Idle /\ x.handles = {} /\ Len(x.out) = 1 /\ x.out[1].id = call.id
     /\ call.kind = "check" /\ x.out[1].ok => x.proven

(* The process that is driven: a posture that is held is its own.          *)
DrivenKept(d, x) ==
  /\ d.call.kind \in {"init", "check"} => ~x.givenUp
  /\ d.posture => x.proven
  /\ ~x.givenUp => InStep(d.call, x)

(* The inductive invariant.                                                *)
SessionInv ==
  /\ BrowserStates
  /\ driver.call # Idle => driver.process # 0
  /\ driver.process # 0 => DrivenKept(driver, chrome[driver.process])
  /\ \A p \in 1..Len(chrome) :
       /\ ProcessKept(chrome[p]) /\ Reported(chrome[p], recorded)
       /\ PageOf(chrome[p]) => driver.posture /\ (chrome[p].up => p = driver.process)
  /\ \A p, q \in 1..Len(chrome) : p # q => chrome[p].happened \cap chrome[q].happened = {}

-----------------------------------------------------------------------------
(* What is known of a process, and of the one that is driven.              *)
LEMMA ProcessesAreTyped ==
  ASSUME SessionInv
  PROVE  /\ Len(chrome) \in Nat /\ DOMAIN chrome = 1..Len(chrome)
         /\ \A p \in 1..Len(chrome) :
              /\ chrome[p] \in ProcessTypes /\ chrome[p].out \in Seq(AnswerTypes)
              /\ Len(chrome[p].out) \in Nat /\ DOMAIN chrome[p].out = 1..Len(chrome[p].out)
         /\ driver.process # 0 => driver.process \in 1..Len(chrome)
<1>1. chrome \in Seq(ProcessTypes) /\ driver.process \in Nat /\ driver.process <= Len(chrome)
  BY DEF SessionInv, BrowserStates, DriverTypes
<1>2. Len(chrome) \in Nat /\ DOMAIN chrome = 1..Len(chrome)
  BY <1>1, LenProperties
<1>3. ASSUME NEW p \in 1..Len(chrome)
      PROVE  /\ chrome[p] \in ProcessTypes /\ chrome[p].out \in Seq(AnswerTypes)
             /\ Len(chrome[p].out) \in Nat /\ DOMAIN chrome[p].out = 1..Len(chrome[p].out)
  <2>1. chrome[p] \in ProcessTypes
    BY <1>1, ElementOfSeq
  <2>2. chrome[p].out \in Seq(AnswerTypes)
    BY <2>1 DEF ProcessTypes
  <2> QED BY <2>1, <2>2, LenProperties
<1> QED BY <1>1, <1>2, <1>3

(* The invariant holds at first.                                           *)
LEMMA SessionInitInv == BrowserInit => SessionInv
<1> SUFFICES ASSUME BrowserInit PROVE SessionInv
  OBVIOUS
<1>1. chrome = <<>> /\ Len(chrome) = 0 /\ driver.process = 0 /\ driver.call = Idle
  BY DEF BrowserInit
<1>2. driver \in DriverTypes
  BY BrowserAssumption DEF BrowserInit, DriverTypes
<1>3. BrowserStates
  BY <1>1, <1>2, BrowserAssumption DEF BrowserStates, BrowserInit
<1> QED BY <1>1, <1>3 DEF SessionInv

(* A step that changes one process.                                        *)
LEMMA OneProcessMoves ==
  ASSUME SessionInv, NEW p \in 1..Len(chrome), NEW x \in ProcessTypes, chrome' = [chrome EXCEPT ![p] = x],
         driver' \in DriverTypes, driver.posture => driver'.posture,
         driver'.process \in {driver.process, 0}, driver'.process # driver.process => driver.process = p,
         driver'.process # p => driver' = driver \/ (driver'.process = 0 /\ driver'.call = Idle),
         driver'.process = p => DrivenKept(driver', x) /\ p # 0,
         ProcessKept(x), Reported(x, recorded'),
         PageOf(x) => driver'.posture /\ (x.up => p = driver'.process),
         chrome[p].happened \subseteq x.happened, x.happened \subseteq 1..pageEvents',
         pageEvents \in Nat /\ pageEvents <= pageEvents',
         \A e \in x.happened : e \in chrome[p].happened \/ e > pageEvents,
         browserFaults' \in 0..MaxBrowserFaults, pageEvents' \in 0..MaxPageEvents,
         recorded \subseteq recorded', recorded' \ recorded \subseteq chrome[p].happened
  PROVE  SessionInv'
<1>1. /\ chrome \in Seq(ProcessTypes) /\ Len(chrome) \in Nat
      /\ \A q \in 1..Len(chrome) : chrome[q] \in ProcessTypes
  BY ProcessesAreTyped DEF SessionInv, BrowserStates
<1>2. /\ chrome' \in Seq(ProcessTypes) /\ Len(chrome') = Len(chrome)
      /\ \A q \in 1..Len(chrome) : chrome'[q] = IF q = p THEN x ELSE chrome[q]
  BY <1>1, ExceptSeq
<1>3. /\ driver \in DriverTypes /\ driver.process <= Len(chrome)
      /\ recorded \subseteq 1..pageEvents /\ pageEvents \in 0..MaxPageEvents
      /\ \A q \in 1..Len(chrome) : chrome[q].happened \subseteq 1..pageEvents
  BY DEF SessionInv, BrowserStates
<1>4. driver.process \in Nat /\ driver'.process \in Nat
  BY <1>3 DEF DriverTypes
<1>5. BrowserStates'
  <2>1. driver'.process <= Len(chrome')
    BY <1>1, <1>2, <1>3, <1>4
  <2>2. recorded' \subseteq 1..pageEvents'
    BY <1>3
  <2>3. \A q \in 1..Len(chrome') : chrome'[q].happened \subseteq 1..pageEvents'
    BY <1>2, <1>3
  <2> QED BY <1>2, <2>1, <2>2, <2>3 DEF BrowserStates
<1>6. driver'.call # Idle => driver'.process # 0
  BY DEF SessionInv
<1>7. driver'.process # 0 => DrivenKept(driver', chrome'[driver'.process])
  <2>1. CASE driver'.process = p
    BY <1>2, <2>1
  <2>2. CASE driver'.process # p /\ driver'.process # 0
    <3>1. driver' = driver /\ driver.process \in 1..Len(chrome)
      BY <2>2, ProcessesAreTyped
    <3>2. chrome'[driver.process] = chrome[driver.process]
      BY <1>2, <2>2, <3>1
    <3> QED BY <2>2, <3>1, <3>2 DEF SessionInv
  <2> QED BY <2>1, <2>2
<1>8. ASSUME NEW q \in 1..Len(chrome), q # p
      PROVE  /\ ProcessKept(chrome[q]) /\ Reported(chrome[q], recorded')
             /\ PageOf(chrome[q]) => driver'.posture /\ (chrome[q].up => q = driver'.process)
  <2>1. /\ ProcessKept(chrome[q]) /\ Reported(chrome[q], recorded)
        /\ PageOf(chrome[q]) => driver.posture /\ (chrome[q].up => q = driver.process)
        /\ chrome[p].happened \cap chrome[q].happened = {}
    BY <1>8 DEF SessionInv
  <2>2. Reported(chrome[q], recorded')
    <3> DEFINE y == chrome[q]
    <3>1. /\ y.waiting \subseteq y.happened /\ y.waiting \cap recorded = {}
          /\ \A i \in 1..Len(y.out) : /\ y.out[i].events \subseteq y.happened
                                      /\ y.out[i].events \cap recorded = {} /\ y.out[i].events \cap y.waiting = {}
          /\ \A i, j \in 1..Len(y.out) : i # j => y.out[i].events \cap y.out[j].events = {}
          /\ y.up => \A e \in y.happened :
               e \in y.waiting \/ e \in recorded \/ \E i \in 1..Len(y.out) : e \in y.out[i].events
      BY <2>1 DEF Reported
    <3>2. \A e \in y.happened : e \in recorded' => e \in recorded
      BY <2>1
    <3> HIDE DEF y
    <3>3. y.waiting \cap recorded' = {}
      BY <3>1, <3>2
    <3>4. \A i \in 1..Len(y.out) : y.out[i].events \cap recorded' = {}
      BY <3>1, <3>2
    <3>5. y.up => \A e \in y.happened :
               e \in y.waiting \/ e \in recorded' \/ \E i \in 1..Len(y.out) : e \in y.out[i].events
      BY <3>1
    <3> QED BY <3>1, <3>3, <3>4, <3>5 DEF Reported, y
  <2>3. PageOf(chrome[q]) => driver'.posture /\ (chrome[q].up => q = driver'.process)
    BY <1>8, <2>1
  <2> QED BY <2>1, <2>2, <2>3
<1>9. \A q \in 1..Len(chrome') :
        /\ ProcessKept(chrome'[q]) /\ Reported(chrome'[q], recorded')
        /\ PageOf(chrome'[q]) => driver'.posture /\ (chrome'[q].up => q = driver'.process)
  <2> SUFFICES ASSUME NEW q \in 1..Len(chrome')
               PROVE  /\ ProcessKept(chrome'[q]) /\ Reported(chrome'[q], recorded')
                      /\ PageOf(chrome'[q]) => driver'.posture /\ (chrome'[q].up => q = driver'.process)
    OBVIOUS
  <2>1. CASE q = p
    BY <1>2, <2>1
  <2>2. CASE q # p
    BY <1>2, <1>8, <2>2
  <2> QED BY <2>1, <2>2
<1>10. ASSUME NEW q \in 1..Len(chrome), q # p
       PROVE  x.happened \cap chrome[q].happened = {}
  <2>1. chrome[p].happened \cap chrome[q].happened = {}
    BY <1>10 DEF SessionInv
  <2>2. \A e \in chrome[q].happened : e \in 1..pageEvents
    BY <1>3
  <2>3. \A e \in chrome[q].happened : ~(e > pageEvents)
    BY <1>3, <2>2
  <2> QED BY <2>1, <2>3
<1>11. \A q, r \in 1..Len(chrome') : q # r => chrome'[q].happened \cap chrome'[r].happened = {}
  <2> SUFFICES ASSUME NEW q \in 1..Len(chrome'), NEW r \in 1..Len(chrome'), q # r
               PROVE  chrome'[q].happened \cap chrome'[r].happened = {}
    OBVIOUS
  <2>1. CASE q = p \/ r = p
    BY <1>2, <1>10, <2>1
  <2>2. CASE q # p /\ r # p
    BY <1>2, <2>2 DEF SessionInv
  <2> QED BY <2>1, <2>2
<1> QED BY <1>5, <1>6, <1>7, <1>9, <1>11 DEF SessionInv

-----------------------------------------------------------------------------
(* What has been noted stays where it is while nothing is written or read, *)
(* ...                                                                     *)
LEMMA ReportedStays ==
  ASSUME NEW x, NEW y, NEW told, Reported(x, told),
         y.waiting = x.waiting, y.happened = x.happened, y.out = x.out, y.up => x.up
  PROVE  Reported(y, told)
BY DEF Reported

(* ... goes with the next line that is written, ...                        *)
LEMMA ReportedWritten ==
  ASSUME NEW x, NEW y, NEW told, NEW a \in AnswerTypes, Reported(x, told), x.out \in Seq(AnswerTypes),
         y.waiting = {}, y.happened = x.happened, y.out = Append(x.out, a), a.events = x.waiting, y.up => x.up
  PROVE  Reported(y, told)
<1> DEFINE n == Len(x.out)
<1>1. /\ n \in Nat /\ Len(y.out) = n + 1 /\ y.out[n + 1] = a
      /\ \A i \in 1..n : y.out[i] = x.out[i]
  BY AppendProperties, LenProperties
<1> HIDE DEF n
<1>2. \A i \in 1..Len(y.out) : i # n + 1 => i \in 1..n
  BY <1>1
<1>3. /\ x.waiting \subseteq x.happened /\ x.waiting \cap told = {}
      /\ \A i \in 1..n : /\ x.out[i].events \subseteq x.happened
                         /\ x.out[i].events \cap told = {} /\ x.out[i].events \cap x.waiting = {}
      /\ \A i, j \in 1..n : i # j => x.out[i].events \cap x.out[j].events = {}
      /\ x.up => \A e \in x.happened :
           e \in x.waiting \/ e \in told \/ \E i \in 1..n : e \in x.out[i].events
  BY DEF Reported, n
<1>4. ASSUME NEW i \in 1..Len(y.out)
      PROVE  /\ y.out[i].events \subseteq y.happened
             /\ y.out[i].events \cap told = {} /\ y.out[i].events \cap y.waiting = {}
  <2>1. CASE i = n + 1
    BY <1>1, <1>3, <2>1
  <2>2. CASE i # n + 1
    <3>1. i \in 1..n /\ y.out[i] = x.out[i]
      BY <1>1, <1>2, <2>2
    <3> QED BY <1>3, <3>1
  <2> QED BY <2>1, <2>2
<1>5. ASSUME NEW i \in 1..Len(y.out), NEW j \in 1..Len(y.out), i # j
      PROVE  y.out[i].events \cap y.out[j].events = {}
  <2>1. CASE i = n + 1
    <3>1. j \in 1..n /\ y.out[j] = x.out[j] /\ y.out[i] = a
      BY <1>1, <1>2, <1>5, <2>1
    <3> QED BY <1>3, <3>1
  <2>2. CASE j = n + 1
    <3>1. i \in 1..n /\ y.out[i] = x.out[i] /\ y.out[j] = a
      BY <1>1, <1>2, <1>5, <2>2
    <3> QED BY <1>3, <3>1
  <2>3. CASE i # n + 1 /\ j # n + 1
    <3>1. i \in 1..n /\ y.out[i] = x.out[i] /\ j \in 1..n /\ y.out[j] = x.out[j]
      BY <1>1, <1>2, <2>3
    <3> QED BY <1>3, <1>5, <3>1
  <2> QED BY <2>1, <2>2, <2>3
<1>6. ASSUME y.up, NEW e \in y.happened
      PROVE  e \in y.waiting \/ e \in told \/ \E i \in 1..Len(y.out) : e \in y.out[i].events
  <2>1. n + 1 \in 1..Len(y.out) /\ 1..n \subseteq 1..Len(y.out)
    BY <1>1
  <2>2. CASE e \in x.waiting
    BY <1>1, <2>1, <2>2
  <2>3. CASE \E i \in 1..n : e \in x.out[i].events
    BY <1>1, <2>1, <2>3
  <2> QED BY <1>3, <1>6, <2>2, <2>3
<1> QED BY <1>4, <1>5, <1>6 DEF Reported

(* ... and is recorded when that line is read.                             *)
LEMMA ReportedTaken ==
  ASSUME NEW x, NEW y, NEW told, Reported(x, told), x.out \in Seq(AnswerTypes), x.out # <<>>,
         y.waiting = x.waiting, y.happened = x.happened, y.out = Tail(x.out), y.up => x.up
  PROVE  Reported(y, told \cup Head(x.out).events)
<1> DEFINE n == Len(x.out)
           now == told \cup Head(x.out).events
<1>1. /\ n \in Nat /\ n >= 1 /\ Len(y.out) = n - 1 /\ Head(x.out) = x.out[1]
      /\ \A i \in 1..n - 1 : y.out[i] = x.out[i + 1]
  BY HeadTailProperties, LenProperties, EmptySeq
<1> HIDE DEF n
<1>2. \A i \in 1..Len(y.out) : y.out[i] = x.out[i + 1] /\ i + 1 \in 1..n /\ i + 1 # 1
  BY <1>1
<1>3. /\ x.waiting \subseteq x.happened /\ x.waiting \cap told = {}
      /\ \A i \in 1..n : /\ x.out[i].events \subseteq x.happened
                         /\ x.out[i].events \cap told = {} /\ x.out[i].events \cap x.waiting = {}
      /\ \A i, j \in 1..n : i # j => x.out[i].events \cap x.out[j].events = {}
      /\ x.up => \A e \in x.happened :
           e \in x.waiting \/ e \in told \/ \E i \in 1..n : e \in x.out[i].events
  BY DEF Reported, n
<1>4. 1 \in 1..n /\ now = told \cup x.out[1].events
  BY <1>1
<1> HIDE DEF now
<1>5. y.waiting \subseteq y.happened /\ y.waiting \cap now = {}
  BY <1>3, <1>4
<1>6. ASSUME NEW i \in 1..Len(y.out)
      PROVE  /\ y.out[i].events \subseteq y.happened
             /\ y.out[i].events \cap now = {} /\ y.out[i].events \cap y.waiting = {}
  BY <1>2, <1>3, <1>4
<1>7. ASSUME NEW i \in 1..Len(y.out), NEW j \in 1..Len(y.out), i # j
      PROVE  y.out[i].events \cap y.out[j].events = {}
  <2>1. i + 1 # j + 1
    BY <1>7
  <2>2. /\ i + 1 \in 1..n /\ j + 1 \in 1..n
        /\ y.out[i] = x.out[i + 1] /\ y.out[j] = x.out[j + 1]
    BY <1>2
  <2>3. x.out[i + 1].events \cap x.out[j + 1].events = {}
    BY <1>3, <2>1, <2>2
  <2> QED BY <2>2, <2>3
<1>8. ASSUME y.up, NEW e \in y.happened
      PROVE  e \in y.waiting \/ e \in now \/ \E i \in 1..Len(y.out) : e \in y.out[i].events
  <2>1. ASSUME NEW i \in 1..n, e \in x.out[i].events
        PROVE  e \in now \/ \E k \in 1..Len(y.out) : e \in y.out[k].events
    <3>1. CASE i = 1
      BY <1>4, <2>1, <3>1
    <3>2. CASE i # 1
      <4>1. i - 1 \in 1..Len(y.out) /\ i = (i - 1) + 1
        BY <1>1, <2>1, <3>2
      <4>2. y.out[i - 1] = x.out[i]
        BY <1>2, <4>1
      <4> QED BY <2>1, <4>1, <4>2
    <3> QED BY <3>1, <3>2
  <2> QED BY <1>3, <1>4, <1>8, <2>1
<1> QED BY <1>5, <1>6, <1>7, <1>8 DEF Reported, now

-----------------------------------------------------------------------------
(* One lemma per kind of step.  The process that is driven.                *)
LEMMA DrivenIs ==
  ASSUME SessionInv, driver.process # 0
  PROVE  /\ driver.process \in 1..Len(chrome) /\ chrome[driver.process] \in ProcessTypes
         /\ DrivenKept(driver, chrome[driver.process])
         /\ ProcessKept(chrome[driver.process]) /\ Reported(chrome[driver.process], recorded)
         /\ PageOf(chrome[driver.process]) => driver.posture
BY ProcessesAreTyped DEF SessionInv

(* The session's own types.                                                *)
LEMMA SessionIsTyped ==
  ASSUME SessionInv
  PROVE  /\ driver \in DriverTypes /\ recorded \subseteq 1..pageEvents
         /\ pageEvents \in Nat /\ pageEvents \in 0..MaxPageEvents
         /\ browserFaults \in 0..MaxBrowserFaults
         /\ \A p \in 1..Len(chrome) : chrome[p].happened \subseteq 1..pageEvents
BY BrowserAssumption DEF SessionInv, BrowserStates

(* A step in which nothing new is noted in a process.                      *)
LEMMA QuietMoves ==
  ASSUME SessionInv, NEW p \in 1..Len(chrome), NEW x \in ProcessTypes, chrome' = [chrome EXCEPT ![p] = x],
         driver' \in DriverTypes, driver.posture => driver'.posture,
         driver'.process \in {driver.process, 0}, driver'.process # driver.process => driver.process = p,
         driver'.process # p => driver' = driver \/ (driver'.process = 0 /\ driver'.call = Idle),
         driver'.process = p => DrivenKept(driver', x),
         ProcessKept(x), Reported(x, recorded'),
         PageOf(x) => driver'.posture /\ (x.up => p = driver'.process),
         x.happened = chrome[p].happened, pageEvents' = pageEvents, browserFaults' \in 0..MaxBrowserFaults,
         recorded \subseteq recorded', recorded' \ recorded \subseteq chrome[p].happened
  PROVE  SessionInv'
<1>1. /\ x.happened \subseteq 1..pageEvents' /\ pageEvents \in Nat /\ pageEvents' \in 0..MaxPageEvents
      /\ chrome[p].happened \subseteq x.happened
      /\ \A e \in x.happened : e \in chrome[p].happened \/ e > pageEvents
  BY SessionIsTyped
<1>2. pageEvents <= pageEvents' /\ p # 0
  BY <1>1, ProcessesAreTyped
<1> QED BY <1>1, <1>2, OneProcessMoves

(* A process that is reaped is up no more, and the session drives none.    *)
LEMMA ReapKeepsInv ==
  ASSUME SessionInv, driver.process # 0, Reap, recorded' = recorded, pageEvents' = pageEvents,
         browserFaults' \in 0..MaxBrowserFaults
  PROVE  SessionInv'
<1> DEFINE p == driver.process
           x == [chrome[p] EXCEPT !.up = FALSE, !.handles = {}]
<1>1. chrome' = [chrome EXCEPT ![p] = x] /\ driver' = [driver EXCEPT !.process = 0, !.call = Idle]
  BY DEF Reap
<1>2. /\ x \in ProcessTypes /\ x.up = FALSE /\ x.handles = {} /\ x.out = chrome[p].out
      /\ x.happened = chrome[p].happened /\ x.waiting = chrome[p].waiting
      /\ x.guarded = chrome[p].guarded /\ x.proven = chrome[p].proven
  BY DrivenIs DEF ProcessTypes
<1>3. /\ driver' \in DriverTypes /\ driver'.process = 0 /\ driver'.call = Idle
      /\ driver'.posture = driver.posture
  BY <1>1, SessionIsTyped DEF DriverTypes
<1> HIDE DEF x
<1>4. ProcessKept(x) /\ (PageOf(x) => driver'.posture)
  BY <1>2, <1>3, DrivenIs DEF ProcessKept, PageOf
<1>5. Reported(x, recorded')
  BY <1>2, DrivenIs, ReportedStays
<1>6. p \in 1..Len(chrome) /\ p # 0
  BY DrivenIs
<1> QED BY <1>1, <1>2, <1>3, <1>4, <1>5, <1>6, SessionIsTyped, QuietMoves

(* A request is sent: the process handles it, or has gone.                 *)
LEMMA AskKeepsInv ==
  ASSUME SessionInv, driver.process # 0, driver.call = Idle, NEW kind \in {"op", "close"}, Ask(kind),
         kind = "op" => driver.posture, UNCHANGED <<recorded, browserFaults, pageEvents>>
  PROVE  SessionInv'
<1> DEFINE p == driver.process
           r == [kind |-> kind, id |-> driver.next + 1]
           h == IF chrome[p].up THEN chrome[p].handles \cup {r} ELSE chrome[p].handles
           x == [chrome[p] EXCEPT !.handles = h]
<1>1. /\ chrome' = [chrome EXCEPT ![p] = x] /\ driver.next < MaxBrowserCalls
      /\ driver' = [driver EXCEPT !.next = @ + 1, !.call = r]
  BY DEF Ask, Send
<1>2. driver.next + 1 \in 0..MaxBrowserCalls /\ r \in Lines
  BY <1>1, SessionIsTyped, BrowserAssumption DEF DriverTypes, Lines
<1>3. h \subseteq Lines
  BY <1>2, DrivenIs DEF ProcessTypes
<1>4. /\ h \subseteq chrome[p].handles \cup {r} /\ (~chrome[p].up => h = chrome[p].handles)
      /\ r.kind = kind /\ r # Idle
  BY DEF Idle
<1> HIDE DEF h
<1>5. /\ x \in ProcessTypes /\ x.handles = h /\ x.out = chrome[p].out /\ x.up = chrome[p].up
      /\ x.happened = chrome[p].happened /\ x.waiting = chrome[p].waiting
      /\ x.guarded = chrome[p].guarded /\ x.proven = chrome[p].proven /\ x.givenUp = chrome[p].givenUp
  BY <1>3, DrivenIs DEF ProcessTypes
<1>6. /\ driver' \in DriverTypes /\ driver'.process = p /\ driver'.call = r
      /\ driver'.posture = driver.posture
  BY <1>1, <1>2, SessionIsTyped DEF DriverTypes
<1> HIDE DEF x, r
<1>7. PageOf(x) => x.proven /\ driver'.posture
  <2>1. CASE kind = "op"
    BY <1>5, <1>6, <2>1, DrivenIs DEF DrivenKept
  <2>2. CASE kind # "op"
    <3>1. PageOf(x) => PageOf(chrome[p])
      BY <1>4, <1>5, <2>2 DEF PageOf
    <3> QED BY <1>5, <1>6, <3>1, DrivenIs DEF ProcessKept
  <2> QED BY <2>1, <2>2
<1>8. ProcessKept(x)
  BY <1>4, <1>5, <1>7, DrivenIs DEF ProcessKept
<1>9. Reported(x, recorded')
  BY <1>5, DrivenIs, ReportedStays
<1>10. DrivenKept(driver', x)
  <2>1. ~x.givenUp => InStep(r, x)
    <3>1. ~x.givenUp => InStep(Idle, chrome[p])
      BY <1>5, DrivenIs DEF DrivenKept
    <3> QED BY <1>4, <1>5, <3>1 DEF InStep
  <2> QED BY <1>4, <1>5, <1>6, <2>1, DrivenIs DEF DrivenKept
<1>11. p \in 1..Len(chrome) /\ p # 0
  BY DrivenIs
<1> QED BY <1>1, <1>5, <1>6, <1>7, <1>8, <1>9, <1>10, <1>11, SessionIsTyped, QuietMoves

(* A new process is started while no posture is held: no page is open.     *)
LEMMA LaunchKeepsInv == SessionInv /\ Launch => SessionInv'
<1> SUFFICES ASSUME SessionInv, Launch PROVE SessionInv'
  OBVIOUS
<1> DEFINE r == [kind |-> "init", id |-> 0]
           y == [NewProcess EXCEPT !.handles = {r}]
           n == Len(chrome) + 1
<1>1. /\ ~driver.posture /\ chrome' = Append(chrome, y)
      /\ driver' = [driver EXCEPT !.process = n, !.call = r]
      /\ UNCHANGED <<recorded, browserFaults, pageEvents>>
  BY DEF Launch
<1>2. r \in Lines /\ r # Idle /\ r.kind = "init"
  BY BrowserAssumption DEF Lines, Idle
<1>3. /\ y \in ProcessTypes /\ y.up /\ ~y.guarded /\ y.handles = {r} /\ y.out = <<>>
      /\ y.happened = {} /\ y.waiting = {} /\ ~y.givenUp
  <2>1. <<>> \in Seq(AnswerTypes) /\ {r} \in SUBSET Lines
    BY <1>2, EmptySeq
  <2>2. NewProcess \in ProcessTypes
    BY <2>1 DEF ProcessTypes, NewProcess
  <2>3. /\ NewProcess.up /\ ~NewProcess.guarded /\ NewProcess.out = <<>> /\ NewProcess.happened = {}
        /\ NewProcess.waiting = {} /\ ~NewProcess.givenUp
    BY DEF NewProcess
  <2> HIDE DEF r
  <2> QED BY <2>1, <2>2, <2>3 DEF ProcessTypes
<1>4. chrome \in Seq(ProcessTypes) /\ n \in Nat
  BY ProcessesAreTyped DEF SessionInv, BrowserStates
<1> HIDE DEF r, y
<1>5. /\ chrome' \in Seq(ProcessTypes) /\ Len(chrome') = n /\ chrome'[n] = y
      /\ \A q \in 1..Len(chrome) : chrome'[q] = chrome[q]
  BY <1>1, <1>3, <1>4, AppendProperties
<1>6. /\ driver' \in DriverTypes /\ driver'.process = n /\ driver'.call = r
      /\ driver'.posture = FALSE
  BY <1>1, <1>2, <1>4, SessionIsTyped DEF DriverTypes
<1>7. \A q \in 1..Len(chrome') : q = n \/ q \in 1..Len(chrome)
  BY <1>4, <1>5, ProcessesAreTyped
<1>8. n # 0 /\ n \notin 1..Len(chrome)
  BY ProcessesAreTyped
<1> HIDE DEF n
<1>9. BrowserStates'
  <2>1. \A q \in 1..Len(chrome') : chrome'[q].happened \subseteq 1..pageEvents'
    BY <1>1, <1>3, <1>5, <1>7, SessionIsTyped
  <2>2. driver'.process <= Len(chrome')
    BY <1>4, <1>5, <1>6
  <2> QED BY <1>1, <1>5, <1>6, <2>1, <2>2, SessionIsTyped DEF BrowserStates
<1>10. DrivenKept(driver', chrome'[driver'.process])
  BY <1>2, <1>3, <1>5, <1>6, EmptySeq DEF DrivenKept, InStep
<1>11. ProcessKept(y) /\ ~PageOf(y) /\ Reported(y, recorded')
  BY <1>2, <1>3, EmptySeq DEF ProcessKept, PageOf, Reported
<1>12. ASSUME NEW q \in 1..Len(chrome')
       PROVE  /\ ProcessKept(chrome'[q]) /\ Reported(chrome'[q], recorded') /\ ~PageOf(chrome'[q])
  <2>1. CASE q = n
    BY <1>5, <1>11, <2>1
  <2>2. CASE q # n
    <3>1. q \in 1..Len(chrome) /\ chrome'[q] = chrome[q]
      BY <1>5, <1>7, <2>2
    <3> QED BY <1>1, <3>1 DEF SessionInv
  <2> QED BY <2>1, <2>2
<1>13. ASSUME NEW q \in 1..Len(chrome'), NEW s \in 1..Len(chrome'), q # s
       PROVE  chrome'[q].happened \cap chrome'[s].happened = {}
  <2>1. CASE q = n \/ s = n
    BY <1>3, <1>5, <2>1
  <2>2. CASE q # n /\ s # n
    BY <1>5, <1>7, <1>13, <2>2 DEF SessionInv
  <2> QED BY <2>1, <2>2
<1> QED BY <1>6, <1>8, <1>9, <1>10, <1>12, <1>13 DEF SessionInv

(* The call under way is over and nothing else changes.                    *)
LEMMA CallEnds ==
  ASSUME SessionInv, driver.process # 0, driver.call # Idle, EndCallWith(driver), NEW x \in ProcessTypes,
         chrome' = [chrome EXCEPT ![driver.process] = x],
         LET y == chrome[driver.process]
         IN /\ x.up = y.up /\ x.guarded = y.guarded /\ x.proven = y.proven /\ x.handles = y.handles
            /\ x.happened = y.happened /\ (y.givenUp => x.givenUp),
         ~x.givenUp => InStep(Idle, x), Reported(x, recorded'),
         recorded \subseteq recorded', recorded' \ recorded \subseteq chrome[driver.process].happened,
         pageEvents' = pageEvents, browserFaults' \in 0..MaxBrowserFaults
  PROVE  SessionInv'
<1> DEFINE p == driver.process
<1>1. driver' = [driver EXCEPT !.call = Idle]
  BY DEF EndCallWith
<1>2. /\ driver' \in DriverTypes /\ driver'.process = p /\ driver'.call = Idle
      /\ driver'.posture = driver.posture
  BY <1>1, SessionIsTyped DEF DriverTypes
<1>3. Idle.kind = "none"
  BY DEF Idle
<1>4. DrivenKept(driver', x)
  BY <1>2, <1>3, DrivenIs DEF DrivenKept
<1>5. ProcessKept(x) /\ (PageOf(x) => driver'.posture)
  BY <1>2, DrivenIs DEF ProcessKept, PageOf
<1>6. /\ p \in 1..Len(chrome) /\ x.happened = chrome[p].happened
      /\ chrome' = [chrome EXCEPT ![p] = x] /\ recorded' \ recorded \subseteq chrome[p].happened
  BY DrivenIs
<1> HIDE DEF p
<1>7. driver'.process = driver.process
  BY <1>2 DEF p
<1> QED BY <1>2, <1>4, <1>5, <1>6, <1>7, QuietMoves

(* The line that is read is the answer to the call, unless a call was      *)
(* given up before.                                                        *)
LEMMA HeadIs ==
  ASSUME SessionInv, driver.process # 0, chrome[driver.process].out # <<>>
  PROVE  LET y == chrome[driver.process]
         IN /\ Head(y.out) \in AnswerTypes /\ Head(y.out).events \subseteq y.happened
            /\ Tail(y.out) \in Seq(AnswerTypes)
            /\ ~y.givenUp => /\ Tail(y.out) = <<>> /\ y.handles = {} /\ driver.call # Idle
                             /\ driver.call.kind = "check" /\ Head(y.out).ok => y.proven
<1> DEFINE y == chrome[driver.process]
<1>1. y.out \in Seq(AnswerTypes) /\ Len(y.out) \in Nat
  BY DrivenIs, ProcessesAreTyped
<1>2. Reported(y, recorded) /\ DrivenKept(driver, y) /\ y.out # <<>>
  BY DrivenIs
<1> HIDE DEF y
<1>3. /\ Head(y.out) = y.out[1] /\ Len(y.out) >= 1 /\ Tail(y.out) \in Seq(AnswerTypes)
      /\ Len(Tail(y.out)) = Len(y.out) - 1 /\ Head(y.out) \in AnswerTypes
  BY <1>1, <1>2, HeadTailProperties, EmptySeq
<1>4. Head(y.out).events \subseteq y.happened
  BY <1>1, <1>2, <1>3 DEF Reported
<1>5. ASSUME ~y.givenUp
      PROVE  /\ Tail(y.out) = <<>> /\ y.handles = {} /\ driver.call # Idle
             /\ driver.call.kind = "check" /\ Head(y.out).ok => y.proven
  <2>1. /\ driver.call # Idle /\ y.handles = {} /\ Len(y.out) = 1
        /\ driver.call.kind = "check" /\ y.out[1].ok => y.proven
    BY <1>2, <1>5 DEF DrivenKept, InStep
  <2>2. Tail(y.out) = <<>>
    <3>1. Len(Tail(y.out)) = 0
      BY <1>3, <2>1
    <3> QED BY <1>3, <3>1, EmptySeq
  <2> QED BY <1>3, <2>1, <2>2
<1> QED BY <1>3, <1>4, <1>5 DEF y

(* A line is read.                                                         *)
LEMMA ReceiveKeepsInv == SessionInv /\ Receive => SessionInv'
<1> SUFFICES ASSUME SessionInv, Receive PROVE SessionInv'
  OBVIOUS
<1> DEFINE p == driver.process
           y == chrome[p]
           answer == Head(y.out)
           taken == [chrome EXCEPT ![p].out = Tail(@)]
           r == [kind |-> "check", id |-> driver.next + 1]
           h == IF y.up THEN y.handles \cup {r} ELSE y.handles
           x == [y EXCEPT !.out = Tail(@)]
           z == [x EXCEPT !.handles = h]
<1>1. /\ driver.call # Idle /\ y.out # <<>>
      /\ recorded' = IF Waiting("close") THEN recorded ELSE recorded \cup answer.events
      /\ UNCHANGED <<browserFaults, pageEvents>>
  BY DEF Receive
<1>2. p # 0 /\ p \in 1..Len(chrome) /\ chrome \in Seq(ProcessTypes) /\ y \in ProcessTypes
  BY <1>1, DrivenIs DEF SessionInv, BrowserStates
<1>3. \/ /\ Waiting("init") /\ answer.ok /\ driver.next < MaxBrowserCalls
         /\ driver' = [driver EXCEPT !.next = @ + 1, !.call = r]
         /\ chrome' = [taken EXCEPT ![p].handles = IF y.up THEN @ \cup {r} ELSE @]
      \/ /\ Waiting("check") /\ answer.ok
         /\ EndCallWith([driver EXCEPT !.posture = TRUE]) /\ chrome' = taken
      \/ Waiting("close") /\ Reap
      \/ ~Waiting("close") /\ EndCallWith(driver) /\ chrome' = taken
  <2>1. ~(Waiting("init") /\ Waiting("close")) /\ ~(Waiting("check") /\ Waiting("close"))
    BY DEF Waiting
  <2> QED BY <2>1 DEF Receive
<1>4. /\ answer \in AnswerTypes /\ answer.events \subseteq y.happened /\ Tail(y.out) \in Seq(AnswerTypes)
      /\ ~y.givenUp => /\ Tail(y.out) = <<>> /\ y.handles = {} /\ driver.call # Idle
                       /\ driver.call.kind = "check" /\ answer.ok => y.proven
  BY <1>1, <1>2, HeadIs
<1>5. /\ x \in ProcessTypes /\ x.up = y.up /\ x.guarded = y.guarded /\ x.proven = y.proven
      /\ x.handles = y.handles /\ x.happened = y.happened /\ x.waiting = y.waiting
      /\ x.givenUp = y.givenUp /\ x.out = Tail(y.out)
  BY <1>2, <1>4 DEF ProcessTypes
<1>6. taken = [chrome EXCEPT ![p] = x]
  OBVIOUS
<1>7. /\ ~Waiting("close") =>
           /\ recorded \subseteq recorded' /\ recorded' \ recorded \subseteq y.happened
           /\ recorded' = recorded \cup Head(y.out).events
  BY <1>1, <1>4
<1>8. ASSUME ~Waiting("close"), NEW w, w.waiting = y.waiting, w.happened = y.happened,
             w.out = Tail(y.out), w.up = y.up
      PROVE  Reported(w, recorded')
  <2>1. Reported(y, recorded) /\ y.out \in Seq(AnswerTypes)
    BY <1>2, DrivenIs DEF ProcessTypes
  <2> HIDE DEF y
  <2> QED BY <1>1, <1>7, <1>8, <2>1, ReportedTaken
<1>9. \A w : w.out = <<>> /\ w.handles = {} => InStep(Idle, w)
  BY DEF InStep
<1>10. browserFaults' \in 0..MaxBrowserFaults /\ pageEvents' = pageEvents
  BY <1>1, SessionIsTyped
<1>11. CASE Waiting("close") /\ Reap
  BY <1>1, <1>2, <1>10, <1>11, ReapKeepsInv
<1>12. CASE ~Waiting("close") /\ EndCallWith(driver) /\ chrome' = taken
  <2>1. Reported(x, recorded')
    BY <1>5, <1>8, <1>12
  <2>2. ~x.givenUp => InStep(Idle, x)
    BY <1>4, <1>5, <1>9
  <2> HIDE DEF x
  <2> QED BY <1>1, <1>2, <1>5, <1>6, <1>7, <1>10, <1>12, <2>1, <2>2, CallEnds
<1>13. CASE /\ Waiting("check") /\ answer.ok
            /\ EndCallWith([driver EXCEPT !.posture = TRUE]) /\ chrome' = taken
  <2>1. /\ driver' \in DriverTypes /\ driver'.process = p /\ driver'.call = Idle /\ driver'.posture
    BY <1>13, SessionIsTyped DEF DriverTypes, EndCallWith
  <2>2. ~y.givenUp /\ y.proven /\ ~Waiting("close")
    BY <1>2, <1>4, <1>13, DrivenIs DEF DrivenKept, Waiting
  <2>3. Reported(x, recorded')
    BY <1>5, <1>8, <2>2
  <2>4. Idle.kind = "none" /\ InStep(Idle, x)
    BY <1>4, <1>5, <1>9, <2>2 DEF Idle
  <2> HIDE DEF x
  <2>5. DrivenKept(driver', x)
    BY <1>5, <2>1, <2>2, <2>4 DEF DrivenKept
  <2>6. ProcessKept(x)
    BY <1>2, <1>5, DrivenIs DEF ProcessKept, PageOf
  <2> QED BY <1>2, <1>5, <1>6, <1>7, <1>10, <1>13, <2>1, <2>2, <2>3, <2>5, <2>6, QuietMoves
<1>14. CASE /\ Waiting("init") /\ answer.ok /\ driver.next < MaxBrowserCalls
            /\ driver' = [driver EXCEPT !.next = @ + 1, !.call = r]
            /\ chrome' = [taken EXCEPT ![p].handles = IF y.up THEN @ \cup {r} ELSE @]
  <2>1. driver.next + 1 \in 0..MaxBrowserCalls /\ r \in Lines
    BY <1>14, SessionIsTyped, BrowserAssumption DEF DriverTypes, Lines
  <2>2. /\ driver' \in DriverTypes /\ driver'.process = p /\ driver'.call = r
        /\ driver'.posture = driver.posture
    BY <1>14, <2>1, SessionIsTyped DEF DriverTypes
  <2>3. ~y.givenUp /\ ~Waiting("close")
    BY <1>2, <1>14, DrivenIs DEF DrivenKept, Waiting
  <2>4. h \subseteq Lines /\ h \subseteq {r} /\ (~y.up => h = {}) /\ r # Idle /\ r.kind = "check"
    BY <1>2, <1>4, <2>1, <2>3 DEF ProcessTypes, Idle
  <2>5. /\ z \in ProcessTypes /\ z.up = y.up /\ z.guarded = y.guarded /\ z.proven = y.proven
        /\ z.handles = h /\ z.happened = y.happened /\ z.waiting = y.waiting
        /\ z.givenUp = y.givenUp /\ z.out = Tail(y.out)
    BY <1>5, <2>4 DEF ProcessTypes
  <2>6. chrome' = [chrome EXCEPT ![p] = z]
    <3>1. taken[p] = x /\ x.handles = y.handles /\ DOMAIN taken = DOMAIN chrome
      BY <1>2, <1>5, <1>6, ProcessesAreTyped
    <3>2. chrome' = [taken EXCEPT ![p] = z]
      BY <1>14, <3>1
    <3> QED BY <1>6, <3>2
  <2>7. Reported(z, recorded')
    BY <1>8, <2>3, <2>5
  <2> HIDE DEF z, h, r
  <2>8. PageOf(z) => PageOf(y)
    BY <2>4, <2>5 DEF PageOf
  <2>9. ProcessKept(z) /\ (PageOf(z) => driver'.posture)
    BY <1>2, <2>2, <2>4, <2>5, <2>8, DrivenIs DEF ProcessKept
  <2>10. DrivenKept(driver', z)
    BY <1>2, <1>4, <2>2, <2>3, <2>4, <2>5, DrivenIs DEF DrivenKept, InStep
  <2> QED BY <1>2, <1>7, <1>10, <2>2, <2>3, <2>5, <2>6, <2>7, <2>9, <2>10, QuietMoves
<1> QED BY <1>3, <1>11, <1>12, <1>13, <1>14

(* A call is given up: its answer is still to come.                        *)
LEMMA GiveUpKeepsInv == SessionInv /\ GiveUp => SessionInv'
<1> SUFFICES ASSUME SessionInv, GiveUp PROVE SessionInv'
  OBVIOUS
<1> DEFINE p == driver.process
           x == [chrome[p] EXCEPT !.givenUp = TRUE]
<1>1. /\ driver.call # Idle /\ browserFaults < MaxBrowserFaults /\ browserFaults' = browserFaults + 1
      /\ IF Waiting("close") THEN Reap ELSE EndCallWith(driver) /\ chrome' = [chrome EXCEPT ![p] = x]
      /\ recorded' = recorded /\ pageEvents' = pageEvents
  BY DEF GiveUp
<1>2. browserFaults' \in 0..MaxBrowserFaults
  BY <1>1, SessionIsTyped, BrowserAssumption
<1>3. p # 0 /\ chrome[p] \in ProcessTypes
  BY <1>1, DrivenIs DEF SessionInv
<1>4. CASE Waiting("close")
  BY <1>1, <1>2, <1>3, <1>4, ReapKeepsInv
<1>5. CASE ~Waiting("close")
  <2>1. /\ x \in ProcessTypes /\ x.up = chrome[p].up /\ x.guarded = chrome[p].guarded
        /\ x.proven = chrome[p].proven /\ x.handles = chrome[p].handles /\ x.out = chrome[p].out
        /\ x.happened = chrome[p].happened /\ x.waiting = chrome[p].waiting /\ x.givenUp
    BY <1>3 DEF ProcessTypes
  <2> HIDE DEF x
  <2>2. Reported(x, recorded')
    BY <1>1, <1>3, <2>1, DrivenIs, ReportedStays
  <2> QED BY <1>1, <1>2, <1>3, <1>5, <2>1, <2>2, CallEnds
<1> QED BY <1>4, <1>5

(* The pipe of a process that has gone ends.                               *)
LEMMA BreakKeepsInv == SessionInv /\ Break => SessionInv'
<1> SUFFICES ASSUME SessionInv, Break PROVE SessionInv'
  OBVIOUS
<1> DEFINE p == driver.process
<1>1. /\ driver.call # Idle /\ ~chrome[p].up /\ chrome[p].out = <<>>
      /\ IF Waiting("close") THEN Reap ELSE EndCallWith(driver) /\ chrome' = chrome
      /\ recorded' = recorded /\ pageEvents' = pageEvents /\ browserFaults' = browserFaults
  BY DEF Break
<1>2. browserFaults' \in 0..MaxBrowserFaults
  BY <1>1, SessionIsTyped
<1>3. p # 0 /\ chrome[p] \in ProcessTypes
  BY <1>1, DrivenIs DEF SessionInv
<1>4. CASE Waiting("close")
  BY <1>1, <1>2, <1>3, <1>4, ReapKeepsInv
<1>5. CASE ~Waiting("close")
  <2>1. chrome' = [chrome EXCEPT ![p] = chrome[p]]
    <3>1. chrome \in Seq(ProcessTypes)
      BY DEF SessionInv, BrowserStates
    <3> QED BY <1>1, <1>5, <3>1
  <2>2. InStep(Idle, chrome[p])
    BY <1>1, <1>3, DrivenIs DEF ProcessKept, InStep
  <2>3. Reported(chrome[p], recorded')
    BY <1>1, <1>3, DrivenIs
  <2> QED BY <1>1, <1>2, <1>3, <1>5, <2>1, <2>2, <2>3, CallEnds
<1> QED BY <1>4, <1>5

-----------------------------------------------------------------------------
(* What every process is, and that the session drives it or not.           *)
LEMMA ProcessIs ==
  ASSUME SessionInv, NEW p \in 1..Len(chrome)
  PROVE  /\ chrome[p] \in ProcessTypes /\ chrome[p].out \in Seq(AnswerTypes)
         /\ ProcessKept(chrome[p]) /\ Reported(chrome[p], recorded)
         /\ PageOf(chrome[p]) => driver.posture /\ (chrome[p].up => p = driver.process)
         /\ p = driver.process => DrivenKept(driver, chrome[p])
         /\ p # 0
BY ProcessesAreTyped DEF SessionInv

(* A step of one process while the driver waits.                           *)
LEMMA ProcessMoves ==
  ASSUME SessionInv, NEW p \in 1..Len(chrome), NEW x \in ProcessTypes, chrome' = [chrome EXCEPT ![p] = x],
         UNCHANGED <<driver, recorded, pageEvents>>, browserFaults' \in 0..MaxBrowserFaults,
         p = driver.process => DrivenKept(driver, x), ProcessKept(x), Reported(x, recorded),
         PageOf(x) => PageOf(chrome[p]), x.up => chrome[p].up, x.happened = chrome[p].happened
  PROVE  SessionInv'
<1>1. driver \in DriverTypes /\ driver' = driver /\ recorded' = recorded /\ pageEvents' = pageEvents
  BY SessionIsTyped
<1>2. PageOf(x) => driver'.posture /\ (x.up => p = driver'.process)
  BY <1>1, ProcessIs
<1>3. p = driver'.process => DrivenKept(driver', x)
  BY <1>1
<1>4. Reported(x, recorded')
  BY <1>1
<1>5. recorded \subseteq recorded' /\ recorded' \ recorded \subseteq chrome[p].happened
  BY <1>1
<1>6. /\ driver.posture => driver'.posture
      /\ driver'.process \in {driver.process, 0} /\ driver'.process = driver.process
      /\ driver' \in DriverTypes
  BY <1>1
<1> QED BY <1>1, <1>2, <1>3, <1>4, <1>5, <1>6, QuietMoves

(* An answer is written.  On a process no call was given up on it answers  *)
(* the call under way, and says a proof is there only when it is.          *)
LEMMA WriteKeepsInv ==
  ASSUME SessionInv, NEW p \in 1..Len(chrome), NEW r \in chrome[p].handles, NEW ok \in BOOLEAN,
         NEW process \in ProcessTypes, Write(p, r, ok, process),
         UNCHANGED <<driver, recorded, browserFaults, pageEvents>>,
         process.handles = chrome[p].handles, process.out = chrome[p].out,
         process.happened = chrome[p].happened, process.givenUp = chrome[p].givenUp,
         process.up => chrome[p].up, chrome[p].proven => process.proven,
         process.guarded => PageOf(chrome[p]), r.kind = "check" /\ ok => process.proven
  PROVE  SessionInv'
<1> DEFINE y == chrome[p]
           a == [id |-> r.id, ok |-> ok, events |-> y.waiting]
           h == IF process.up THEN y.handles \ {r} ELSE {}
           x == [process EXCEPT !.handles = h, !.waiting = {}, !.out = Append(y.out, a)]
<1>1. chrome' = [chrome EXCEPT ![p] = x]
  BY DEF Write, EventsLeft
<1>2. /\ y \in ProcessTypes /\ y.out \in Seq(AnswerTypes) /\ ProcessKept(y) /\ Reported(y, recorded)
      /\ p = driver.process => DrivenKept(driver, y)
  BY ProcessIs
<1>3. a \in AnswerTypes /\ a.events = y.waiting /\ a.id = r.id /\ a.ok = ok
  BY <1>2 DEF AnswerTypes, ProcessTypes, Lines
<1>4. h \subseteq y.handles /\ r \notin h /\ (~process.up => h = {})
  OBVIOUS
<1> HIDE DEF a, h
<1>5. Append(y.out, a) \in Seq(AnswerTypes)
  BY <1>2, <1>3, AppendProperties
<1>6. /\ x \in ProcessTypes /\ x.handles = h /\ x.waiting = {} /\ x.out = Append(y.out, a)
      /\ x.up = process.up /\ x.guarded = process.guarded /\ x.proven = process.proven
      /\ x.happened = y.happened /\ x.givenUp = y.givenUp
  BY <1>2, <1>4, <1>5 DEF ProcessTypes
<1> HIDE DEF x
<1>7. PageOf(x) => PageOf(y)
  BY <1>4, <1>6 DEF PageOf
<1>8. ProcessKept(x)
  BY <1>2, <1>4, <1>6, <1>7 DEF ProcessKept
<1>9. Reported(x, recorded)
  BY <1>2, <1>3, <1>6, ReportedWritten
<1>10. ASSUME p = driver.process PROVE DrivenKept(driver, x)
  <2>1. DrivenKept(driver, y)
    BY <1>2, <1>10
  <2>2. ASSUME ~x.givenUp PROVE InStep(driver.call, x)
    <3>1. InStep(driver.call, y) /\ y.handles # {}
      BY <1>6, <2>1, <2>2 DEF DrivenKept
    <3>2. y.out = <<>> /\ driver.call # Idle /\ r = driver.call /\ y.handles = {r}
      BY <3>1 DEF InStep
    <3>3. Len(x.out) = 1 /\ x.out[1] = a
      BY <1>2, <1>3, <1>6, <3>2, AppendProperties, EmptySeq
    <3>4. h = {}
      BY <1>4, <3>2
    <3> QED BY <1>3, <1>6, <3>2, <3>3, <3>4 DEF InStep
  <2> QED BY <1>6, <2>1, <2>2 DEF DrivenKept
<1>11. browserFaults' \in 0..MaxBrowserFaults
  BY SessionIsTyped
<1> QED BY <1>1, <1>6, <1>7, <1>8, <1>9, <1>10, <1>11, ProcessMoves

(* A line is handled to its end.                                           *)
LEMMA NodeAnswersKeepsInv ==
  ASSUME SessionInv, NEW p \in 1..Len(chrome), NodeAnswers(p)
  PROVE  SessionInv'
<1>1. PICK r \in chrome[p].handles : AnswerStartup(p, r) \/ AnswerOperation(p, r) \/ AnswerClose(p, r)
  BY DEF NodeAnswers
<1>2. UNCHANGED <<driver, recorded, browserFaults, pageEvents>> /\ chrome[p].up
  BY DEF NodeAnswers
<1>3. chrome[p] \in ProcessTypes
  BY ProcessIs
<1>4. chrome[p].guarded => PageOf(chrome[p])
  BY DEF PageOf
<1>5. CASE AnswerStartup(p, r)
  <2> DEFINE x == [chrome[p] EXCEPT !.proven = @ \/ r.kind = "check"]
             z(up) == [chrome[p] EXCEPT !.up = up]
  <2>1. \/ Write(p, r, TRUE, x)
        \/ \E up \in BOOLEAN : Write(p, r, FALSE, z(up))
    BY <1>5 DEF AnswerStartup
  <2>2. CASE Write(p, r, TRUE, x)
    <3>1. /\ x \in ProcessTypes /\ x.handles = chrome[p].handles /\ x.out = chrome[p].out
          /\ x.happened = chrome[p].happened /\ x.givenUp = chrome[p].givenUp /\ x.up = chrome[p].up
          /\ x.guarded = chrome[p].guarded /\ x.proven = (chrome[p].proven \/ r.kind = "check")
      BY <1>3 DEF ProcessTypes
    <3> HIDE DEF x
    <3> QED BY <1>2, <1>4, <2>2, <3>1, WriteKeepsInv
  <2>3. CASE \E up \in BOOLEAN : Write(p, r, FALSE, z(up))
    <3>1. PICK up \in BOOLEAN : Write(p, r, FALSE, z(up))
      BY <2>3
    <3> DEFINE w == z(up)
    <3>2. /\ w \in ProcessTypes /\ w.handles = chrome[p].handles /\ w.out = chrome[p].out
          /\ w.happened = chrome[p].happened /\ w.givenUp = chrome[p].givenUp /\ w.proven = chrome[p].proven
          /\ w.guarded = chrome[p].guarded
      BY <1>3 DEF ProcessTypes
    <3>3. Write(p, r, FALSE, w)
      BY <3>1
    <3> HIDE DEF w
    <3> QED BY <1>2, <1>4, <3>2, <3>3, WriteKeepsInv
  <2> QED BY <2>1, <2>2, <2>3
<1>6. CASE AnswerOperation(p, r)
  <2> DEFINE x == [chrome[p] EXCEPT !.guarded = TRUE]
  <2>1. PICK ok \in BOOLEAN : Write(p, r, ok, x)
    BY <1>6 DEF AnswerOperation
  <2>2. r.kind = "op" /\ PageOf(chrome[p])
    BY <1>6 DEF AnswerOperation, PageOf
  <2>3. /\ x \in ProcessTypes /\ x.handles = chrome[p].handles /\ x.out = chrome[p].out
        /\ x.happened = chrome[p].happened /\ x.givenUp = chrome[p].givenUp /\ x.proven = chrome[p].proven
    BY <1>3 DEF ProcessTypes
  <2> HIDE DEF x
  <2> QED BY <1>2, <2>1, <2>2, <2>3, WriteKeepsInv
<1>7. CASE AnswerClose(p, r)
  <2> DEFINE x == [chrome[p] EXCEPT !.up = FALSE]
  <2>1. r.kind = "close" /\ Write(p, r, TRUE, x)
    BY <1>7 DEF AnswerClose
  <2>2. /\ x \in ProcessTypes /\ x.handles = chrome[p].handles /\ x.out = chrome[p].out /\ ~x.up
        /\ x.happened = chrome[p].happened /\ x.givenUp = chrome[p].givenUp /\ x.proven = chrome[p].proven
        /\ x.guarded = chrome[p].guarded
    BY <1>3 DEF ProcessTypes
  <2> HIDE DEF x
  <2> QED BY <1>2, <1>4, <2>1, <2>2, WriteKeepsInv
<1> QED BY <1>1, <1>5, <1>6, <1>7

(* The context is opened for an operation.                                 *)
LEMMA OpenContextKeepsInv ==
  ASSUME SessionInv, NEW p \in 1..Len(chrome), OpenContext(p)
  PROVE  SessionInv'
<1> DEFINE x == [chrome[p] EXCEPT !.guarded = TRUE]
<1>1. /\ chrome' = [chrome EXCEPT ![p] = x] /\ UNCHANGED <<driver, recorded, browserFaults, pageEvents>>
      /\ PageOf(chrome[p]) /\ chrome[p] \in ProcessTypes
  BY ProcessIs DEF OpenContext, PageOf
<1>2. /\ x \in ProcessTypes /\ x.up = chrome[p].up /\ x.proven = chrome[p].proven
      /\ x.handles = chrome[p].handles /\ x.out = chrome[p].out /\ x.happened = chrome[p].happened
      /\ x.waiting = chrome[p].waiting /\ x.givenUp = chrome[p].givenUp
  BY <1>1 DEF ProcessTypes
<1> HIDE DEF x
<1>3. ProcessKept(x)
  BY <1>1, <1>2, ProcessIs DEF ProcessKept
<1>4. Reported(x, recorded)
  BY <1>2, ProcessIs, ReportedStays
<1>5. p = driver.process => DrivenKept(driver, x)
  BY <1>2, ProcessIs DEF DrivenKept, InStep
<1>6. browserFaults' \in 0..MaxBrowserFaults
  BY <1>1, SessionIsTyped
<1> QED BY <1>1, <1>2, <1>3, <1>4, <1>5, <1>6, ProcessMoves

(* A process dies with what it was handling.                               *)
LEMMA ExitKeepsInv ==
  ASSUME SessionInv, NEW p \in 1..Len(chrome), Exit(p)
  PROVE  SessionInv'
<1> DEFINE x == [chrome[p] EXCEPT !.up = FALSE, !.handles = {}]
<1>1. /\ chrome' = [chrome EXCEPT ![p] = x] /\ UNCHANGED <<driver, recorded, pageEvents>>
      /\ browserFaults < MaxBrowserFaults /\ browserFaults' = browserFaults + 1
      /\ chrome[p] \in ProcessTypes
  BY ProcessIs DEF Exit
<1>2. /\ x \in ProcessTypes /\ ~x.up /\ x.handles = {} /\ x.proven = chrome[p].proven
      /\ x.out = chrome[p].out /\ x.happened = chrome[p].happened /\ x.guarded = chrome[p].guarded
      /\ x.waiting = chrome[p].waiting /\ x.givenUp = chrome[p].givenUp
  BY <1>1 DEF ProcessTypes
<1> HIDE DEF x
<1>3. ProcessKept(x) /\ (PageOf(x) => PageOf(chrome[p]))
  BY <1>1, <1>2, ProcessIs DEF ProcessKept, PageOf
<1>4. Reported(x, recorded)
  BY <1>2, ProcessIs, ReportedStays
<1>5. p = driver.process => DrivenKept(driver, x)
  BY <1>2, ProcessIs DEF DrivenKept, InStep
<1>6. browserFaults' \in 0..MaxBrowserFaults
  BY <1>1, SessionIsTyped, BrowserAssumption
<1> QED BY <1>1, <1>2, <1>3, <1>4, <1>5, <1>6, ProcessMoves

(* A denial or a download is noted: nothing has told of it before.         *)
LEMMA NoteKeepsInv ==
  ASSUME SessionInv, NEW p \in 1..Len(chrome), Note(p)
  PROVE  SessionInv'
<1> DEFINE y == chrome[p]
           e == pageEvents + 1
           x == [y EXCEPT !.happened = @ \cup {e}, !.waiting = @ \cup {e}]
<1>1. /\ chrome' = [chrome EXCEPT ![p] = x] /\ driver' = driver /\ recorded' = recorded
      /\ browserFaults' = browserFaults /\ pageEvents < MaxPageEvents /\ pageEvents' = e /\ y.guarded
  BY DEF Note
<1>2. /\ pageEvents \in Nat /\ recorded \subseteq 1..pageEvents /\ y.happened \subseteq 1..pageEvents
      /\ driver \in DriverTypes /\ browserFaults \in 0..MaxBrowserFaults
  BY SessionIsTyped
<1>3. e \in Nat /\ e > pageEvents /\ e \in 0..MaxPageEvents /\ e \notin recorded /\ e \notin y.happened
      /\ 1..pageEvents \subseteq 1..e /\ e \in 1..e
  BY <1>1, <1>2, BrowserAssumption
<1>4. y \in ProcessTypes /\ Reported(y, recorded) /\ ProcessKept(y) /\ p # 0
  BY ProcessIs
<1> HIDE DEF e
<1>5. /\ x \in ProcessTypes /\ x.up = y.up /\ x.proven = y.proven /\ x.guarded = y.guarded
      /\ x.handles = y.handles /\ x.out = y.out /\ x.givenUp = y.givenUp
      /\ x.happened = y.happened \cup {e} /\ x.waiting = y.waiting \cup {e}
  BY <1>3, <1>4 DEF ProcessTypes
<1> HIDE DEF x
<1>6. ProcessKept(x) /\ (PageOf(x) => PageOf(y))
  BY <1>4, <1>5 DEF ProcessKept, PageOf
<1>7. Reported(x, recorded)
  <2>1. \A i \in 1..Len(y.out) : e \notin y.out[i].events
    BY <1>3, <1>4 DEF Reported
  <2> HIDE DEF y
  <2> QED BY <1>3, <1>4, <1>5, <2>1 DEF Reported
<1>8. p = driver.process => DrivenKept(driver, x)
  BY <1>5, ProcessIs DEF DrivenKept, InStep
<1>9. PageOf(x) => driver.posture /\ (x.up => p = driver.process)
  BY <1>5, <1>6, ProcessIs
<1>10. y.happened \subseteq x.happened /\ x.happened \subseteq 1..e
  BY <1>2, <1>3, <1>5
<1>11. \A d \in x.happened : d \in y.happened \/ d > pageEvents
  BY <1>3, <1>5
<1>12. pageEvents <= e
  BY <1>2, <1>3
<1>13. /\ DrivenKept(driver', x) \/ driver'.process # p
       /\ Reported(x, recorded') /\ x.happened \subseteq 1..pageEvents' /\ pageEvents <= pageEvents'
       /\ pageEvents' \in 0..MaxPageEvents /\ browserFaults' \in 0..MaxBrowserFaults
       /\ driver' \in DriverTypes /\ recorded \subseteq recorded' /\ recorded' \ recorded = {}
  BY <1>1, <1>2, <1>3, <1>7, <1>8, <1>10, <1>12
<1>14. /\ driver'.process = driver.process /\ (driver.posture => driver'.posture)
       /\ PageOf(x) => driver'.posture /\ (x.up => p = driver'.process)
       /\ driver'.process = p => DrivenKept(driver', x) /\ p # 0
  BY <1>1, <1>4, <1>8, <1>9
<1> HIDE DEF y
<1>15. chrome[p].happened \subseteq x.happened /\ \A d \in x.happened : d \in chrome[p].happened \/ d > pageEvents
  BY <1>10, <1>11 DEF y
<1> QED BY <1>1, <1>2, <1>5, <1>6, <1>13, <1>14, <1>15, OneProcessMoves

(* Every step keeps the invariant.                                         *)
LEMMA SessionStepInv == SessionInv /\ [BrowserNext]_browserVars => SessionInv'
<1> SUFFICES ASSUME SessionInv, [BrowserNext]_browserVars PROVE SessionInv'
  OBVIOUS
<1>1. CASE Launch
  BY <1>1, LaunchKeepsInv
<1>2. CASE Operate
  <2>1. /\ driver.call = Idle /\ driver.posture /\ driver.process # 0 /\ Ask("op")
        /\ UNCHANGED <<recorded, browserFaults, pageEvents>>
    BY <1>2 DEF Operate, PostureHeld
  <2> QED BY <2>1, AskKeepsInv
<1>3. CASE Close
  <2>1. /\ driver.call = Idle /\ driver.process # 0
        /\ Ask("close") \/ Reap
        /\ UNCHANGED <<recorded, browserFaults, pageEvents>>
    BY <1>3 DEF Close
  <2>2. CASE Ask("close")
    BY <2>1, <2>2, AskKeepsInv
  <2>3. CASE Reap
    BY <2>1, <2>3, SessionIsTyped, ReapKeepsInv
  <2> QED BY <2>1, <2>2, <2>3
<1>4. CASE Receive \/ GiveUp \/ Break
  BY <1>4, ReceiveKeepsInv, GiveUpKeepsInv, BreakKeepsInv
<1>5. CASE \E p \in Launched : NodeAnswers(p) \/ OpenContext(p) \/ Note(p) \/ Exit(p)
  <2>1. PICK p \in 1..Len(chrome) : NodeAnswers(p) \/ OpenContext(p) \/ Note(p) \/ Exit(p)
    BY <1>5 DEF Launched
  <2> QED BY <2>1, NodeAnswersKeepsInv, OpenContextKeepsInv, NoteKeepsInv, ExitKeepsInv
<1>6. CASE UNCHANGED browserVars
  BY <1>6 DEF browserVars, SessionInv, BrowserStates
<1> QED BY <1>1, <1>2, <1>3, <1>4, <1>5, <1>6 DEF BrowserNext

-----------------------------------------------------------------------------
(* A sequence of elements of a set.                                        *)
LEMMA SeqOfElements ==
  ASSUME NEW S, NEW T, NEW s \in Seq(S), \A i \in 1..Len(s) : s[i] \in T
  PROVE  s \in Seq(T)
<1>1. Len(s) \in Nat /\ s \in [1..Len(s) -> T]
  BY LenProperties
<1> QED BY <1>1, SeqDef

(* The invariant is what the properties need.                              *)
LEMMA SessionInvSafe == SessionInv => BrowserSafe
<1> SUFFICES ASSUME SessionInv PROVE BrowserSafe
  OBVIOUS
<1> DEFINE now == 1..pageEvents
           A == [id : 0..MaxBrowserCalls, ok : BOOLEAN, events : SUBSET now]
           P == [up : BOOLEAN, proven : BOOLEAN, guarded : BOOLEAN, handles : SUBSET Lines, out : Seq(A),
                 happened : SUBSET now, waiting : SUBSET now, givenUp : BOOLEAN]
<1>1. ASSUME NEW p \in 1..Len(chrome) PROVE chrome[p] \in P
  <2> DEFINE y == chrome[p]
  <2>1. y \in ProcessTypes /\ y.out \in Seq(AnswerTypes) /\ Reported(y, recorded) /\ y.happened \subseteq now
    BY ProcessIs, SessionIsTyped
  <2> HIDE DEF y, now
  <2>2. \A i \in 1..Len(y.out) : y.out[i] \in A
    <3> SUFFICES ASSUME NEW i \in 1..Len(y.out) PROVE y.out[i] \in A
      OBVIOUS
    <3>1. y.out[i] \in AnswerTypes
      BY <2>1, ElementOfSeq
    <3>2. y.out[i].events \subseteq now
      BY <2>1 DEF Reported
    <3> QED BY <3>1, <3>2 DEF AnswerTypes
  <2>3. y.out \in Seq(A)
    BY <2>1, <2>2, SeqOfElements
  <2>4. y.waiting \subseteq now
    BY <2>1 DEF Reported
  <2> HIDE DEF A
  <2>5. y \in P
    BY <2>1, <2>3, <2>4 DEF ProcessTypes
  <2> QED BY <2>5 DEF y
<1>2. BrowserTypeOK
  <2>1. chrome \in Seq(P)
    <3>1. chrome \in Seq(ProcessTypes)
      BY DEF SessionInv, BrowserStates
    <3> HIDE DEF P
    <3> QED BY <1>1, <3>1, SeqOfElements
  <2>2. driver.process \in 0..Len(chrome)
    BY ProcessesAreTyped DEF SessionInv, BrowserStates, DriverTypes
  <2>3. driver \in [process : 0..Len(chrome), posture : BOOLEAN, next : 0..MaxBrowserCalls,
                    call : Lines \cup {Idle}]
    BY <2>2, SessionIsTyped DEF DriverTypes
  <2> QED BY <2>1, <2>3, SessionIsTyped DEF BrowserTypeOK
<1>3. ProvenBeforeUse
  BY ProcessIs DEF ProvenBeforeUse, Launched, ProcessKept, PageOf
<1>4. UsedIsDriven
  BY ProcessIs DEF UsedIsDriven, Launched, PageOf
<1>5. ReportedOnce
  <2> SUFFICES ASSUME NEW p \in 1..Len(chrome)
               PROVE  /\ chrome[p].waiting \cap (EventsOut(p) \cup recorded) = {}
                      /\ EventsOut(p) \cap recorded = {}
                      /\ \A i, j \in DOMAIN chrome[p].out :
                           i # j => chrome[p].out[i].events \cap chrome[p].out[j].events = {}
                      /\ chrome[p].up => chrome[p].happened =
                           chrome[p].waiting \cup EventsOut(p) \cup (chrome[p].happened \cap recorded)
    BY DEF ReportedOnce, Launched
  <2> DEFINE y == chrome[p]
             O == EventsOut(p)
  <2>1. Reported(y, recorded) /\ DOMAIN y.out = 1..Len(y.out)
    BY ProcessIs, ProcessesAreTyped
  <2>2. O = UNION {y.out[i].events : i \in 1..Len(y.out)}
    BY <2>1 DEF EventsOut
  <2>3. \A e : e \in O <=> \E i \in 1..Len(y.out) : e \in y.out[i].events
    BY <2>2
  <2> HIDE DEF y, O
  <2>4. y.waiting \cap (O \cup recorded) = {} /\ O \cap recorded = {}
    BY <2>1, <2>3 DEF Reported
  <2>5. \A i, j \in DOMAIN y.out : i # j => y.out[i].events \cap y.out[j].events = {}
    BY <2>1 DEF Reported
  <2>6. y.up => y.happened = y.waiting \cup O \cup (y.happened \cap recorded)
    BY <2>1, <2>3 DEF Reported
  <2> QED BY <2>4, <2>5, <2>6 DEF y, O
<1>6. AnswersOwnRequest
  <2> SUFFICES ASSUME NEW p \in 1..Len(chrome), p = driver.process, ~chrome[p].givenUp,
                      NEW i \in DOMAIN chrome[p].out
               PROVE  driver.call # Idle /\ chrome[p].out[i].id = driver.call.id
    BY DEF AnswersOwnRequest, Launched
  <2>1. InStep(driver.call, chrome[p]) /\ i \in 1..Len(chrome[p].out)
    BY ProcessIs, ProcessesAreTyped DEF DrivenKept
  <2>2. chrome[p].out # <<>> /\ (Len(chrome[p].out) = 1 => i = 1)
    BY <2>1, EmptySeq, ProcessIs
  <2> QED BY <2>1, <2>2 DEF InStep
<1> QED BY <1>2, <1>3, <1>4, <1>5, <1>6 DEF BrowserSafe

(* Whatever is given up, dies or is started again: no page is opened in a  *)
(* process that has not proven its sandbox or is not the one the session   *)
(* drives, every denial and download is reported once, and a call gets     *)
(* its own answer unless an earlier one was given up                       *)
(* (PlaywrightBrowserSession, browser_worker.mjs).                         *)
THEOREM BrowserSafety == BrowserSpec => []BrowserSafe
<1>1. BrowserInit => SessionInv
  BY SessionInitInv
<1>2. SessionInv /\ [BrowserNext]_browserVars => SessionInv'
  BY SessionStepInv
<1>3. SessionInv => BrowserSafe
  BY SessionInvSafe
<1> QED BY <1>1, <1>2, <1>3, PTL DEF BrowserSpec
=============================================================================
