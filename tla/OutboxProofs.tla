---------------------------- MODULE OutboxProofs ----------------------------
(***************************************************************************)
(* Outbox: what a stream tells and what a browser reads, for any number of *)
(* browsers, events, open transactions, lost connections and restores.     *)
(*                                                                         *)
(* The invariant follows one event that is visible in order.  A fetched    *)
(* batch has no hole (stream_job_events returns the next events in order), *)
(* the frames under way ascend, so a frame that arrives leaves no earlier  *)
(* one behind, and what the browser has heard up to its Last-Event-ID it   *)
(* has heard completely: that is why a reconnect may begin there.          *)
(*                                                                         *)
(* The stream also implements EventFeed for every browser: each step is a  *)
(* step of the feed or leaves it alone (FeedStep), since what is under way *)
(* comes after all the browser has got (IdBehind).                         *)
(***************************************************************************)
EXTENDS Outbox, SequenceTheorems, FiniteSetTheorems, WellFoundedInduction, TLAPS

(* The events that became visible in the order of seq.                     *)
InOrder == committed \ late

NumbersGiven == committed \subseteq 1..lastSeq

ClosedIsEmpty(b) == ~conn[b] => batch[b] = {} /\ wire[b] = <<>>

(* What a connection holds or a browser has got is committed.              *)
OnlyCommitted(b) == got[b] \subseteq committed /\ batch[b] \subseteq committed

(* The frames under way ascend, none beyond the cursor.                    *)
WireAscends(b) ==
  \A i \in 1..Len(wire[b]) :
    /\ wire[b][i] \in committed \cup {Gap} /\ wire[b][i] <= cursor[b]
    /\ \A j \in 1..Len(wire[b]) : i < j => wire[b][i] < wire[b][j]

(* A batch lies ahead of the cursor and has no hole.                       *)
BatchIsWhole(b) ==
  \A m \in batch[b] :
    m > cursor[b] /\ \A t \in InOrder : cursor[b] < t /\ t < m => t \in batch[b]

(* What lies before an event the browser could resume from, it has got.    *)
HeardUpTo(b) ==
  lastId[b] \in got[b] => \A s \in InOrder : start[b] < s /\ s <= lastId[b] => s \in got[b]

(* The conjunct of NothingSkipped.                                         *)
SkipsNothing(b) ==
  conn[b] => \A s \in InOrder : start[b] < s /\ s <= cursor[b] => s \in Told(b)

WithinTable(b) == conn[b] => cursor[b] <= MaxCommitted

(* A read that will be answered, or was, covers every event received.      *)
ReadsCover(b) == reads[b].asked > 0 \/ \A s \in got[b] : s \in seen[b] \/ \E a \in reads[b].answers : s \in a

BrowserInv(b) ==
  /\ ClosedIsEmpty(b) /\ OnlyCommitted(b) /\ WireAscends(b) /\ BatchIsWhole(b)
  /\ HeardUpTo(b) /\ SkipsNothing(b) /\ WithinTable(b) /\ ReadsCover(b)

ReadSet == [asked : 0..MaxReads, answers : SUBSET SUBSET Seqs]

TableOK ==
  /\ lastSeq \in 0..MaxSeq /\ open \subseteq 1..lastSeq \ committed
  /\ committed \subseteq Seqs /\ late \subseteq committed
  /\ NumbersGiven

ServerOK ==
  /\ conn \in [Browsers -> BOOLEAN]
  /\ cursor \in [Browsers -> 0..MaxSeq] /\ batch \in [Browsers -> SUBSET Seqs]
  /\ wire \in [Browsers -> Seq(0..MaxSeq)]

BrowsersOK ==
  /\ lastId \in [Browsers -> 0..MaxSeq] /\ start \in [Browsers -> 0..MaxSeq]
  /\ got \in [Browsers -> SUBSET Seqs] /\ view \in [Browsers -> SUBSET Seqs]
  /\ seen \in [Browsers -> SUBSET Seqs] /\ reads \in [Browsers -> ReadSet]

Types == TableOK /\ ServerOK /\ BrowsersOK /\ faults \in 0..MaxFaults

OutboxInv == Types /\ \A b \in Browsers : BrowserInv(b)

-----------------------------------------------------------------------------
(* The least and the greatest of a set of numbers.                         *)

LEMMA LeastNat ==
  ASSUME NEW S, S \subseteq Nat, S # {}
  PROVE  \E x \in S : \A y \in S : x <= y
<1> DEFINE R == OpToRel(<, Nat)
<1>1. IsWellFoundedOn(R, Nat)
  BY NatLessThanWellFounded
<1>2. \A x, y \in Nat : y < x => <<y, x>> \in R
  BY DEF OpToRel
<1> HIDE DEF R
<1>3. PICK x \in S : \A y \in S : ~(<<y, x>> \in R)
  BY <1>1, WFMin
<1>4. \A y \in S : ~(y < x)
  BY <1>2, <1>3
<1> QED BY <1>3, <1>4

LEMMA MinIs ==
  ASSUME NEW S, S \subseteq Seqs, S # {}
  PROVE  Min(S) \in S /\ \A y \in S : Min(S) <= y
<1>1. S \subseteq Nat
  BY BoundsAssumption DEF Seqs
<1>2. \E x \in S : \A y \in S : x <= y
  BY <1>1, LeastNat
<1> QED BY <1>2 DEF Min

LEMMA MaxIs ==
  ASSUME NEW S, S \subseteq 0..MaxSeq, S # {}
  PROVE  Max(S) \in S /\ \A y \in S : Max(S) >= y
<1> DEFINE T == {MaxSeq - x : x \in S}
<1>1. T \subseteq Nat /\ T # {}
  <2>1. \A x \in S : MaxSeq - x \in Nat
    BY BoundsAssumption
  <2> QED BY <2>1
<1>2. PICK z \in T : \A y \in T : z <= y
  BY <1>1, LeastNat
<1>3. PICK x \in S : z = MaxSeq - x
  BY <1>2
<1>4. \A y \in S : MaxSeq - x <= MaxSeq - y
  BY <1>2, <1>3
<1>5. \A y \in S : x >= y
  BY <1>4, BoundsAssumption
<1> QED BY <1>5 DEF Max

(* max_job_event_seq.                                                      *)
LEMMA MaxCommittedIs ==
  ASSUME NEW C, C \subseteq Seqs
  PROVE  /\ Max(C \cup {0}) \in 0..MaxSeq /\ Max(C \cup {0}) \in C \cup {0}
         /\ \A s \in C : s <= Max(C \cup {0})
<1>1. C \cup {0} \subseteq 0..MaxSeq
  BY BoundsAssumption DEF Seqs
<1>2. Max(C \cup {0}) \in C \cup {0} /\ \A y \in C \cup {0} : Max(C \cup {0}) >= y
  BY <1>1, MaxIs
<1> QED BY <1>1, <1>2 DEF Seqs

LEMMA TopOf ==
  ASSUME TableOK
  PROVE  /\ MaxCommitted \in 0..MaxSeq /\ MaxCommitted \in committed \cup {0}
         /\ \A s \in committed : s <= MaxCommitted
BY MaxCommittedIs DEF TableOK, MaxCommitted

(* stream_job_events returns the next events, without a hole.              *)
LEMMA StreamIs ==
  ASSUME TableOK, NEW c \in 0..MaxSeq
  PROVE  /\ Stream(c) \subseteq committed
         /\ \A m \in Stream(c) : m > c /\ \A t \in committed : c < t /\ t < m => t \in Stream(c)
<1> DEFINE new == {s \in committed : s > c}
           before(m) == {t \in new : t < m}
<1>1. IsFiniteSet(new)
  <2>1. IsFiniteSet(1..MaxSeq)
    BY FS_Interval, BoundsAssumption
  <2>2. new \subseteq 1..MaxSeq
    BY DEF TableOK, Seqs
  <2> QED BY <2>1, <2>2, FS_Subset
<1>2. Stream(c) = {s \in new : Cardinality(before(s)) < Limit}
  BY DEF Stream
<1>3. ASSUME NEW m \in Stream(c), NEW t \in committed, c < t, t < m
      PROVE  t \in Stream(c)
  <2>1. before(t) \subseteq before(m)
    <3> SUFFICES ASSUME NEW u \in new, u < t PROVE u < m
      OBVIOUS
    <3>1. u \in Nat /\ t \in Nat /\ m \in Nat
      <4>1. committed \subseteq Nat
        BY BoundsAssumption DEF TableOK, Seqs
      <4>2. m \in committed /\ t \in committed /\ u \in committed
        BY <1>2, <1>3
      <4> QED BY <4>1, <4>2
    <3> HIDE DEF new
    <3> QED BY <1>3, <3>1
  <2>2. IsFiniteSet(before(m)) /\ IsFiniteSet(before(t))
    BY <1>1, FS_Subset
  <2>3. Cardinality(before(t)) <= Cardinality(before(m))
    BY <2>1, <2>2, FS_Subset
  <2>4. Cardinality(before(t)) \in Nat /\ Cardinality(before(m)) \in Nat /\ Limit \in Nat
    BY <2>2, FS_CardinalityType, LimitAssumption
  <2>5. Cardinality(before(m)) < Limit /\ t \in new
    BY <1>2, <1>3
  <2> HIDE DEF new, before
  <2>6. Cardinality(before(t)) < Limit
    BY <2>3, <2>4, <2>5
  <2> QED BY <1>2, <2>5, <2>6
<1> QED BY <1>2, <1>3

-----------------------------------------------------------------------------
(* Types.                                                                  *)

LEMMA Empties ==
  /\ NoReads \in ReadSet /\ [NoReads EXCEPT !.asked = 1] \in ReadSet
  /\ 0 \in 0..MaxSeq /\ <<>> \in Seq(0..MaxSeq)
BY BoundsAssumption DEF NoReads, ReadSet

LEMMA InitInv == Init => OutboxInv
<1> SUFFICES ASSUME Init PROVE OutboxInv
  OBVIOUS
<1>1. TableOK /\ faults \in 0..MaxFaults
  BY BoundsAssumption DEF Init, TableOK, NumbersGiven
<1>2. ServerOK
  BY Empties DEF Init, ServerOK
<1>3. BrowsersOK
  BY Empties DEF Init, BrowsersOK
<1>4. ASSUME NEW b \in Browsers PROVE BrowserInv(b)
  <2>1. conn[b] = FALSE /\ batch[b] = {} /\ wire[b] = <<>> /\ got[b] = {}
    BY DEF Init
  <2>2. ClosedIsEmpty(b) /\ OnlyCommitted(b) /\ BatchIsWhole(b) /\ HeardUpTo(b) /\ SkipsNothing(b)
    BY <2>1 DEF ClosedIsEmpty, OnlyCommitted, BatchIsWhole, HeardUpTo, SkipsNothing
  <2>3. WireAscends(b)
    BY <2>1 DEF WireAscends
  <2>4. WithinTable(b) /\ ReadsCover(b)
    BY <2>1 DEF WithinTable, ReadsCover
  <2> QED BY <2>2, <2>3, <2>4 DEF BrowserInv
<1> QED BY <1>1, <1>2, <1>3, <1>4 DEF OutboxInv, Types

(* The reads of a browser, before and after each thing done to them.       *)
LEMMA ReadsTyped ==
  ASSUME Types, NEW b \in Browsers
  PROVE  /\ reads[b] \in ReadSet /\ reads[b].asked \in Nat
         /\ Resync(b) => reads' \in [Browsers -> ReadSet]
<1>1. reads[b] \in ReadSet /\ reads \in [Browsers -> ReadSet]
  BY DEF Types, BrowsersOK
<1>2. reads[b].asked \in Nat /\ reads[b].asked \in 0..MaxReads /\ reads[b].answers \in SUBSET SUBSET Seqs
  BY <1>1, BoundsAssumption DEF ReadSet
<1>3. IsFiniteSet(Seqs)
  BY FS_Interval, BoundsAssumption DEF Seqs
<1>4. IsFiniteSet(SUBSET Seqs)
  BY <1>3, FS_SUBSET
<1>5. Cardinality(reads[b].answers) \in Nat
  BY <1>2, <1>4, FS_Subset, FS_CardinalityType
<1>6. ASSUME Resync(b) PROVE reads' \in [Browsers -> ReadSet]
  <2> DEFINE n == Cardinality(reads[b].answers)
             a == reads[b].asked
  <2>1. a + n < MaxReads /\ reads' = [reads EXCEPT ![b].asked = @ + 1]
    BY <1>6 DEF Resync, ReadsInFlight
  <2>2. a + 1 \in 0..MaxReads
    <3>1. a \in Nat /\ n \in Nat /\ MaxReads \in Nat
      BY <1>2, <1>5, BoundsAssumption
    <3> HIDE DEF a, n
    <3> QED BY <2>1, <3>1
  <2>3. [reads[b] EXCEPT !.asked = a + 1] \in ReadSet
    BY <1>1, <2>2 DEF ReadSet
  <2> QED BY <1>1, <2>1, <2>3
<1> QED BY <1>1, <1>2, <1>6

(* What one browser's properties depend on.                                *)
State(b) == <<conn[b], cursor[b], batch[b], wire[b], lastId[b], start[b], got[b], seen[b], reads[b]>>

LEMMA OtherBrowser ==
  ASSUME NEW b \in Browsers, BrowserInv(b), UNCHANGED table, UNCHANGED State(b)
  PROVE  BrowserInv(b)'
<1>1. /\ UNCHANGED <<conn[b], cursor[b], batch[b], wire[b], lastId[b], start[b], got[b], seen[b], reads[b]>>
      /\ UNCHANGED <<committed, late>>
  BY DEF State, table
<1>2. ClosedIsEmpty(b)' /\ OnlyCommitted(b)' /\ WireAscends(b)'
  BY <1>1 DEF BrowserInv, ClosedIsEmpty, OnlyCommitted, WireAscends
<1>3. BatchIsWhole(b)' /\ HeardUpTo(b)' /\ WithinTable(b)' /\ ReadsCover(b)'
  BY <1>1 DEF BrowserInv, BatchIsWhole, HeardUpTo, InOrder, WithinTable, MaxCommitted, ReadsCover
<1>4. SkipsNothing(b)'
  BY <1>1 DEF BrowserInv, SkipsNothing, InOrder, Told
<1> QED BY <1>2, <1>3, <1>4 DEF BrowserInv

-----------------------------------------------------------------------------
(* The table.                                                              *)

(* An event that becomes visible in order comes after every other.         *)
LEMMA CommitInv ==
  ASSUME OutboxInv, NEW x \in Seqs, Commit(x)
  PROVE  OutboxInv'
<1>1. /\ x \in open /\ committed' = committed \cup {x} /\ open' = open \ {x}
      /\ late' = IF x < MaxCommitted THEN late \cup {x} ELSE late
      /\ UNCHANGED <<lastSeq, conn, server, wire, lastId, start, got, store, faults>>
  BY DEF Commit
<1>2. TableOK
  BY DEF OutboxInv, Types
<1>3. TableOK'
  BY <1>1, <1>2 DEF TableOK, NumbersGiven, Seqs
<1>4. Types'
  BY <1>1, <1>3 DEF OutboxInv, Types, ServerOK, BrowsersOK, server, store
<1>5. \A t \in InOrder' : t \in InOrder \/ (t = x /\ \A s \in committed : s < t)
  <2> SUFFICES ASSUME x \in InOrder', NEW s \in committed PROVE s < x
    BY <1>1 DEF InOrder
  <2>1. x \notin committed /\ x \in Int /\ s \in Int
    BY <1>1, <1>2, BoundsAssumption DEF TableOK, Seqs
  <2>2. ~(x < MaxCommitted)
    BY <1>1 DEF InOrder
  <2>3. s <= MaxCommitted /\ MaxCommitted \in committed \cup {0} /\ MaxCommitted \in Int
    BY <1>2, TopOf, BoundsAssumption
  <2> QED BY <2>1, <2>2, <2>3
<1>6. ASSUME NEW b \in Browsers PROVE BrowserInv(b)'
  <2>1. BrowserInv(b)
    BY DEF OutboxInv
  <2>2. UNCHANGED State(b)
    BY <1>1 DEF State, server, store
  <2>3. ClosedIsEmpty(b)' /\ OnlyCommitted(b)' /\ ReadsCover(b)'
    BY <1>1, <2>1, <2>2 DEF BrowserInv, ClosedIsEmpty, OnlyCommitted, ReadsCover, State
  <2>4. WireAscends(b)'
    BY <1>1, <2>1, <2>2 DEF BrowserInv, WireAscends, State
  <2>5. MaxCommitted <= MaxCommitted'
    <3>1. MaxCommitted \in committed \cup {0} /\ MaxCommitted \in Int
      BY <1>2, TopOf, BoundsAssumption
    <3>2. /\ MaxCommitted' \in Int /\ MaxCommitted' >= 0
          /\ \A s \in committed' : s <= MaxCommitted'
      <4>1. committed' \subseteq Seqs
        BY <1>3 DEF TableOK
      <4> QED BY <4>1, MaxCommittedIs, BoundsAssumption DEF MaxCommitted
    <3> QED BY <1>1, <3>1, <3>2
  <2>6. WithinTable(b)'
    <3>1. MaxCommitted \in Int /\ MaxCommitted' \in Int /\ cursor[b] \in Int
      <4>1. committed' \subseteq Seqs
        BY <1>3 DEF TableOK
      <4>2. MaxCommitted' \in 0..MaxSeq
        BY <4>1, MaxCommittedIs DEF MaxCommitted
      <4>3. MaxCommitted \in 0..MaxSeq /\ cursor[b] \in 0..MaxSeq
        BY <1>2, TopOf DEF OutboxInv, Types, ServerOK
      <4> QED BY <4>2, <4>3, BoundsAssumption
    <3>2. conn' = conn /\ cursor'[b] = cursor[b]
      BY <1>1 DEF server
    <3> QED BY <2>1, <2>5, <3>1, <3>2 DEF BrowserInv, WithinTable
  <2>7. BatchIsWhole(b)'
    <3> SUFFICES ASSUME NEW m \in batch[b]
                 PROVE  /\ m > cursor[b]
                        /\ \A t \in InOrder' : cursor[b] < t /\ t < m => t \in batch[b]
      BY <2>2 DEF BatchIsWhole, State
    <3>1. m \in committed
      BY <2>1 DEF BrowserInv, OnlyCommitted
    <3>2. m \in Int /\ x \in Int
      BY <1>2, <3>1, BoundsAssumption DEF TableOK, Seqs
    <3> QED BY <1>5, <2>1, <3>1, <3>2 DEF BrowserInv, BatchIsWhole
  <2>8. HeardUpTo(b)'
    <3> SUFFICES ASSUME lastId[b] \in got[b], NEW s \in InOrder', start[b] < s, s <= lastId[b]
                 PROVE  s \in got[b]
      BY <2>2 DEF HeardUpTo, State
    <3>1. lastId[b] \in committed
      BY <2>1 DEF BrowserInv, OnlyCommitted
    <3>2. lastId[b] \in Int /\ x \in Int
      <4>1. committed \subseteq Seqs /\ \A s1 \in Seqs : s1 \in Int
        BY <1>2, BoundsAssumption DEF TableOK, Seqs
      <4> QED BY <3>1, <4>1
    <3>3. s \in InOrder
      BY <1>5, <3>1, <3>2
    <3> QED BY <2>1, <3>3 DEF BrowserInv, HeardUpTo
  <2>9. SkipsNothing(b)'
    <3> SUFFICES ASSUME conn[b], NEW s \in InOrder', start[b] < s, s <= cursor[b]
                 PROVE  s \in Told(b)
      BY <2>2 DEF SkipsNothing, State, Told
    <3>1. /\ cursor[b] <= MaxCommitted /\ MaxCommitted \in committed \cup {0} /\ MaxCommitted \in Int
          /\ cursor[b] \in Int /\ x \in Int /\ x > 0
      <4>1. cursor[b] <= MaxCommitted
        BY <2>1 DEF BrowserInv, WithinTable
      <4>2. MaxCommitted \in 0..MaxSeq /\ cursor[b] \in 0..MaxSeq /\ MaxCommitted \in committed \cup {0}
        BY <1>2, TopOf DEF OutboxInv, Types, ServerOK
      <4> QED BY <4>1, <4>2, BoundsAssumption DEF Seqs
    <3>2. s \in InOrder
      BY <1>5, <3>1
    <3> QED BY <2>1, <3>2 DEF BrowserInv, SkipsNothing
  <2> QED BY <2>3, <2>4, <2>6, <2>7, <2>8, <2>9 DEF BrowserInv
<1> QED BY <1>4, <1>6 DEF OutboxInv

(* A number is taken, or given up.                                         *)
LEMMA NumberInv ==
  ASSUME OutboxInv, AppendOutbox \/ \E x \in Seqs : Rollback(x)
  PROVE  OutboxInv'
<1>1. /\ UNCHANGED <<committed, late, conn, server, wire, lastId, start, got, store, faults>>
      /\ \/ lastSeq < MaxSeq /\ lastSeq' = lastSeq + 1 /\ open' = open \cup {lastSeq + 1}
         \/ lastSeq' = lastSeq /\ open' \subseteq open
  BY DEF AppendOutbox, Rollback
<1>2. TableOK'
  <2>1. /\ lastSeq \in Nat /\ MaxSeq \in Nat /\ lastSeq <= MaxSeq
        /\ open \subseteq 1..lastSeq \ committed /\ committed \subseteq 1..lastSeq
    BY BoundsAssumption DEF OutboxInv, Types, TableOK, NumbersGiven
  <2>2. lastSeq' \in 0..MaxSeq /\ 1..lastSeq \subseteq 1..lastSeq'
    BY <1>1, <2>1
  <2>3. open' \subseteq 1..lastSeq' \ committed
    <3>1. CASE lastSeq' = lastSeq + 1 /\ open' = open \cup {lastSeq + 1}
      <4>1. lastSeq + 1 \in 1..lastSeq' /\ lastSeq + 1 \notin 1..lastSeq
        BY <2>1, <3>1
      <4> QED BY <2>1, <2>2, <3>1, <4>1
    <3>2. CASE lastSeq' = lastSeq /\ open' \subseteq open
      BY <2>1, <3>2
    <3> QED BY <1>1, <3>1, <3>2
  <2> QED BY <1>1, <2>1, <2>2, <2>3 DEF OutboxInv, Types, TableOK, NumbersGiven
<1>3. Types'
  BY <1>1, <1>2 DEF OutboxInv, Types, ServerOK, BrowsersOK, server, store
<1>4. ASSUME NEW b \in Browsers PROVE BrowserInv(b)'
  <2>1. BrowserInv(b) /\ UNCHANGED State(b) /\ UNCHANGED <<committed, late>>
    BY <1>1 DEF OutboxInv, State, server, store
  <2>2. ClosedIsEmpty(b)' /\ OnlyCommitted(b)' /\ WireAscends(b)'
    BY <2>1 DEF BrowserInv, ClosedIsEmpty, OnlyCommitted, WireAscends, State
  <2>3. BatchIsWhole(b)' /\ HeardUpTo(b)' /\ WithinTable(b)' /\ ReadsCover(b)'
    BY <2>1 DEF BrowserInv, BatchIsWhole, HeardUpTo, InOrder, WithinTable, MaxCommitted, ReadsCover, State
  <2>4. SkipsNothing(b)'
    BY <2>1 DEF BrowserInv, SkipsNothing, InOrder, Told, State
  <2> QED BY <2>2, <2>3, <2>4 DEF BrowserInv
<1> QED BY <1>3, <1>4 DEF OutboxInv

(* Everything that was known of the undone events is forgotten.            *)
LEMMA RestoreInv ==
  ASSUME OutboxInv, NEW k \in 0..lastSeq, Restore(k)
  PROVE  OutboxInv'
<1>1. /\ lastSeq' = k /\ committed' = committed \cap 1..k /\ late' = late \cap 1..k /\ open' = {}
      /\ conn' = [b \in Browsers |-> FALSE] /\ cursor' = [b \in Browsers |-> 0]
      /\ batch' = [b \in Browsers |-> {}] /\ wire' = [b \in Browsers |-> <<>>]
      /\ got' = [b \in Browsers |-> got[b] \cap 1..k] /\ seen' = [b \in Browsers |-> seen[b] \cap 1..k]
      /\ view' = [b \in Browsers |-> view[b] \cap 1..k]
      /\ reads' = [b \in Browsers |-> [reads[b] EXCEPT !.answers = {snap \cap 1..k : snap \in @}]]
      /\ faults' = faults + 1 /\ faults < MaxFaults /\ UNCHANGED <<lastId, start>>
  BY DEF Restore
<1>2. TableOK'
  BY <1>1, BoundsAssumption DEF OutboxInv, Types, TableOK, NumbersGiven
<1>3. ServerOK'
  BY <1>1, Empties DEF ServerOK
<1>4. ASSUME NEW b \in Browsers
      PROVE  /\ reads'[b] \in ReadSet /\ reads'[b].asked = reads[b].asked
             /\ reads'[b].answers = {snap \cap 1..k : snap \in reads[b].answers}
  <2> DEFINE A == {snap \cap 1..k : snap \in reads[b].answers}
  <2>1. reads[b] \in ReadSet
    BY DEF OutboxInv, Types, BrowsersOK
  <2>2. A \in SUBSET SUBSET Seqs
    BY <2>1 DEF ReadSet
  <2>3. reads'[b] = [reads[b] EXCEPT !.answers = A]
    BY <1>1
  <2> HIDE DEF A
  <2>4. reads'[b] \in ReadSet /\ reads'[b].asked = reads[b].asked /\ reads'[b].answers = A
    BY <2>1, <2>2, <2>3 DEF ReadSet
  <2> QED BY <2>4 DEF A
<1>5. BrowsersOK'
  <2>1. reads' \in [Browsers -> ReadSet]
    BY <1>1, <1>4
  <2>2. /\ got' \in [Browsers -> SUBSET Seqs] /\ view' \in [Browsers -> SUBSET Seqs]
        /\ seen' \in [Browsers -> SUBSET Seqs]
    BY <1>1 DEF OutboxInv, Types, BrowsersOK
  <2> QED BY <1>1, <2>1, <2>2 DEF OutboxInv, Types, BrowsersOK
<1>6. faults' \in 0..MaxFaults
  BY <1>1, BoundsAssumption DEF OutboxInv, Types
<1>7. ASSUME NEW b \in Browsers PROVE BrowserInv(b)'
  <2>1. BrowserInv(b)
    BY DEF OutboxInv
  <2>2. /\ conn'[b] = FALSE /\ cursor'[b] = 0 /\ batch'[b] = {} /\ wire'[b] = <<>>
        /\ got'[b] = got[b] \cap 1..k /\ seen'[b] = seen[b] \cap 1..k
    BY <1>1
  <2>3. /\ ClosedIsEmpty(b)' /\ BatchIsWhole(b)' /\ SkipsNothing(b)' /\ WithinTable(b)'
    BY <2>2 DEF ClosedIsEmpty, BatchIsWhole, SkipsNothing, WithinTable
  <2>4. WireAscends(b)' /\ OnlyCommitted(b)'
    BY <1>1, <2>1, <2>2 DEF WireAscends, OnlyCommitted, BrowserInv
  <2>5. HeardUpTo(b)'
    <3>1. InOrder' \subseteq InOrder \cap 1..k
      BY <1>1 DEF InOrder
    <3> QED BY <1>1, <2>1, <2>2, <3>1 DEF HeardUpTo, BrowserInv
  <2>6. ReadsCover(b)'
    <3> SUFFICES ASSUME ~(reads'[b].asked > 0), NEW s \in got'[b]
                 PROVE  s \in seen'[b] \/ \E a \in reads'[b].answers : s \in a
      BY DEF ReadsCover
    <3>1. ~(reads[b].asked > 0) /\ s \in got[b] /\ s \in 1..k
      BY <1>4, <2>2
    <3>2. CASE s \in seen[b]
      BY <2>2, <3>1, <3>2
    <3>3. ASSUME NEW a \in reads[b].answers, s \in a
          PROVE  \E a1 \in reads'[b].answers : s \in a1
      <4>1. a \cap 1..k \in reads'[b].answers
        BY <1>4
      <4> QED BY <3>1, <3>3, <4>1
    <3> QED BY <2>1, <3>1, <3>2, <3>3 DEF ReadsCover, BrowserInv
  <2> QED BY <2>3, <2>4, <2>5, <2>6 DEF BrowserInv
<1> QED BY <1>2, <1>3, <1>5, <1>6, <1>7 DEF OutboxInv, Types

-----------------------------------------------------------------------------
(* One browser's connection and reads.                                     *)

(* A step of one browser leaves the others and the table alone.            *)
LEMMA OneBrowserSteps ==
  ASSUME OutboxInv, NEW b \in Browsers, Types', BrowserInv(b)', UNCHANGED table,
         \A c \in Browsers \ {b} : UNCHANGED State(c)
  PROVE  OutboxInv'
BY OtherBrowser DEF OutboxInv

LEMMA OpenInv ==
  ASSUME OutboxInv, NEW b \in Browsers, Open(b)
  PROVE  OutboxInv'
<1>1. /\ ~conn[b] /\ conn' = [conn EXCEPT ![b] = TRUE] /\ cursor' = [cursor EXCEPT ![b] = OpenAt(b)]
      /\ wire' = [wire EXCEPT ![b] = IF IsGap(b) THEN <<Gap>> ELSE <<>>]
      /\ start' = [start EXCEPT ![b] = IF Resumes(b) THEN @ ELSE OpenAt(b)]
      /\ UNCHANGED <<table, batch, lastId, got, store, faults>>
  BY DEF Open
<1>2. /\ conn \in [Browsers -> BOOLEAN] /\ cursor \in [Browsers -> 0..MaxSeq]
      /\ wire \in [Browsers -> Seq(0..MaxSeq)] /\ start \in [Browsers -> 0..MaxSeq]
      /\ lastId[b] \in 0..MaxSeq /\ start[b] \in 0..MaxSeq
  BY DEF OutboxInv, Types, ServerOK, BrowsersOK
<1>3. /\ MaxCommitted \in 0..MaxSeq /\ MaxCommitted \in committed \cup {0}
      /\ \A s \in committed : s <= MaxCommitted
  BY TopOf DEF OutboxInv, Types
<1>4. OpenAt(b) \in 0..MaxSeq /\ OpenAt(b) <= MaxCommitted
  BY <1>2, <1>3, BoundsAssumption DEF OpenAt, IsGap
<1>5. (IF IsGap(b) THEN <<Gap>> ELSE <<>>) \in Seq(0..MaxSeq)
  <2>1. Gap \in 0..MaxSeq
    BY BoundsAssumption DEF Gap
  <2>2. <<Gap>> \in Seq(0..MaxSeq)
    BY <2>1
  <2> QED BY <2>2, Empties
<1>6. /\ conn'[b] = TRUE /\ cursor'[b] = OpenAt(b) /\ wire'[b] = (IF IsGap(b) THEN <<Gap>> ELSE <<>>)
      /\ start'[b] = (IF Resumes(b) THEN start[b] ELSE OpenAt(b))
      /\ UNCHANGED <<batch[b], lastId[b], got[b], seen[b], reads[b], committed, late>>
  BY <1>1, <1>2 DEF store, table
<1>7. Types'
  <2>1. ServerOK'
    BY <1>1, <1>2, <1>4, <1>5 DEF OutboxInv, Types, ServerOK
  <2>2. BrowsersOK'
    BY <1>1, <1>2, <1>4 DEF OutboxInv, Types, BrowsersOK, store
  <2>3. TableOK' /\ faults' \in 0..MaxFaults
    BY <1>1 DEF OutboxInv, Types, TableOK, NumbersGiven, table
  <2> QED BY <2>1, <2>2, <2>3 DEF Types
<1>8. BrowserInv(b) /\ batch[b] = {} /\ got[b] \subseteq committed
  BY <1>1 DEF OutboxInv, BrowserInv, ClosedIsEmpty, OnlyCommitted
<1>9. ClosedIsEmpty(b)' /\ OnlyCommitted(b)' /\ BatchIsWhole(b)' /\ ReadsCover(b)'
  BY <1>6, <1>8 DEF BrowserInv, ClosedIsEmpty, OnlyCommitted, BatchIsWhole, ReadsCover
<1>10. WithinTable(b)'
  BY <1>4, <1>6 DEF WithinTable, MaxCommitted
<1>11. WireAscends(b)'
  <2>1. CASE IsGap(b)
    <3>1. Len(wire'[b]) = 1 /\ wire'[b][1] = 0
      BY <1>6, <2>1 DEF Gap
    <3>2. 0 <= cursor'[b]
      BY <1>4, <1>6, BoundsAssumption
    <3> QED BY <3>1, <3>2 DEF WireAscends, Gap
  <2>2. CASE ~IsGap(b)
    BY <1>6, <2>2 DEF WireAscends
  <2> QED BY <2>1, <2>2
<1>12. Resumes(b) <=> lastId[b] \in got[b]
  BY <1>2, <1>3, <1>8, BoundsAssumption DEF Resumes, IsGap
<1>13. HeardUpTo(b)'
  BY <1>6, <1>8, <1>12 DEF BrowserInv, HeardUpTo, InOrder
<1>14. SkipsNothing(b)'
  <2> SUFFICES ASSUME NEW s \in InOrder, start'[b] < s, s <= OpenAt(b)
               PROVE  s \in got[b]
    BY <1>6 DEF SkipsNothing, InOrder, Told
  <2>1. s \in Int /\ OpenAt(b) \in Int
    BY <1>4, BoundsAssumption DEF OutboxInv, Types, TableOK, Seqs, InOrder
  <2>2. Resumes(b)
    BY <1>6, <2>1
  <2>3. OpenAt(b) = lastId[b]
    <3>1. lastId[b] # 0
      BY <1>8, <1>12, <2>2, BoundsAssumption DEF OutboxInv, Types, TableOK, Seqs
    <3> QED BY <2>2, <3>1 DEF Resumes, OpenAt
  <2> QED BY <1>6, <1>8, <1>12, <2>2, <2>3 DEF BrowserInv, HeardUpTo
<1>15. BrowserInv(b)'
  BY <1>9, <1>10, <1>11, <1>13, <1>14 DEF BrowserInv
<1>16. \A c \in Browsers \ {b} : UNCHANGED State(c)
  BY <1>1, <1>2 DEF State, store
<1> QED BY <1>1, <1>7, <1>15, <1>16, OneBrowserSteps

LEMMA FetchInv ==
  ASSUME OutboxInv, NEW b \in Browsers, Fetch(b)
  PROVE  OutboxInv'
<1>1. /\ conn[b] /\ batch' = [batch EXCEPT ![b] = Stream(cursor[b])]
      /\ UNCHANGED <<table, conn, cursor, wire, lastId, start, got, store, faults>>
  BY DEF Fetch
<1>2. batch \in [Browsers -> SUBSET Seqs] /\ cursor[b] \in 0..MaxSeq /\ committed \subseteq Seqs
  BY DEF OutboxInv, Types, ServerOK, TableOK
<1>3. /\ Stream(cursor[b]) \subseteq committed
      /\ \A m \in Stream(cursor[b]) : m > cursor[b] /\
           \A t \in committed : cursor[b] < t /\ t < m => t \in Stream(cursor[b])
  BY <1>2, StreamIs DEF OutboxInv, Types
<1>4. /\ batch'[b] = Stream(cursor[b])
      /\ UNCHANGED <<conn[b], cursor[b], wire[b], lastId[b], start[b], got[b], seen[b], reads[b]>>
      /\ UNCHANGED <<committed, late>>
  BY <1>1, <1>2 DEF store, table
<1>5. Types'
  <2>1. ServerOK'
    BY <1>1, <1>2, <1>3 DEF OutboxInv, Types, ServerOK
  <2> QED BY <1>1, <2>1 DEF OutboxInv, Types, TableOK, NumbersGiven, BrowsersOK, table, store
<1>6. BrowserInv(b)
  BY DEF OutboxInv
<1>7. ClosedIsEmpty(b)' /\ OnlyCommitted(b)' /\ WireAscends(b)'
  BY <1>1, <1>3, <1>4, <1>6 DEF BrowserInv, ClosedIsEmpty, OnlyCommitted, WireAscends
<1>8. BatchIsWhole(b)'
  BY <1>3, <1>4 DEF BatchIsWhole, InOrder
<1>9. HeardUpTo(b)' /\ WithinTable(b)' /\ ReadsCover(b)'
  BY <1>4, <1>6 DEF BrowserInv, HeardUpTo, InOrder, WithinTable, MaxCommitted, ReadsCover
<1>10. SkipsNothing(b)'
  BY <1>4, <1>6 DEF BrowserInv, SkipsNothing, InOrder, Told
<1>11. BrowserInv(b)'
  BY <1>7, <1>8, <1>9, <1>10 DEF BrowserInv
<1>12. \A c \in Browsers \ {b} : UNCHANGED State(c)
  BY <1>1, <1>2 DEF State, store
<1> QED BY <1>1, <1>5, <1>11, <1>12, OneBrowserSteps

LEMMA YieldInv ==
  ASSUME OutboxInv, NEW b \in Browsers, Yield(b)
  PROVE  OutboxInv'
<1> DEFINE s == Min(batch[b])
           old == wire[b]
           new == Append(wire[b], s)
<1>1. /\ conn[b] /\ batch[b] # {}
      /\ wire' = [wire EXCEPT ![b] = new] /\ cursor' = [cursor EXCEPT ![b] = s]
      /\ batch' = [batch EXCEPT ![b] = @ \ {s}]
      /\ UNCHANGED <<table, conn, lastId, start, got, store, faults>>
  BY DEF Yield
<1>2. /\ batch \in [Browsers -> SUBSET Seqs] /\ cursor \in [Browsers -> 0..MaxSeq]
      /\ wire \in [Browsers -> Seq(0..MaxSeq)] /\ committed \subseteq Seqs /\ cursor[b] \in Int
      /\ \A x \in Seqs : x \in Int /\ x > 0 /\ x \in 0..MaxSeq
  BY BoundsAssumption DEF OutboxInv, Types, ServerOK, TableOK, Seqs
<1>3. s \in batch[b] /\ \A y \in batch[b] : s <= y
  BY <1>1, <1>2, MinIs
<1>4. BrowserInv(b)
  BY DEF OutboxInv
<1>5. s \in committed /\ s \in Seqs /\ s > cursor[b] /\ s \in 0..MaxSeq /\ s \in Int
  BY <1>2, <1>3, <1>4 DEF BrowserInv, OnlyCommitted, BatchIsWhole
<1> HIDE DEF s
<1>6. /\ new \in Seq(0..MaxSeq) /\ Len(new) = Len(old) + 1 /\ Len(old) \in Nat
      /\ \A i \in 1..Len(old) : new[i] = old[i]
      /\ new[Len(old) + 1] = s
  <2>1. old \in Seq(0..MaxSeq)
    BY <1>2
  <2> HIDE DEF old
  <2> QED BY <1>5, <2>1, AppendProperties, LenProperties DEF old
<1>7. /\ wire'[b] = new /\ cursor'[b] = s /\ batch'[b] = batch[b] \ {s}
      /\ UNCHANGED <<conn[b], lastId[b], start[b], got[b], seen[b], reads[b], committed, late>>
  BY <1>1, <1>2 DEF store, table
<1>8. Types'
  <2>1. ServerOK'
    BY <1>1, <1>2, <1>5, <1>6 DEF OutboxInv, Types, ServerOK
  <2> QED BY <1>1, <2>1 DEF OutboxInv, Types, TableOK, NumbersGiven, BrowsersOK, table, store
<1>9. ClosedIsEmpty(b)' /\ OnlyCommitted(b)' /\ ReadsCover(b)' /\ HeardUpTo(b)'
  BY <1>1, <1>4, <1>7 DEF BrowserInv, ClosedIsEmpty, OnlyCommitted, ReadsCover, HeardUpTo, InOrder
<1>10. WithinTable(b)'
  <2>1. s <= MaxCommitted
    BY <1>5, TopOf DEF OutboxInv, Types
  <2> QED BY <1>7, <2>1 DEF WithinTable, MaxCommitted
<1>11. WireAscends(b)'
  <2> SUFFICES ASSUME NEW i \in 1..Len(new)
               PROVE  /\ new[i] \in committed \cup {Gap} /\ new[i] <= s
                      /\ \A j \in 1..Len(new) : i < j => new[i] < new[j]
    BY <1>7 DEF WireAscends
  <2>1. CASE i = Len(old) + 1
    <3>1. \A j \in 1..Len(new) : ~(i < j)
      BY <1>6, <2>1
    <3> QED BY <1>5, <1>6, <2>1, <3>1
  <2>2. CASE i \in 1..Len(old)
    <3>1. /\ old[i] \in committed \cup {Gap} /\ old[i] <= cursor[b] /\ new[i] = old[i]
          /\ \A j \in 1..Len(old) : i < j => old[i] < old[j]
      BY <1>4, <1>6, <2>2 DEF BrowserInv, WireAscends
    <3>2. old[i] \in Int
      BY <1>2, <3>1 DEF Gap
    <3>3. old[i] < s
      BY <1>2, <1>5, <3>1, <3>2
    <3>4. ASSUME NEW j \in 1..Len(new), i < j PROVE old[i] < new[j]
      <4>1. j \in 1..Len(old) \/ j = Len(old) + 1
        BY <1>6
      <4> QED BY <1>6, <3>1, <3>3, <3>4, <4>1
    <3> HIDE DEF old, new
    <3> QED BY <1>5, <3>1, <3>2, <3>3, <3>4
  <2> QED BY <1>6, <2>1, <2>2
<1>12. BatchIsWhole(b)'
  <2> SUFFICES ASSUME NEW m \in batch[b], m # s
               PROVE  m > s /\ \A t \in InOrder : s < t /\ t < m => t \in batch[b] \ {s}
    BY <1>7 DEF BatchIsWhole, InOrder
  <2>1. m \in Int
    BY <1>2
  <2>2. m > s
    BY <1>3, <1>5, <2>1
  <2>3. ASSUME NEW t \in InOrder, s < t, t < m PROVE t \in batch[b] \ {s}
    <3>1. t \in Int
      BY <1>2 DEF InOrder
    <3>2. cursor[b] < t /\ t # s
      BY <1>2, <1>5, <2>3, <3>1
    <3> QED BY <1>4, <2>3, <3>2 DEF BrowserInv, BatchIsWhole
  <2> QED BY <2>2, <2>3
<1>13. SkipsNothing(b)'
  <2> SUFFICES ASSUME NEW t \in InOrder, start[b] < t, t <= s
               PROVE  t \in got[b] \cup {new[i] : i \in 1..Len(new)}
    BY <1>7 DEF SkipsNothing, InOrder, Told
  <2>1. t \in Int /\ t \in committed
    BY <1>2 DEF InOrder
  <2>2. CASE t <= cursor[b]
    <3>1. t \in got[b] \/ \E i \in 1..Len(old) : t = old[i]
      BY <1>1, <1>4, <2>2 DEF BrowserInv, SkipsNothing, Told
    <3>2. \A i \in 1..Len(old) : i \in 1..Len(new) /\ new[i] = old[i]
      BY <1>6
    <3> QED BY <3>1, <3>2
  <2>3. CASE t > cursor[b] /\ t # s
    <3>1. t < s
      BY <1>5, <2>1, <2>3
    <3>2. t \in batch[b]
      BY <1>3, <1>4, <2>3, <3>1 DEF BrowserInv, BatchIsWhole
    <3> QED BY <1>3, <1>5, <2>1, <3>1, <3>2
  <2>4. CASE t = s
    <3>1. Len(old) + 1 \in 1..Len(new) /\ new[Len(old) + 1] = s
      BY <1>6
    <3> QED BY <2>4, <3>1
  <2>5. t <= cursor[b] \/ t > cursor[b]
    BY <1>2, <2>1
  <2> QED BY <2>2, <2>3, <2>4, <2>5
<1>14. BrowserInv(b)'
  BY <1>9, <1>10, <1>11, <1>12, <1>13 DEF BrowserInv
<1>15. \A c \in Browsers \ {b} : UNCHANGED State(c)
  BY <1>1, <1>2 DEF State, store
<1> QED BY <1>1, <1>8, <1>14, <1>15, OneBrowserSteps

(* What is left of a sequence when its first element is taken.             *)
LEMMA TailIs ==
  ASSUME NEW w \in Seq(0..MaxSeq), w # <<>>
  PROVE  /\ Tail(w) \in Seq(0..MaxSeq) /\ Len(Tail(w)) = Len(w) - 1 /\ Len(w) \in Nat /\ Len(w) >= 1
         /\ Head(w) = w[1] /\ \A i \in 1..Len(Tail(w)) : Tail(w)[i] = w[i + 1]
BY HeadTailProperties, LenProperties, EmptySeq

(* The frames ascend, so one that arrives leaves no earlier one behind.    *)
LEMMA ReceiveInv ==
  ASSUME OutboxInv, NEW b \in Browsers, Receive(b)
  PROVE  OutboxInv'
<1> DEFINE w == wire[b]
           n == Len(w)
           h == Head(w)
<1>1. /\ conn[b] /\ w # <<>>
      /\ lastId' = [lastId EXCEPT ![b] = IF h = Gap THEN @ ELSE h]
      /\ got' = [got EXCEPT ![b] = IF h = Gap THEN @ ELSE @ \cup {h}]
      /\ wire' = [wire EXCEPT ![b] = Tail(w)] /\ Resync(b)
      /\ UNCHANGED <<table, conn, server, start, view, seen, faults>>
  BY DEF Receive
<1>2. /\ wire \in [Browsers -> Seq(0..MaxSeq)] /\ w \in Seq(0..MaxSeq)
      /\ lastId \in [Browsers -> 0..MaxSeq] /\ got \in [Browsers -> SUBSET Seqs]
      /\ reads \in [Browsers -> ReadSet] /\ committed \subseteq Seqs
      /\ cursor[b] \in Int /\ lastId[b] \in Int
      /\ \A x \in Seqs : x \in Int /\ x > 0 /\ x \in 0..MaxSeq
  BY BoundsAssumption DEF OutboxInv, Types, ServerOK, BrowsersOK, TableOK, Seqs
<1> HIDE DEF w
<1>3. /\ Tail(w) \in Seq(0..MaxSeq) /\ Len(Tail(w)) = n - 1 /\ n \in Nat /\ n >= 1
      /\ h = w[1] /\ \A i \in 1..Len(Tail(w)) : Tail(w)[i] = w[i + 1]
  BY <1>1, <1>2, TailIs
<1>4. BrowserInv(b)
  BY DEF OutboxInv
<1>5. \A i \in 1..n : /\ w[i] \in committed \cup {Gap} /\ w[i] <= cursor[b] /\ w[i] \in Int
                      /\ \A j \in 1..n : i < j => w[i] < w[j]
  BY <1>2, <1>4 DEF BrowserInv, WireAscends, w, Gap
<1>6. h \in committed \cup {Gap} /\ h <= cursor[b] /\ h \in Int /\ (h # Gap => h \in Seqs /\ h \in committed)
  BY <1>2, <1>3, <1>5
<1> HIDE DEF h, n
<1>7. reads' \in [Browsers -> ReadSet] /\ reads' = [reads EXCEPT ![b].asked = @ + 1] /\ reads[b].asked \in Nat
  BY <1>1, ReadsTyped DEF OutboxInv, Resync
<1>8. /\ wire'[b] = Tail(w)
      /\ got'[b] = (IF h = Gap THEN got[b] ELSE got[b] \cup {h})
      /\ lastId'[b] = (IF h = Gap THEN lastId[b] ELSE h)
      /\ UNCHANGED <<conn[b], cursor[b], batch[b], start[b], seen[b], committed, late>>
  BY <1>1, <1>2 DEF server, table
<1>9. Types'
  <2>1. ServerOK'
    BY <1>1, <1>2, <1>3 DEF OutboxInv, Types, ServerOK, server
  <2>2. lastId' \in [Browsers -> 0..MaxSeq]
    BY <1>1, <1>2, <1>6
  <2>3. got' \in [Browsers -> SUBSET Seqs]
    BY <1>1, <1>2, <1>6
  <2>4. BrowsersOK'
    BY <1>1, <1>7, <2>2, <2>3 DEF OutboxInv, Types, BrowsersOK
  <2> QED BY <1>1, <2>1, <2>4 DEF OutboxInv, Types, TableOK, NumbersGiven, table
<1>10. ClosedIsEmpty(b)' /\ OnlyCommitted(b)' /\ BatchIsWhole(b)' /\ WithinTable(b)'
  BY <1>1, <1>4, <1>6, <1>8 DEF BrowserInv, ClosedIsEmpty, OnlyCommitted, BatchIsWhole, InOrder, WithinTable,
    MaxCommitted
<1>11. WireAscends(b)'
  <2> SUFFICES ASSUME NEW i \in 1..Len(Tail(w))
               PROVE  /\ Tail(w)[i] \in committed \cup {Gap} /\ Tail(w)[i] <= cursor[b]
                      /\ \A j \in 1..Len(Tail(w)) : i < j => Tail(w)[i] < Tail(w)[j]
    BY <1>8 DEF WireAscends
  <2>1. i + 1 \in 1..n /\ Tail(w)[i] = w[i + 1]
    BY <1>3
  <2>2. ASSUME NEW j \in 1..Len(Tail(w)), i < j PROVE Tail(w)[i] < Tail(w)[j]
    <3>1. j + 1 \in 1..n /\ Tail(w)[j] = w[j + 1] /\ i + 1 < j + 1
      BY <1>3, <2>2
    <3> QED BY <1>5, <2>1, <3>1
  <2> QED BY <1>5, <2>1, <2>2
<1>12. ReadsCover(b)'
  <2>1. reads'[b] = [reads[b] EXCEPT !.asked = @ + 1] /\ reads[b] \in ReadSet
    BY <1>2, <1>7
  <2>2. reads'[b].asked = reads[b].asked + 1
    BY <2>1 DEF ReadSet
  <2>3. reads'[b].asked > 0
    BY <1>7, <2>2
  <2> QED BY <2>3 DEF ReadsCover
<1>13. \A x \in Told(b) : x = Gap \/ x \in Told(b)'
  <2> SUFFICES ASSUME NEW x \in Told(b), x # Gap
               PROVE  x \in got'[b] \/ \E i \in 1..Len(Tail(w)) : x = Tail(w)[i]
    BY <1>8 DEF Told
  <2>1. CASE x \in got[b]
    BY <1>8, <2>1
  <2>2. CASE x \notin got[b]
    <3>1. PICK i \in 1..n : x = w[i]
      BY <2>2 DEF Told, w, n
    <3>2. CASE i = 1
      BY <1>3, <1>8, <2>2, <3>1, <3>2
    <3>3. CASE i # 1
      <4>1. i - 1 \in 1..Len(Tail(w)) /\ Tail(w)[i - 1] = w[(i - 1) + 1] /\ (i - 1) + 1 = i
        BY <1>3, <3>3
      <4> QED BY <3>1, <4>1
    <3> QED BY <3>2, <3>3
  <2> QED BY <2>1, <2>2
<1>14. SkipsNothing(b)'
  <2> SUFFICES ASSUME NEW t \in InOrder, start[b] < t, t <= cursor[b]
               PROVE  t \in Told(b)'
    BY <1>8 DEF SkipsNothing, InOrder
  <2>1. t \in Told(b) /\ t # Gap
    BY <1>1, <1>2, <1>4 DEF BrowserInv, SkipsNothing, InOrder, Gap
  <2> QED BY <1>13, <2>1
<1>15. HeardUpTo(b)'
  <2>1. CASE h = Gap
    BY <1>4, <1>8, <2>1 DEF BrowserInv, HeardUpTo, InOrder
  <2>2. CASE h # Gap
    <3> SUFFICES ASSUME NEW t \in InOrder, start[b] < t, t <= h, t \notin got[b]
                 PROVE  t = h
      BY <1>8, <2>2 DEF HeardUpTo, InOrder
    <3>1. t \in Int
      BY <1>2 DEF InOrder
    <3>2. t <= cursor[b]
      BY <1>2, <1>6, <3>1
    <3>3. PICK i \in 1..n : t = w[i]
      BY <1>1, <1>4, <3>2 DEF BrowserInv, SkipsNothing, Told, w, n
    <3>4. i = 1 \/ h < t
      BY <1>3, <1>5, <3>3
    <3> QED BY <1>3, <1>6, <3>1, <3>3, <3>4
  <2> QED BY <2>1, <2>2
<1>16. BrowserInv(b)'
  BY <1>10, <1>11, <1>12, <1>14, <1>15 DEF BrowserInv
<1>17. \A c \in Browsers \ {b} : UNCHANGED State(c)
  BY <1>1, <1>2, <1>7 DEF State, server
<1> QED BY <1>1, <1>9, <1>16, <1>17, OneBrowserSteps

(* A lost connection, or another job id: a new read is asked for.          *)
LEMMA CloseInv ==
  ASSUME OutboxInv, NEW b \in Browsers, Drop(b) \/ Watch(b)
  PROVE  OutboxInv'
<1>1. /\ conn' = [conn EXCEPT ![b] = FALSE] /\ cursor' = [cursor EXCEPT ![b] = 0]
      /\ batch' = [batch EXCEPT ![b] = {}] /\ wire' = [wire EXCEPT ![b] = <<>>]
      /\ lastId' = lastId \/ lastId' = [lastId EXCEPT ![b] = 0]
      /\ Resync(b) /\ faults' = faults + 1 /\ faults < MaxFaults
      /\ UNCHANGED <<table, start, got, view, seen>>
  BY DEF Drop, Watch
<1>2. /\ conn \in [Browsers -> BOOLEAN] /\ cursor \in [Browsers -> 0..MaxSeq]
      /\ batch \in [Browsers -> SUBSET Seqs] /\ wire \in [Browsers -> Seq(0..MaxSeq)]
      /\ lastId \in [Browsers -> 0..MaxSeq] /\ reads \in [Browsers -> ReadSet] /\ reads[b] \in ReadSet
      /\ faults \in 0..MaxFaults /\ got[b] \subseteq Seqs /\ 0 \notin Seqs
  BY BoundsAssumption DEF OutboxInv, Types, ServerOK, BrowsersOK, Seqs
<1>3. reads' \in [Browsers -> ReadSet] /\ reads' = [reads EXCEPT ![b].asked = @ + 1] /\ reads[b].asked \in Nat
  BY <1>1, ReadsTyped DEF OutboxInv, Resync
<1>4. Types'
  <2>1. ServerOK'
    BY <1>1, <1>2, Empties DEF ServerOK
  <2>2. lastId' \in [Browsers -> 0..MaxSeq]
    BY <1>1, <1>2, Empties
  <2>3. BrowsersOK'
    BY <1>1, <1>3, <2>2 DEF OutboxInv, Types, BrowsersOK
  <2>4. faults' \in 0..MaxFaults
    BY <1>1, <1>2, BoundsAssumption
  <2> QED BY <1>1, <2>1, <2>3, <2>4 DEF OutboxInv, Types, TableOK, NumbersGiven, table
<1>5. /\ conn'[b] = FALSE /\ batch'[b] = {} /\ wire'[b] = <<>>
      /\ UNCHANGED <<start[b], got[b], seen[b], committed, late>>
      /\ lastId'[b] = lastId[b] \/ lastId'[b] = 0
  BY <1>1, <1>2 DEF table
<1>6. BrowserInv(b)
  BY DEF OutboxInv
<1>7. /\ ClosedIsEmpty(b)' /\ OnlyCommitted(b)' /\ WireAscends(b)' /\ BatchIsWhole(b)'
      /\ SkipsNothing(b)' /\ WithinTable(b)'
  BY <1>5, <1>6 DEF BrowserInv, ClosedIsEmpty, OnlyCommitted, WireAscends, BatchIsWhole, SkipsNothing, WithinTable
<1>8. HeardUpTo(b)'
  BY <1>2, <1>5, <1>6 DEF BrowserInv, HeardUpTo, InOrder
<1>9. ReadsCover(b)'
  <2>1. reads'[b] = [reads[b] EXCEPT !.asked = @ + 1]
    BY <1>2, <1>3
  <2>2. reads'[b].asked = reads[b].asked + 1
    BY <1>2, <2>1 DEF ReadSet
  <2>3. reads'[b].asked > 0
    BY <1>3, <2>2
  <2> QED BY <2>3 DEF ReadsCover
<1>10. BrowserInv(b)'
  BY <1>7, <1>8, <1>9 DEF BrowserInv
<1>11. \A c \in Browsers \ {b} : UNCHANGED State(c)
  BY <1>1, <1>2, <1>3 DEF State
<1> QED BY <1>1, <1>4, <1>10, <1>11, OneBrowserSteps

(* A read is answered from what is committed, which is all that was got.   *)
LEMMA AnswersInv ==
  ASSUME OutboxInv, NEW b \in Browsers, Answers(b)
  PROVE  OutboxInv'
<1>1. UNCHANGED <<table, conn, server, wire, lastId, start, got, faults>>
  BY DEF Answers, Serve, SetJobs
<1>2. /\ reads \in [Browsers -> ReadSet] /\ reads[b] \in ReadSet /\ committed \subseteq Seqs
      /\ view \in [Browsers -> SUBSET Seqs] /\ seen \in [Browsers -> SUBSET Seqs]
      /\ got[b] \subseteq committed
  BY DEF OutboxInv, Types, BrowsersOK, TableOK, BrowserInv, OnlyCommitted
<1>3. reads[b].asked \in 0..MaxReads /\ reads[b].answers \in SUBSET SUBSET Seqs
  BY <1>2 DEF ReadSet
<1>4. BrowserInv(b)
  BY DEF OutboxInv
<1>5. /\ reads' \in [Browsers -> ReadSet] /\ view' \in [Browsers -> SUBSET Seqs]
      /\ seen' \in [Browsers -> SUBSET Seqs] /\ ReadsCover(b)'
      /\ \A c \in Browsers \ {b} : UNCHANGED <<seen[c], reads[c]>>
  <2>1. CASE Serve(b)
    <3> DEFINE r == [reads[b] EXCEPT !.asked = @ - 1, !.answers = @ \cup {committed}]
    <3>1. reads' = [reads EXCEPT ![b] = r] /\ UNCHANGED <<view, seen>> /\ reads[b].asked > 0
      BY <1>2, <2>1 DEF Serve
    <3>2. reads[b].asked - 1 \in 0..MaxReads
      BY <1>3, <3>1, BoundsAssumption
    <3>3. r \in ReadSet /\ r.answers = reads[b].answers \cup {committed}
      BY <1>2, <1>3, <3>2 DEF ReadSet
    <3> HIDE DEF r
    <3>4. reads' \in [Browsers -> ReadSet] /\ reads'[b] = r
      BY <1>2, <3>1, <3>3
    <3>5. committed \in r.answers
      BY <3>3
    <3>6. ReadsCover(b)'
      BY <1>1, <1>2, <3>4, <3>5 DEF ReadsCover
    <3> QED BY <1>2, <3>1, <3>4, <3>6
  <2>2. CASE SetJobs(b)
    <3>1. PICK snap \in reads[b].answers :
            /\ view' = [view EXCEPT ![b] = snap] /\ seen' = [seen EXCEPT ![b] = @ \cup snap]
            /\ reads' = [reads EXCEPT ![b].answers = @ \ {snap}]
      BY <2>2 DEF SetJobs
    <3> DEFINE r == [reads[b] EXCEPT !.answers = @ \ {snap}]
    <3>2. r \in ReadSet /\ r.asked = reads[b].asked /\ r.answers = reads[b].answers \ {snap}
      BY <1>2, <1>3 DEF ReadSet
    <3>3. reads' = [reads EXCEPT ![b] = r]
      BY <1>2, <3>1
    <3> HIDE DEF r
    <3>4. reads' \in [Browsers -> ReadSet] /\ reads'[b] = r
      BY <1>2, <3>2, <3>3
    <3>5. snap \subseteq Seqs
      BY <1>3
    <3>6. /\ view' \in [Browsers -> SUBSET Seqs] /\ seen' \in [Browsers -> SUBSET Seqs]
          /\ seen'[b] = seen[b] \cup snap
      BY <1>2, <3>1, <3>5
    <3>7. ReadsCover(b)'
      <4> SUFFICES ASSUME ~(r.asked > 0), NEW s \in got[b], s \notin seen[b], s \notin snap
                   PROVE  \E a \in r.answers : s \in a
        BY <1>1, <3>4, <3>6 DEF ReadsCover
      <4>1. PICK a \in reads[b].answers : s \in a
        BY <1>4, <3>2 DEF BrowserInv, ReadsCover
      <4> QED BY <3>2, <4>1
    <3> QED BY <1>2, <3>1, <3>3, <3>4, <3>6, <3>7
  <2> QED BY <2>1, <2>2 DEF Answers
<1>6. Types'
  BY <1>1, <1>5 DEF OutboxInv, Types, TableOK, NumbersGiven, ServerOK, BrowsersOK, table, server
<1>7. /\ UNCHANGED <<conn[b], cursor[b], batch[b], wire[b], lastId[b], start[b], got[b]>>
      /\ UNCHANGED <<committed, late>>
  BY <1>1 DEF server, table
<1>8. ClosedIsEmpty(b)' /\ OnlyCommitted(b)' /\ WireAscends(b)'
  BY <1>4, <1>7 DEF BrowserInv, ClosedIsEmpty, OnlyCommitted, WireAscends
<1>9. BatchIsWhole(b)' /\ HeardUpTo(b)' /\ WithinTable(b)'
  BY <1>4, <1>7 DEF BrowserInv, BatchIsWhole, HeardUpTo, InOrder, WithinTable, MaxCommitted
<1>10. SkipsNothing(b)'
  BY <1>4, <1>7 DEF BrowserInv, SkipsNothing, InOrder, Told
<1>11. BrowserInv(b)'
  BY <1>5, <1>8, <1>9, <1>10 DEF BrowserInv
<1>12. \A c \in Browsers \ {b} : UNCHANGED State(c)
  BY <1>1, <1>5 DEF State, server
<1> QED BY <1>1, <1>6, <1>11, <1>12, OneBrowserSteps

-----------------------------------------------------------------------------
(* The theorems.                                                           *)

LEMMA OutboxNext == OutboxInv /\ [Next]_vars => OutboxInv'
<1> SUFFICES ASSUME OutboxInv, [Next]_vars PROVE OutboxInv'
  OBVIOUS
<1>1. CASE UNCHANGED vars
  <2>1. UNCHANGED table /\ \A b \in Browsers : UNCHANGED State(b)
    BY <1>1 DEF vars, State, server, store
  <2>2. Types'
    BY <1>1 DEF vars, table, server, store, OutboxInv, Types, TableOK, NumbersGiven, ServerOK, BrowsersOK
  <2> QED BY <2>1, <2>2, OtherBrowser DEF OutboxInv
<1>2. CASE Database
  BY <1>2, NumberInv, CommitInv DEF Database
<1>3. ASSUME NEW b \in Browsers, Connection(b) PROVE OutboxInv'
  BY <1>3, OpenInv, FetchInv, YieldInv DEF Connection
<1> QED BY <1>1, <1>2, <1>3, RestoreInv, ReceiveInv, CloseInv, AnswersInv DEF Next

LEMMA OutboxInvAlways == Spec => []OutboxInv
BY InitInv, OutboxNext, PTL DEF Spec

(* Table, connections, frames and reads keep their types, a batch lies     *)
(* ahead of its cursor, and the cursor within the table, also after a      *)
(* restore (the gap branch of _event_frames).                              *)
THEOREM OutboxTypeCorrect == Spec => []TypeOK
<1>1. OutboxInv => TypeOK
  <2> SUFFICES ASSUME OutboxInv PROVE TypeOK
    OBVIOUS
  <2>1. CursorWithinTable /\ \A b \in Browsers : \A s \in batch[b] : s > cursor[b]
    BY DEF OutboxInv, BrowserInv, WithinTable, BatchIsWhole, CursorWithinTable
  <2> QED BY <2>1 DEF OutboxInv, Types, TableOK, ServerOK, BrowsersOK, ReadSet, TypeOK
<1> QED BY <1>1, OutboxInvAlways, PTL

(* A stream never moves past an event of its subscription that is visible  *)
(* in order and that it has not told, whatever connections drop.           *)
THEOREM NothingIsSkipped == Spec => []NothingSkipped
<1>1. OutboxInv => NothingSkipped
  BY DEF OutboxInv, BrowserInv, SkipsNothing, InOrder, NothingSkipped
<1> QED BY <1>1, OutboxInvAlways, PTL

(* A browser with a drained stream and no read under way has read the jobs *)
(* after every event of its subscription that is visible in order.         *)
THEOREM JobsAreReadAfterEvents == Spec => []ReadAfterEvent
<1>1. OutboxInv => ReadAfterEvent
  <2> SUFFICES ASSUME OutboxInv, NEW b \in Browsers, Settled(b), NEW s \in InOrder, start[b] < s
               PROVE  s \in seen[b]
    BY DEF ReadAfterEvent, InOrder
  <2>1. BrowserInv(b) /\ conn[b] /\ wire[b] = <<>> /\ reads[b] = NoReads /\ cursor[b] >= MaxCommitted
    BY DEF OutboxInv, Settled
  <2>2. s <= cursor[b]
    <3>1. s <= MaxCommitted /\ s \in Int /\ MaxCommitted \in Int
      BY TopOf, BoundsAssumption DEF OutboxInv, Types, TableOK, InOrder, Seqs
    <3>2. cursor[b] \in 0..MaxSeq
      BY DEF OutboxInv, Types, ServerOK
    <3> QED BY <2>1, <3>1, <3>2, BoundsAssumption
  <2>3. s \in got[b]
    <3>1. s \in Told(b)
      BY <2>1, <2>2 DEF BrowserInv, SkipsNothing
    <3> QED BY <2>1, <3>1 DEF Told
  <2> QED BY <2>1, <2>3 DEF BrowserInv, ReadsCover, NoReads
<1> QED BY <1>1, OutboxInvAlways, PTL

(* Both, as the run checks them.                                           *)
THEOREM StreamSafety == Spec => []StreamSafe
BY NothingIsSkipped, JobsAreReadAfterEvents, PTL DEF StreamSafe

-----------------------------------------------------------------------------
(* The promise of EventFeed.  One more fact makes every frame news: what   *)
(* is under way or still to be fetched comes after the place where the     *)
(* subscription began and after all the browser has got, because a         *)
(* connection never begins below that: no Last-Event-ID lies below it.     *)
IdBehind(b) ==
  /\ lastId[b] # 0 => \A g \in got[b] : g <= lastId[b]
  /\ lastId[b] \in got[b] => start[b] <= lastId[b]
  /\ conn[b] => \A g \in got[b] \cup {start[b]} :
       g <= cursor[b] /\ \A i \in 1..Len(wire[b]) : wire[b][i] # Gap => g < wire[b][i]

FeedInv == OutboxInv /\ \A b \in Browsers : IdBehind(b)

SameId(b) == UNCHANGED <<conn[b], cursor[b], wire[b], lastId[b], start[b], got[b]>>

LEMMA IdStays ==
  ASSUME NEW b \in Browsers, IdBehind(b), SameId(b)
  PROVE  IdBehind(b)'
BY DEF IdBehind, SameId

(* A browser that resumes has its Last-Event-ID among what it got, and the *)
(* stream starts there.                                                    *)
LEMMA ResumesThere ==
  ASSUME OutboxInv, NEW b \in Browsers
  PROVE  /\ Resumes(b) <=> lastId[b] \in got[b]
         /\ Resumes(b) => OpenAt(b) = lastId[b] /\ ~IsGap(b)
<1>1. got[b] \subseteq committed /\ committed \subseteq Seqs /\ lastId[b] \in 0..MaxSeq
  BY DEF OutboxInv, BrowserInv, OnlyCommitted, Types, TableOK, BrowsersOK
<1>2. \A s \in committed : s <= MaxCommitted /\ s # 0 /\ s \in Int
  BY <1>1, TopOf, BoundsAssumption DEF OutboxInv, Types, Seqs
<1>3. MaxCommitted \in Int
  BY TopOf, BoundsAssumption DEF OutboxInv, Types
<1>4. lastId[b] \in got[b] => ~IsGap(b) /\ lastId[b] # 0
  BY <1>1, <1>2, <1>3 DEF IsGap
<1> QED BY <1>4 DEF Resumes, OpenAt

LEMMA OpenKeepsId ==
  ASSUME FeedInv, NEW b \in Browsers, Open(b)
  PROVE  IdBehind(b)'
<1>0. OutboxInv /\ IdBehind(b)
  BY DEF FeedInv
<1>1. /\ cursor' = [cursor EXCEPT ![b] = OpenAt(b)] /\ UNCHANGED <<lastId, got>>
      /\ wire' = [wire EXCEPT ![b] = IF IsGap(b) THEN <<Gap>> ELSE <<>>]
      /\ start' = [start EXCEPT ![b] = IF Resumes(b) THEN @ ELSE OpenAt(b)]
  BY DEF Open
<1>2. /\ cursor \in [Browsers -> 0..MaxSeq] /\ wire \in [Browsers -> Seq(0..MaxSeq)]
      /\ start \in [Browsers -> 0..MaxSeq] /\ lastId[b] \in 0..MaxSeq
      /\ got[b] \subseteq committed /\ \A s \in committed : s \in Int
  BY <1>0, BoundsAssumption DEF OutboxInv, Types, TableOK, ServerOK, BrowsersOK, BrowserInv, OnlyCommitted, Seqs
<1>3. MaxCommitted \in Int /\ \A s \in committed : s <= MaxCommitted
  BY <1>0, TopOf, BoundsAssumption DEF OutboxInv, Types
<1>4. cursor'[b] = OpenAt(b) /\ start'[b] = IF Resumes(b) THEN start[b] ELSE OpenAt(b)
  BY <1>1, <1>2
<1>5. \A i \in 1..Len(wire'[b]) : wire'[b][i] = Gap
  BY <1>1, <1>2
<1>6. OpenAt(b) \in Int /\ \A g \in got[b] : g <= OpenAt(b)
  BY <1>0, <1>2, <1>3, BoundsAssumption DEF OpenAt, IdBehind
<1>7. start'[b] <= OpenAt(b) /\ (lastId[b] \in got[b] => start'[b] <= lastId[b])
  BY <1>0, <1>2, <1>4, <1>6, ResumesThere, BoundsAssumption DEF IdBehind
<1> QED BY <1>0, <1>1, <1>4, <1>5, <1>6, <1>7 DEF IdBehind

LEMMA YieldKeepsId ==
  ASSUME FeedInv, NEW b \in Browsers, Yield(b)
  PROVE  IdBehind(b)'
<1> DEFINE s == Min(batch[b])
           w == wire[b]
           G == got[b] \cup {start[b]}
<1>1. /\ conn[b] /\ batch[b] # {} /\ UNCHANGED <<conn, lastId, start, got>>
      /\ wire' = [wire EXCEPT ![b] = Append(w, s)] /\ cursor' = [cursor EXCEPT ![b] = s]
  BY DEF Yield
<1>2. /\ batch[b] \subseteq Seqs /\ cursor \in [Browsers -> 0..MaxSeq] /\ wire \in [Browsers -> Seq(0..MaxSeq)]
      /\ w \in Seq(0..MaxSeq) /\ cursor[b] \in Int /\ (\A x \in Seqs : x \in Int /\ x \in 0..MaxSeq)
      /\ \A g \in G : g \in Int
  BY BoundsAssumption DEF FeedInv, OutboxInv, Types, ServerOK, BrowsersOK, Seqs
<1>3. s \in batch[b] /\ s > cursor[b] /\ s \in Seqs
  BY <1>1, <1>2, MinIs DEF FeedInv, OutboxInv, BrowserInv, BatchIsWhole
<1> HIDE DEF s, w
<1>4. /\ Len(Append(w, s)) = Len(w) + 1 /\ Len(w) \in Nat
      /\ \A i \in 1..Len(w) : Append(w, s)[i] = w[i]
      /\ Append(w, s)[Len(w) + 1] = s
  BY <1>2, <1>3, AppendProperties, LenProperties
<1>5. \A g \in G : g <= cursor[b] /\ \A i \in 1..Len(w) : w[i] # Gap => g < w[i]
  BY <1>1 DEF FeedInv, IdBehind, w
<1>6. \A g \in G : g < s
  BY <1>2, <1>3, <1>5
<1>7. \A i \in 1..Len(w) + 1 : i \in 1..Len(w) \/ i = Len(w) + 1
  BY <1>4
<1>8. \A g \in G : g <= s /\ \A i \in 1..Len(w) + 1 : Append(w, s)[i] # Gap => g < Append(w, s)[i]
  <2> SUFFICES ASSUME NEW g \in G
               PROVE  g <= s /\ \A i \in 1..Len(w) + 1 : Append(w, s)[i] # Gap => g < Append(w, s)[i]
    OBVIOUS
  <2>1. g < s /\ g \in Int /\ s \in Int
    BY <1>2, <1>3, <1>6
  <2>2. \A i \in 1..Len(w) : Append(w, s)[i] # Gap => g < Append(w, s)[i]
    BY <1>4, <1>5
  <2> QED BY <1>4, <1>7, <2>1, <2>2
<1>9. wire'[b] = Append(w, s) /\ cursor'[b] = s /\ got'[b] = got[b] /\ start'[b] = start[b] /\ lastId'[b] = lastId[b]
  BY <1>1, <1>2
<1> QED BY <1>4, <1>8, <1>9 DEF FeedInv, IdBehind

(* A frame that arrives: what it is, and what it leaves behind.            *)
LEMMA FrameIs ==
  ASSUME OutboxInv, NEW b \in Browsers, Receive(b)
  PROVE  /\ Len(wire[b]) \in Nat /\ 1 \in 1..Len(wire[b]) /\ Head(wire[b]) = wire[b][1]
         /\ wire[b][1] \in committed \cup {Gap} /\ wire[b][1] <= cursor[b] /\ wire[b][1] \in Int
         /\ \A j \in 1..Len(wire[b]) : j # 1 => wire[b][1] < wire[b][j]
         /\ Len(Tail(wire[b])) = Len(wire[b]) - 1
         /\ \A i \in 1..Len(Tail(wire[b])) : i + 1 \in 1..Len(wire[b]) /\ Tail(wire[b])[i] = wire[b][i + 1]
         /\ wire'[b] = Tail(wire[b])
         /\ lastId'[b] = (IF wire[b][1] = Gap THEN lastId[b] ELSE wire[b][1])
         /\ got'[b] = (IF wire[b][1] = Gap THEN got[b] ELSE got[b] \cup {wire[b][1]})
         /\ UNCHANGED <<committed, late, conn[b], cursor[b], start[b]>>
<1> DEFINE w == wire[b]
<1>1. /\ w # <<>> /\ wire' = [wire EXCEPT ![b] = Tail(w)]
      /\ lastId' = [lastId EXCEPT ![b] = IF Head(w) = Gap THEN @ ELSE Head(w)]
      /\ got' = [got EXCEPT ![b] = IF Head(w) = Gap THEN @ ELSE @ \cup {Head(w)}]
      /\ UNCHANGED <<table, conn, server, start>>
  BY DEF Receive
<1>2. /\ wire \in [Browsers -> Seq(0..MaxSeq)] /\ w \in Seq(0..MaxSeq)
      /\ lastId \in [Browsers -> 0..MaxSeq] /\ got \in [Browsers -> SUBSET Seqs]
      /\ committed \subseteq Seqs /\ \A x \in Seqs \cup {Gap} : x \in Int
  BY BoundsAssumption DEF OutboxInv, Types, ServerOK, BrowsersOK, TableOK, Seqs, Gap
<1>3. /\ \A i \in 1..Len(w) : /\ w[i] \in committed \cup {Gap} /\ w[i] <= cursor[b]
                              /\ \A j \in 1..Len(w) : i < j => w[i] < w[j]
  BY DEF OutboxInv, BrowserInv, WireAscends
<1> HIDE DEF w
<1>4. /\ Len(Tail(w)) = Len(w) - 1 /\ Len(w) \in Nat /\ Len(w) >= 1
      /\ Head(w) = w[1] /\ \A i \in 1..Len(Tail(w)) : Tail(w)[i] = w[i + 1]
  BY <1>1, <1>2, TailIs
<1>5. 1 \in 1..Len(w) /\ \A i \in 1..Len(Tail(w)) : i + 1 \in 1..Len(w)
  BY <1>4
<1>6. \A j \in 1..Len(w) : j # 1 => w[1] < w[j]
  BY <1>3, <1>4, <1>5
<1>7. w[1] \in committed \cup {Gap} /\ w[1] <= cursor[b] /\ w[1] \in Int
  BY <1>2, <1>3, <1>5
<1>8. /\ wire'[b] = Tail(w)
      /\ lastId'[b] = (IF w[1] = Gap THEN lastId[b] ELSE w[1])
      /\ got'[b] = (IF w[1] = Gap THEN got[b] ELSE got[b] \cup {w[1]})
      /\ UNCHANGED <<committed, late, conn[b], cursor[b], start[b]>>
  BY <1>1, <1>2, <1>4 DEF table, server
<1> QED BY <1>4, <1>5, <1>6, <1>7, <1>8 DEF w

LEMMA ReceiveKeepsId ==
  ASSUME FeedInv, NEW b \in Browsers, Receive(b)
  PROVE  IdBehind(b)'
<1> DEFINE w == wire[b]
           G == got[b] \cup {start[b]}
<1>1. OutboxInv /\ IdBehind(b) /\ conn[b]
  BY DEF FeedInv, Receive
<1>2. /\ 1 \in 1..Len(w) /\ w[1] <= cursor[b] /\ w[1] \in Int
      /\ \A j \in 1..Len(w) : j # 1 => w[1] < w[j]
      /\ \A i \in 1..Len(Tail(w)) : i + 1 \in 1..Len(w) /\ Tail(w)[i] = w[i + 1]
      /\ wire'[b] = Tail(w) /\ conn'[b] = conn[b] /\ cursor'[b] = cursor[b] /\ start'[b] = start[b]
      /\ lastId'[b] = (IF w[1] = Gap THEN lastId[b] ELSE w[1])
      /\ got'[b] = (IF w[1] = Gap THEN got[b] ELSE got[b] \cup {w[1]})
  BY <1>1, FrameIs
<1>3. \A i \in 1..Len(Tail(w)) : i + 1 # 1
  OBVIOUS
<1>4. \A g \in G : g \in Int
  BY <1>1, BoundsAssumption DEF OutboxInv, Types, BrowsersOK, Seqs
<1>5. \A g \in G : g <= cursor[b] /\ \A i \in 1..Len(w) : w[i] # Gap => g < w[i]
  BY <1>1 DEF IdBehind, w
<1>6. \A g \in G : g <= cursor[b] /\ \A i \in 1..Len(Tail(w)) : Tail(w)[i] # Gap => g < Tail(w)[i]
  BY <1>2, <1>5
<1> HIDE DEF w
<1>7. CASE w[1] = Gap
  BY <1>1, <1>2, <1>6, <1>7 DEF IdBehind
<1>8. CASE w[1] # Gap
  <2>1. \A g \in G : g < w[1]
    BY <1>2, <1>5, <1>8
  <2>2. \A i \in 1..Len(Tail(w)) : w[1] < Tail(w)[i]
    BY <1>2, <1>3
  <2>3. /\ lastId'[b] = w[1] /\ got'[b] = got[b] \cup {w[1]} /\ start'[b] = start[b]
        /\ got'[b] \cup {start'[b]} = G \cup {w[1]}
    BY <1>2, <1>8
  <2>4. (\A g \in got'[b] : g <= lastId'[b]) /\ start'[b] <= lastId'[b]
    <3>1. \A g \in G \cup {w[1]} : g <= w[1]
      BY <1>2, <1>4, <2>1
    <3> QED BY <2>3, <3>1
  <2>5. \A g \in got'[b] \cup {start'[b]} :
          g <= cursor'[b] /\ \A i \in 1..Len(wire'[b]) : wire'[b][i] # Gap => g < wire'[b][i]
    BY <1>2, <1>6, <2>2, <2>3
  <2> QED BY <2>4, <2>5 DEF IdBehind
<1> QED BY <1>7, <1>8

LEMMA FeedInvStep == FeedInv /\ [Next]_vars => FeedInv'
<1> SUFFICES ASSUME FeedInv, [Next]_vars PROVE FeedInv'
  OBVIOUS
<1>1. OutboxInv /\ OutboxInv'
  BY OutboxNext DEF FeedInv
<1> SUFFICES ASSUME NEW c \in Browsers PROVE IdBehind(c)'
  BY <1>1 DEF FeedInv
<1>2. IdBehind(c)
  BY DEF FeedInv
<1>3. /\ conn \in [Browsers -> BOOLEAN] /\ cursor \in [Browsers -> 0..MaxSeq] /\ wire \in [Browsers -> Seq(0..MaxSeq)]
      /\ lastId \in [Browsers -> 0..MaxSeq] /\ start \in [Browsers -> 0..MaxSeq] /\ got \in [Browsers -> SUBSET Seqs]
  BY <1>1 DEF OutboxInv, Types, ServerOK, BrowsersOK
<1>4. CASE UNCHANGED vars
  BY <1>2, <1>4, IdStays DEF vars, server, SameId
<1>5. CASE Database
  BY <1>2, <1>5, IdStays DEF Database, AppendOutbox, Commit, Rollback, server, SameId
<1>6. CASE \E k \in 0..lastSeq : Restore(k)
  BY <1>2, <1>3, <1>6 DEF Restore, IdBehind
<1>7. ASSUME NEW b \in Browsers, Connection(b) \/ Receive(b) \/ Answers(b) \/ Drop(b) \/ Watch(b)
      PROVE  IdBehind(c)'
  <2>1. CASE b # c
    <3>1. SameId(c)
      BY <1>3, <1>7, <2>1
         DEF Connection, Open, Fetch, Yield, Receive, Answers, Serve, SetJobs, Drop, Watch, server, SameId
    <3> QED BY <1>2, <3>1, IdStays
  <2>2. CASE b = c
    <3>1. CASE Fetch(c) \/ Answers(c)
      BY <1>2, <3>1, IdStays DEF Fetch, Answers, Serve, SetJobs, server, SameId
    <3>2. CASE Drop(c) \/ Watch(c)
      <4>1. 0 \notin got[c]
        BY <1>3, BoundsAssumption DEF Seqs
      <4> QED BY <1>2, <1>3, <3>2, <4>1 DEF Drop, Watch, IdBehind
    <3> QED BY <1>1, <1>7, <2>2, <3>1, <3>2, OpenKeepsId, YieldKeepsId, ReceiveKeepsId DEF Connection
  <2> QED BY <2>1, <2>2
<1> QED BY <1>4, <1>5, <1>6, <1>7 DEF Next

SameFeed(b) == UNCHANGED <<committed, late, start[b], got[b], lastId[b]>>

(* A commit appends to the feed, behind a later event or not.              *)
LEMMA CommitIsAppear ==
  ASSUME OutboxInv, NEW b \in Browsers, NEW x \in Seqs, Commit(x)
  PROVE  Feed(b)!Appear(x)
<1>1. /\ x \in open /\ committed' = committed \cup {x} /\ UNCHANGED <<start, got, lastId>>
      /\ late' = IF x < MaxCommitted THEN late \cup {x} ELSE late
  BY DEF Commit
<1>2. x \notin committed /\ x \in Int /\ x > 0 /\ \A s \in committed : s \in Int
  BY <1>1, BoundsAssumption DEF OutboxInv, Types, TableOK, Seqs
<1>3. /\ MaxCommitted \in committed \cup {0} /\ MaxCommitted \in Int
      /\ \A s \in committed : s <= MaxCommitted
  BY TopOf, BoundsAssumption DEF OutboxInv, Types
<1>4. x < MaxCommitted <=> \E t \in committed : x < t
  BY <1>2, <1>3
<1> QED BY <1>1, <1>2, <1>4 DEF Feed!Appear

LEMMA OpenIsSubscribe ==
  ASSUME OutboxInv, NEW b \in Browsers, Open(b)
  PROVE  SameFeed(b) \/ Feed(b)!Subscribe
<1>1. /\ UNCHANGED <<committed, late, lastId, got>>
      /\ start'[b] = IF Resumes(b) THEN start[b] ELSE OpenAt(b)
  BY DEF Open, table, OutboxInv, Types, BrowsersOK
<1>2. CASE Resumes(b)
  BY <1>1, <1>2 DEF SameFeed
<1>3. CASE ~Resumes(b)
  <2>1. lastId[b] \notin got[b] /\ start'[b] = OpenAt(b)
    BY <1>1, <1>3, ResumesThere
  <2>2. /\ MaxCommitted \in committed \cup {0} /\ MaxCommitted \in Int
        /\ \A s \in committed : s <= MaxCommitted
    BY TopOf, BoundsAssumption DEF OutboxInv, Types
  <2>3. lastId[b] \in Nat /\ \A s \in committed : s \in Int
    BY BoundsAssumption DEF OutboxInv, Types, TableOK, BrowsersOK, Seqs
  <2>4. CASE lastId[b] # 0 /\ \E t \in committed : lastId[b] <= t
    <3>1. ~IsGap(b)
      BY <2>2, <2>3, <2>4 DEF IsGap
    <3> QED BY <1>1, <2>1, <2>4, <3>1 DEF Feed!Subscribe, Feed!IsKnown, OpenAt
  <2>5. CASE ~(lastId[b] # 0 /\ \E t \in committed : lastId[b] <= t)
    <3>1. OpenAt(b) = MaxCommitted
      BY <2>2, <2>3, <2>5 DEF OpenAt, IsGap
    <3> QED BY <1>1, <2>1, <2>2, <2>5, <3>1 DEF Feed!Subscribe, Feed!IsKnown
  <2> QED BY <2>4, <2>5
<1> QED BY <1>2, <1>3

(* What lies before the frame that arrives is not under way, so it is got. *)
LEMMA ReceiveIsHear ==
  ASSUME FeedInv, NEW b \in Browsers, Receive(b)
  PROVE  SameFeed(b) \/ \E s \in Seqs : Feed(b)!Hear(s)
<1> DEFINE w == wire[b]
<1>1. OutboxInv /\ IdBehind(b) /\ conn[b] /\ BrowserInv(b) /\ committed \subseteq Seqs
  BY DEF FeedInv, OutboxInv, Types, TableOK, Receive
<1>2. /\ 1 \in 1..Len(w) /\ w[1] \in committed \cup {Gap} /\ w[1] <= cursor[b] /\ w[1] \in Int
      /\ \A j \in 1..Len(w) : j # 1 => w[1] < w[j]
      /\ lastId'[b] = (IF w[1] = Gap THEN lastId[b] ELSE w[1])
      /\ got'[b] = (IF w[1] = Gap THEN got[b] ELSE got[b] \cup {w[1]})
      /\ UNCHANGED <<committed, late, start[b]>>
  BY <1>1, FrameIs
<1>3. CASE w[1] = Gap
  BY <1>2, <1>3 DEF SameFeed
<1>4. CASE w[1] # Gap
  <2>1. w[1] \in committed /\ w[1] \in Seqs
    BY <1>1, <1>2, <1>4
  <2>2. start[b] < w[1] /\ \A g \in got[b] : g < w[1]
    BY <1>1, <1>2, <1>4 DEF IdBehind
  <2>3. ASSUME NEW t \in committed \ late, start[b] < t, t < w[1]
        PROVE  t \in got[b]
    <3>1. t \in Int /\ cursor[b] \in Int
      BY <1>1, BoundsAssumption DEF Seqs, OutboxInv, Types, ServerOK
    <3>2. t <= cursor[b]
      BY <1>2, <2>3, <3>1
    <3>3. t \in Told(b)
      BY <1>1, <2>3, <3>2 DEF BrowserInv, SkipsNothing, InOrder
    <3>4. \A i \in 1..Len(w) : t # w[i]
      BY <1>2, <2>3, <3>1
    <3> QED BY <3>3, <3>4 DEF Told
  <2>4. Feed(b)!Hear(w[1])
    BY <1>2, <1>4, <2>1, <2>2, <2>3 DEF Feed!Hear
  <2> QED BY <2>1, <2>4
<1> QED BY <1>3, <1>4

LEMMA FeedStep ==
  ASSUME FeedInv, [Next]_vars, NEW c \in Browsers
  PROVE  [Feed(c)!Next]_(Feed(c)!feed)
<1>1. OutboxInv
  BY DEF FeedInv
<1>2. start \in [Browsers -> 0..MaxSeq] /\ lastId \in [Browsers -> 0..MaxSeq] /\ got \in [Browsers -> SUBSET Seqs]
  BY <1>1 DEF OutboxInv, Types, BrowsersOK
<1> SUFFICES SameFeed(c) \/ Feed(c)!Next
  BY DEF SameFeed, Feed!feed
<1>3. CASE UNCHANGED vars
  BY <1>3 DEF vars, table, SameFeed
<1>4. CASE AppendOutbox \/ \E x \in Seqs : Rollback(x)
  BY <1>4 DEF AppendOutbox, Rollback, SameFeed
<1>5. ASSUME NEW x \in Seqs, Commit(x) PROVE Feed(c)!Next
  BY <1>1, <1>5, CommitIsAppear DEF Feed!Next
<1>6. ASSUME NEW k \in 0..lastSeq, Restore(k) PROVE Feed(c)!Next
  <2>1. Feed(c)!LoseAfter(k)
    BY <1>2, <1>6 DEF Restore, Feed!LoseAfter
  <2>2. k \in Seqs \/ k = 0
    BY <1>1, BoundsAssumption DEF OutboxInv, Types, TableOK, Seqs
  <2> QED BY <2>1, <2>2 DEF Feed!Next
<1>7. ASSUME NEW b \in Browsers, Connection(b) \/ Receive(b) \/ Answers(b) \/ Drop(b) \/ Watch(b)
      PROVE  SameFeed(c) \/ Feed(c)!Next
  <2>1. CASE b # c
    BY <1>2, <1>7, <2>1
       DEF Connection, Open, Fetch, Yield, Receive, Answers, Serve, SetJobs, Drop, Watch, table, SameFeed
  <2>2. CASE b = c
    <3>1. CASE Fetch(c) \/ Yield(c) \/ Answers(c) \/ Drop(c)
      BY <3>1 DEF Fetch, Yield, Answers, Serve, SetJobs, Drop, table, SameFeed
    <3>2. CASE Watch(c)
      BY <1>2, <3>2 DEF Watch, table, Feed!Next, Feed!Leave
    <3>3. CASE Open(c)
      BY <1>1, <3>3, OpenIsSubscribe DEF Feed!Next
    <3>4. CASE Receive(c)
      BY <3>4, ReceiveIsHear DEF Feed!Next
    <3> QED BY <1>7, <2>2, <3>1, <3>2, <3>3, <3>4 DEF Connection
  <2> QED BY <2>1, <2>2
<1> QED BY <1>3, <1>4, <1>5, <1>6, <1>7 DEF Next, Database

(* Whatever drops, resumes, is restored or commits late, the event stream  *)
(* keeps to every browser what EventFeed promises: an EventSource hears    *)
(* the events in order and goes on where it was.                           *)
THEOREM FeedImplemented == Spec => ImplementsFeed
<1>1. Init => FeedInv /\ \A b \in Browsers : Feed(b)!Init
  <2> SUFFICES ASSUME Init PROVE FeedInv /\ \A b \in Browsers : Feed(b)!Init
    OBVIOUS
  <2>1. \A b \in Browsers : IdBehind(b)
    BY DEF Init, IdBehind
  <2> QED BY <2>1, InitInv DEF Init, FeedInv, Feed!Init
<1>2. FeedInv /\ [Next]_vars => [\A b \in Browsers : [Feed(b)!Next]_(Feed(b)!feed)]_vars
  BY FeedStep
<1> QED BY <1>1, <1>2, FeedInvStep, PTL DEF Spec, ImplementsFeed

=============================================================================
