------------------------------ MODULE WebSearch -----------------------------
(***************************************************************************)
(* Web search: the bounded short-lived cache in front of the search        *)
(* service. The searches of one process interleave at the await of the     *)
(* service's answer, so an answer is stored long after it was asked for.   *)
(***************************************************************************)
EXTENDS Integers, Sequences, SequencesExt

CONSTANTS Searchers,
          SearchKeys,   \* normalized query, sorted parameters and configuration revision
          ResultBudget, \* max_results of every command
          CacheTtl, CacheEntries,
          MaxSearches,  \* bound on searches begun
          MaxSearchTime \* bound on the monotonic clock

ASSUME SearchAssumption == /\ ResultBudget \in Nat \ {0}
                           /\ CacheTtl \in Nat
                           /\ CacheEntries \in Nat \ {0}
                           /\ MaxSearches \in Nat /\ MaxSearchTime \in Nat

VARIABLES searchClock,  \* the monotonic clock
          cached,       \* the entries, least recently used first
          asking,       \* searcher -> the search whose answer it awaits
          answered,     \* searcher -> its last answer
          searches

searchVars == <<searchClock, cached, asking, answered, searches>>

NotAsking == [key |-> "none", at |-> 0]

-----------------------------------------------------------------------------
\* What the service makes of one exchange: a refusal (deadline, status,
\* content type, byte cap, malformed body, transport), or a report whose hits
\* are cut at the budget and which says why it is partial.

Refusal == [outcome |-> "refused", hits |-> 0, silent |-> FALSE, capped |-> FALSE]

SearchReport(found, unresponsive) ==
    LET capped == found > ResultBudget IN
    [outcome |-> IF capped \/ unresponsive THEN "partial" ELSE "complete",
     hits    |-> IF capped THEN ResultBudget ELSE found,
     silent  |-> unresponsive,
     capped  |-> capped]

Exchanged == {Refusal} \cup {SearchReport(n, u) : n \in 0 .. ResultBudget + 1, u \in BOOLEAN}

-----------------------------------------------------------------------------
AnyReport(report) == report.outcome # "refused"             \* mutated form
Cacheable(report) == report.outcome = "complete"

CachedKeys == {cached[i].key : i \in DOMAIN cached}
EntryAt(k) == CHOOSE i \in DOMAIN cached : cached[i].key = k
EntryOf(k) == cached[EntryAt(k)]

Others(k) == IF k \in CachedKeys THEN RemoveAt(cached, EntryAt(k)) ELSE cached

Fresh(e) == searchClock - e.storedAt <= CacheTtl

StampOnArrival(ask) == searchClock                          \* mutated form
StampOf(ask) == ask.at

Limit == CacheEntries

\* The newest goes to the end; what is over the limit falls off the other end.
Kept(entries) == SubSeq(entries, 1 + (IF Len(entries) > Limit THEN Len(entries) - Limit ELSE 0),
                        Len(entries))

Answered(s, report, askedAt, fromCache) ==
    answered' = [answered EXCEPT ![s] = [report |-> report, age |-> searchClock - askedAt,
                                         fromCache |-> fromCache]]

\* The clock is read once, before the cache is looked up.
BeginSearch(s, k) ==
    /\ asking[s] = NotAsking
    /\ searches < MaxSearches
    /\ searches' = searches + 1
    /\ \/ /\ k \in CachedKeys /\ Fresh(EntryOf(k))
          /\ cached' = Append(Others(k), EntryOf(k))
          /\ Answered(s, EntryOf(k).report, EntryOf(k).askedAt, TRUE)
          /\ UNCHANGED asking
       \/ /\ ~(k \in CachedKeys /\ Fresh(EntryOf(k)))
          /\ asking' = [asking EXCEPT ![s] = [key |-> k, at |-> searchClock]]
          /\ UNCHANGED <<cached, answered>>
    /\ UNCHANGED searchClock

\* The service answers: only a complete report is stored, with the time the
\* search began.
FinishSearch(s, report) ==
    LET ask == asking[s] IN
    /\ ask # NotAsking
    /\ cached' = IF Cacheable(report)
                 THEN Kept(Append(Others(ask.key), [key |-> ask.key, report |-> report,
                                                    storedAt |-> StampOf(ask), askedAt |-> ask.at]))
                 ELSE cached
    /\ Answered(s, report, ask.at, FALSE)
    /\ asking' = [asking EXCEPT ![s] = NotAsking]
    /\ UNCHANGED <<searchClock, searches>>

SearchTick == /\ searchClock < MaxSearchTime
              /\ searchClock' = searchClock + 1
              /\ UNCHANGED <<cached, asking, answered, searches>>

WebSearchInit ==
    /\ searchClock = 0
    /\ cached = <<>>
    /\ asking = [s \in Searchers |-> NotAsking]
    /\ answered = [s \in Searchers |-> [report |-> Refusal, age |-> 0, fromCache |-> FALSE]]
    /\ searches = 0

WebSearchNext ==
    \/ \E s \in Searchers : \/ \E k \in SearchKeys : BeginSearch(s, k)
                            \/ \E report \in Exchanged : FinishSearch(s, report)
    \/ SearchTick

WebSearchSpec == WebSearchInit /\ [][WebSearchNext]_searchVars

-----------------------------------------------------------------------------
\* The cache never holds more than its entries, nor a key twice, whatever
\* searches of one key overlap (CachedWebSearch.search).
WebSearchTypeOK ==
    /\ searchClock \in 0 .. MaxSearchTime
    /\ Len(cached) <= CacheEntries
    /\ \A i, j \in DOMAIN cached : cached[i].key = cached[j].key => i = j
    /\ \A e \in ToSet(cached) : e.key \in SearchKeys /\ e.report \in Exchanged
    /\ \A s \in Searchers : asking[s] = NotAsking \/ asking[s].key \in SearchKeys

\* An answer taken from the cache was asked for no longer ago than the time to
\* live, however long the service took to give it.
SearchIsRecent == \A s \in Searchers : answered[s].fromCache => answered[s].age <= CacheTtl

\* A search is never answered from the cache with a report that an engine was
\* missing from, that was cut at the budget, or that is a refusal: those are
\* asked again.
DegradedIsAskedAgain ==
    \A s \in Searchers : answered[s].fromCache =>
        /\ answered[s].report # Refusal
        /\ ~answered[s].report.silent /\ ~answered[s].report.capped

\* What the cache answers is recent and complete; the types come with it.
WebSearchSafe ==
    /\ WebSearchTypeOK
    /\ SearchIsRecent
    /\ DegradedIsAskedAgain
=============================================================================
