------------------------------- MODULE WebFetch -----------------------------
(***************************************************************************)
(* The fetch service: fetches that share one client and its pool of        *)
(* connections follow redirects hop by hop, while names change what they   *)
(* resolve to and servers answer as they like.                             *)
(***************************************************************************)
EXTENDS Integers, Sequences, SequencesExt

CONSTANTS Fetchers,
          Urls,          \* records: host, and whether normalize_url admits it
          NameAnswers,   \* what a name may resolve to: sequences of addresses
          MaxRedirects,
          MaxFetches,    \* bound on fetches begun
          MaxDnsChanges  \* bound on changes of what names resolve to

ASSUME FetchAssumption == /\ MaxRedirects \in Nat
                          /\ MaxFetches \in Nat
                          /\ MaxDnsChanges \in Nat
                          /\ \A answer \in NameAnswers : answer \in Seq(ToSet(answer))

VARIABLES dns,      \* host -> the addresses it resolves to now
          pool,     \* idle connections: host and the address dialled for it
          fetching, \* fetcher -> phase, request, target, chain, hops, address
          visited,  \* fetcher -> the URLs its fetch has requested so far
          record,   \* fetcher -> the retrieval record of its last fetch
          fetches, dnsChanges

fetchVars == <<dns, pool, fetching, visited, record, fetches, dnsChanges>>

Hosts == {u.host : u \in Urls}
NoAddress == [form |-> "none", blocked |-> TRUE]
NoUrl == [host |-> "none", admitted |-> FALSE, path |-> 0]
NoFetch == [phase |-> "idle", requested |-> NoUrl, target |-> NoUrl, chain |-> <<>>, hops |-> 0,
            address |-> NoAddress]
Refused == [outcome |-> "refused", requested |-> NoUrl, final |-> NoUrl, chain |-> <<>>]

-----------------------------------------------------------------------------
\* urls.py: scheme, credentials, host and port are accepted or the URL is refused.
Admitted(u) == u.admitted

\* classify_address: an address that embeds an IPv4 one is judged by that one,
\* any other by the tables of its family.
PublicAddress(a) == IF a.form = "embedding" THEN ~a.innerBlocked ELSE ~a.blocked

SomePublic(candidates) == \E a \in ToSet(candidates) : PublicAddress(a)   \* mutated form
AllPublic(candidates) == \A a \in ToSet(candidates) : PublicAddress(a)

\* The one address to dial; an empty answer or one bad candidate refuses all.
Selectable(h) == dns[h] # <<>> /\ AllPublic(dns[h])
Pinned(h) == Head(dns[h])

-----------------------------------------------------------------------------
Become(f, state) == fetching' = [fetching EXCEPT ![f] = state]

EndFetch(f, outcome) ==
    /\ Become(f, NoFetch)
    /\ record' = [record EXCEPT ![f] = outcome]

BeginFetch(f, u) ==
    /\ fetching[f].phase = "idle"
    /\ fetches < MaxFetches
    /\ fetches' = fetches + 1
    /\ visited' = [visited EXCEPT ![f] = <<>>]
    /\ IF Admitted(u)
       THEN /\ Become(f, [NoFetch EXCEPT !.phase = "send", !.requested = u, !.target = u])
            /\ UNCHANGED record
       ELSE EndFetch(f, Refused)
    /\ UNCHANGED <<dns, pool, dnsChanges>>

\* A hop reuses an idle connection to the host, or resolves, validates and
\* dials; the connection is the hop's until its response is closed.
SendHop(f) ==
    LET h == fetching[f].target.host IN
    /\ fetching[f].phase = "send"
    /\ \/ \E c \in pool :
            /\ c.host = h
            /\ pool' = pool \ {c}
            /\ Become(f, [fetching[f] EXCEPT !.phase = "sent", !.address = c.address])
            /\ visited' = [visited EXCEPT ![f] = Append(@, fetching[f].target)]
            /\ UNCHANGED record
       \/ /\ ~\E c \in pool : c.host = h
          /\ Selectable(h)
          /\ Become(f, [fetching[f] EXCEPT !.phase = "sent", !.address = Pinned(h)])
          /\ visited' = [visited EXCEPT ![f] = Append(@, fetching[f].target)]
          /\ UNCHANGED <<pool, record>>
       \/ /\ ~\E c \in pool : c.host = h
          /\ ~Selectable(h)
          /\ EndFetch(f, Refused)
          /\ UNCHANGED <<pool, visited>>
    /\ UNCHANGED <<dns, fetches, dnsChanges>>

AfterTarget(f, u) == Append(fetching[f].chain, u)           \* mutated form
Followed(f, u) == Append(fetching[f].chain, fetching[f].target)

HopLeft(f) == fetching[f].hops < MaxRedirects

\* A redirect with a location: its response is closed unread, so the
\* connection goes too; the new target is normalized again.
Redirected(f, u) ==
    /\ fetching[f].phase = "sent"
    /\ IF Admitted(u) /\ HopLeft(f)
       THEN /\ Become(f, [fetching[f] EXCEPT !.phase = "send", !.chain = Followed(f, u),
                                             !.target = u, !.hops = @ + 1, !.address = NoAddress])
            /\ UNCHANGED record
       ELSE EndFetch(f, Refused)
    /\ UNCHANGED <<dns, pool, visited, fetches, dnsChanges>>

\* A body within the byte cap (also that of a redirect without a location):
\* read to its end, so the connection may stay open.
Captured(f) ==
    LET now == fetching[f] IN
    /\ now.phase = "sent"
    /\ EndFetch(f, [outcome |-> "content", requested |-> now.requested, final |-> now.target,
                    chain |-> now.chain])
    /\ \/ pool' = pool \cup {[host |-> now.target.host, address |-> now.address]}
       \/ pool' = pool
    /\ UNCHANGED <<dns, visited, fetches, dnsChanges>>

\* An error status, a body over the cap, a transport error, the deadline.
Failed(f) ==
    /\ fetching[f].phase # "idle"
    /\ EndFetch(f, Refused)
    /\ UNCHANGED <<dns, pool, visited, fetches, dnsChanges>>

\* A name resolves to something else from now on.
DnsChanges(h, candidates) ==
    /\ dnsChanges < MaxDnsChanges
    /\ dnsChanges' = dnsChanges + 1
    /\ dns[h] # candidates
    /\ dns' = [dns EXCEPT ![h] = candidates]
    /\ UNCHANGED <<pool, fetching, visited, record, fetches>>

\* A server closes a connection that is idle.
IdleClosed(c) ==
    /\ pool' = pool \ {c}
    /\ UNCHANGED <<dns, fetching, visited, record, fetches, dnsChanges>>

WebFetchInit ==
    /\ dns \in [Hosts -> NameAnswers]
    /\ pool = {}
    /\ fetching = [f \in Fetchers |-> NoFetch]
    /\ visited = [f \in Fetchers |-> <<>>]
    /\ record = [f \in Fetchers |-> Refused]
    /\ fetches = 0 /\ dnsChanges = 0

WebFetchNext ==
    \/ \E f \in Fetchers : \/ SendHop(f) \/ Captured(f) \/ Failed(f)
                           \/ \E u \in Urls : BeginFetch(f, u) \/ Redirected(f, u)
    \/ \E h \in Hosts, candidates \in NameAnswers : DnsChanges(h, candidates)
    \/ \E c \in pool : IdleClosed(c)

WebFetchSpec == WebFetchInit /\ [][WebFetchNext]_fetchVars

-----------------------------------------------------------------------------
\* A fetch makes at most the allowed redirects, and a connection is in use by
\* a hop that was sent and by no other.
WebFetchTypeOK ==
    /\ dns \in [Hosts -> NameAnswers]
    /\ \A f \in Fetchers :
          /\ fetching[f].phase \in {"idle", "send", "sent"}
          /\ fetching[f].target \in Urls \cup {NoUrl}
          /\ Len(fetching[f].chain) = fetching[f].hops
          /\ Len(visited[f]) <= MaxRedirects + 1
          /\ fetching[f].phase = "sent" <=> fetching[f].address # NoAddress

\* Every connection, in use or kept for a later fetch, leads to a public
\* address, through any redirects and however names change what they resolve
\* to (ValidatingNetworkBackend.connect_tcp, select_pinned_address).
DialsPublicOnly ==
    /\ \A c \in pool : PublicAddress(c.address)
    /\ \A f \in Fetchers : fetching[f].phase = "sent" => PublicAddress(fetching[f].address)

\* The retrieval record names the URL asked for, every URL requested on the
\* way in order, and the one whose content it holds (HardenedFetchService).
RecordTellsTheTrip ==
    \A f \in Fetchers : fetching[f].phase = "idle" /\ record[f].outcome = "content" =>
        /\ visited[f] = Append(record[f].chain, record[f].final)
        /\ visited[f][1] = record[f].requested
        /\ \A i \in DOMAIN visited[f] : Admitted(visited[f][i])

\* A fetch connects to public addresses only and its record tells the whole
\* trip; the types come with it.
WebFetchSafe ==
    /\ WebFetchTypeOK
    /\ DialsPublicOnly
    /\ RecordTellsTheTrip
=============================================================================
