------------------------------- MODULE Chunking -----------------------------
(***************************************************************************)
(* Structural chunking of a canonical document: the walk that collects its *)
(* text units, and the loop that groups them under the token budget, one   *)
(* action per turn.  A text is a sequence of characters, "w" of a word and *)
(* "_" of white space; the text of a table is that of its flattened cells. *)
(***************************************************************************)
EXTENDS Integers, Sequences, FiniteSetsExt

CONSTANTS Documents, \* canonical documents: the root ids, and per id a node
          MaxTokens  \* the chunker profile's budget

Containers == {"section", "list"}   \* and document, page, slide, sheet, figure, generic
Leaves     == {"heading", "body", "table"}

\* The ids the walk goes on to from a node, and from the document.
Below(d, id) == IF d.nodes[id].kind \in Containers THEN d.nodes[id].children ELSE <<>>

\* A parser numbers its blocks and names one parent for each: an identity is
\* one node's, which is a root or has one place among its parent's children.
WellFormed(d) ==
    LET Ids == DOMAIN d.nodes IN
    /\ \A id \in Ids : /\ d.nodes[id].kind \in Containers \cup Leaves
                       /\ d.nodes[id].text \in Seq({"w", "_"})
                       /\ Below(d, id) \in Seq(Ids)
    /\ d.roots \in Seq(Ids)
    /\ \A i, j \in DOMAIN d.roots : d.roots[i] = d.roots[j] => i = j
    /\ \A p \in Ids : \A i \in DOMAIN Below(d, p) :
          /\ \A j \in DOMAIN d.roots : d.roots[j] # Below(d, p)[i]
          /\ \A q \in Ids : \A j \in DOMAIN Below(d, q) : Below(d, p)[i] = Below(d, q)[j] => p = q /\ i = j

ASSUME ProfileAssumption == MaxTokens \in Nat \ {0}
ASSUME DocumentAssumption == \A d \in Documents : WellFormed(d)

VARIABLES
    document,
    stack,    \* the ids the walk has still to visit, in order
    walked,   \* history: the ids it has visited
    units,
    phase,    \* "walk", "group", "gather", "split" or "done"
    next,     \* the index of the next unit
    cursor,   \* the unit that others are merged into
    cut,      \* where the next window of the unit being split starts
    chunks

chunkingVars == <<document, stack, walked, units, phase, next, cursor, cut, chunks>>

NoUnit == <<>>

WordEnds(text) == {i \in DOMAIN text : text[i] = "w" /\ (i = Len(text) \/ text[i + 1] # "w")}

Tokens(text) == Cardinality(WordEnds(text))

IsBlank(text) == \A i \in DOMAIN text : text[i] = "_"

-----------------------------------------------------------------------------
\* The walk: a container stands for its children, a blank text for nothing; a
\* table is one unit.

NewUnit(d, id) ==
    LET n == d.nodes[id] IN
    [kind |-> n.kind, text |-> n.text, node |-> id, from |-> 0, to |-> Len(n.text),
     spans |-> <<[node |-> id, from |-> 0, to |-> Len(n.text)]>>]

IsUnit(d, id) == d.nodes[id].kind \notin Containers /\ ~IsBlank(d.nodes[id].text)

Visit ==
    /\ phase = "walk" /\ stack # <<>>
    /\ walked' = Append(walked, Head(stack))
    /\ stack' = Below(document, Head(stack)) \o Tail(stack)
    /\ units' = IF IsUnit(document, Head(stack)) THEN Append(units, NewUnit(document, Head(stack))) ELSE units
    /\ UNCHANGED <<document, phase, next, cursor, cut, chunks>>

StartGrouping ==
    /\ phase = "walk" /\ stack = <<>>
    /\ phase' = "group"
    /\ UNCHANGED <<document, stack, walked, units, next, cursor, cut, chunks>>

-----------------------------------------------------------------------------
\* A merged unit keeps the first one's node and span as its citation target.
Joined(a, b) == a.text \o <<"_">> \o b.text
FirstSpanOnly(a, b) == [a EXCEPT !.text = Joined(a, b)]     \* mutated form
Merged(a, b) == [a EXCEPT !.text = Joined(a, b), !.spans = @ \o b.spans]

Overflows(unit) == Tokens(unit.text) > MaxTokens

FitsAlone(a, b) == ~Overflows(b)                            \* mutated form
Fit(a, b) == Tokens(Joined(a, b)) <= MaxTokens

Grouping == phase = "group" /\ next <= Len(units)
Unit == units[next]

\* The unit a heading is merged with, when there is one.
Attaches ==
    /\ Unit.kind = "heading"
    /\ next < Len(units) /\ units[next + 1].kind # "table" /\ Fit(Unit, units[next + 1])

\* A table is never split; a heading with nothing to attach is its own chunk.
KeepWhole ==
    /\ Grouping
    /\ \/ Unit.kind = "table"
       \/ ~Overflows(Unit) /\ Unit.kind = "heading" /\ ~Attaches
    /\ chunks' = Append(chunks, Unit)
    /\ next' = next + 1
    /\ UNCHANGED <<document, stack, walked, units, phase, cursor, cut>>

AttachHeading ==
    /\ Grouping /\ ~Overflows(Unit) /\ Attaches
    /\ chunks' = Append(chunks, Merged(Unit, units[next + 1]))
    /\ next' = next + 2
    /\ UNCHANGED <<document, stack, walked, units, phase, cursor, cut>>

\* Body units and small tables join until a heading, an overflow or the budget.
StartGathering ==
    /\ Grouping /\ ~Overflows(Unit) /\ Unit.kind \notin {"table", "heading"}
    /\ phase' = "gather"
    /\ cursor' = Unit
    /\ next' = next + 1
    /\ UNCHANGED <<document, stack, walked, units, cut, chunks>>

Joins ==
    /\ next <= Len(units)
    /\ Unit.kind # "heading"
    /\ Overflows(Unit) => Unit.kind = "table"
    /\ Fit(cursor, Unit)

Gather ==
    /\ phase = "gather" /\ Joins
    /\ cursor' = Merged(cursor, Unit)
    /\ next' = next + 1
    /\ UNCHANGED <<document, stack, walked, units, phase, cut, chunks>>

EndGathering ==
    /\ phase = "gather" /\ ~Joins
    /\ phase' = "group"
    /\ chunks' = Append(chunks, cursor)
    /\ UNCHANGED <<document, stack, walked, units, next, cursor, cut>>

-----------------------------------------------------------------------------
StartSplitting ==
    /\ Grouping /\ Overflows(Unit) /\ Unit.kind # "table"
    /\ phase' = "split"
    /\ cut' = 0
    /\ UNCHANGED <<document, stack, walked, units, next, cursor, chunks>>

\* A window ends after the budget's last word, or one character on when no
\* word is left.
WindowEnd(text, start) ==
    LET taken == {i \in WordEnds(text) : i > start /\ Tokens(SubSeq(text, start + 1, i)) <= MaxTokens}
        least == Min({Len(text), start + 1})
    IN Max(taken \cup {least})

Window(unit, start, end) ==
    [unit EXCEPT !.from = start, !.to = end, !.text = SubSeq(unit.text, start + 1, end),
                 !.spans = <<[node |-> unit.node, from |-> start, to |-> end]>>]

SkipsAhead(end) == end + 1                                  \* mutated form
NextStart(end) == end

Split ==
    /\ phase = "split" /\ cut < Len(Unit.text)
    /\ LET end == WindowEnd(Unit.text, cut) IN
       /\ chunks' = Append(chunks, Window(Unit, cut, end))
       /\ cut' = NextStart(end)
    /\ UNCHANGED <<document, stack, walked, units, phase, next, cursor>>

EndSplitting ==
    /\ phase = "split" /\ cut >= Len(Unit.text)
    /\ phase' = "group"
    /\ next' = next + 1
    /\ UNCHANGED <<document, stack, walked, units, cursor, cut, chunks>>

\* A chunk is known by its citation target; the identity says nothing of what
\* was merged behind it.
NodeOnly(c) == <<c.node>>                                   \* mutated form
ChunkId(c) == <<c.node, c.from, c.to>>

Finish ==
    /\ phase = "group" /\ next > Len(units)
    /\ phase' = "done"
    /\ UNCHANGED <<document, stack, walked, units, next, cursor, cut, chunks>>

-----------------------------------------------------------------------------
NothingDone ==
    /\ stack = document.roots /\ walked = <<>> /\ units = <<>>
    /\ phase = "walk" /\ next = 1 /\ cursor = NoUnit /\ cut = 0 /\ chunks = <<>>

ChunkingInit == document \in Documents /\ NothingDone

ChunkingNext ==
    \/ Visit \/ StartGrouping
    \/ KeepWhole \/ AttachHeading
    \/ StartGathering \/ Gather \/ EndGathering
    \/ StartSplitting \/ Split \/ EndSplitting
    \/ Finish

ChunkingSpec == ChunkingInit /\ [][ChunkingNext]_chunkingVars

-----------------------------------------------------------------------------
ChildrenOf(id) == Range(Below(document, id))

\* Nodes are visited in document order: each is a root or comes after its
\* parent; between a node and its next sibling come only descendants of the
\* first, each with its parent there; none is visited twice, and at the end
\* none is left out (_collect_units, _walk_units).
AdjacentIn(list, a, b) == \E i \in 1 .. Len(list) - 1 : a = list[i] /\ b = list[i + 1]

Adjacent(d, a, b) == \/ AdjacentIn(d.roots, a, b)
                     \/ \E p \in DOMAIN d.nodes : AdjacentIn(Below(d, p), a, b)

DocumentOrder ==
    /\ \A i, j \in DOMAIN walked : walked[i] = walked[j] => i = j
    /\ \A j \in DOMAIN walked :
          walked[j] \in Range(document.roots) \/ \E i \in 1 .. j - 1 : walked[j] \in ChildrenOf(walked[i])
    /\ \A i, j \in DOMAIN walked : Adjacent(document, walked[i], walked[j]) =>
          i < j /\ \A k \in i + 1 .. j - 1 : \E p \in i .. k - 1 : walked[k] \in ChildrenOf(walked[p])
    /\ phase # "walk" => /\ Range(document.roots) \subseteq Range(walked)
                         /\ \A id \in Range(walked) : ChildrenOf(id) \subseteq Range(walked)

\* The units are the leaves with text, in the order of the walk (_walk_units).
UnitsAreLeaves ==
    /\ \A u \in DOMAIN units : IsUnit(document, units[u].node) /\ units[u] = NewUnit(document, units[u].node)
    /\ \A i \in DOMAIN walked : IsUnit(document, walked[i]) => \E u \in DOMAIN units : units[u].node = walked[i]
    /\ \A u, v \in DOMAIN units : u < v =>
          \E i, j \in DOMAIN walked : i < j /\ walked[i] = units[u].node /\ walked[j] = units[v].node

\* Taken in order, the spans of the chunks go through the units from the first
\* to the last without an overlap, and at the end they have left out no
\* character: nothing is lost to retrieval, nothing indexed twice
\* (_group_units, _split_unit).
Covers(s, u, c) == s.node = units[u].node /\ s.from < c /\ c <= s.to

Precedes(s, t) ==
    \E u, v \in DOMAIN units : /\ units[u].node = s.node /\ units[v].node = t.node
                               /\ u < v \/ (u = v /\ s.to <= t.from)

SpansTile ==
    /\ \A k, l \in DOMAIN chunks : \A i \in DOMAIN chunks[k].spans, j \in DOMAIN chunks[l].spans :
          k < l \/ (k = l /\ i < j) => Precedes(chunks[k].spans[i], chunks[l].spans[j])
    /\ phase = "done" =>
          \A u \in DOMAIN units : \A c \in 1 .. Len(units[u].text) :
             \E k \in DOMAIN chunks : \E i \in DOMAIN chunks[k].spans : Covers(chunks[k].spans[i], u, c)

\* A citation shows what was indexed: the characters of each span stand
\* together, in a chunk's text (_merge_units, _split_unit).
CitedText ==
    \A k \in DOMAIN chunks : \A i \in DOMAIN chunks[k].spans :
       LET s == chunks[k].spans[i] IN
       \E u \in DOMAIN units : \E at \in 0 .. Len(chunks[k].text) :
          /\ units[u].node = s.node
          /\ s.from < s.to /\ s.to <= Len(units[u].text) /\ at + s.to - s.from <= Len(chunks[k].text)
          /\ \A c \in s.from + 1 .. s.to : chunks[k].text[at + c - s.from] = units[u].text[c]

\* A chunk exceeds the token budget only when it is a table standing alone,
\* and only what exceeds it is split, a table never (_group_units).
ChunkFitsBudget ==
    \A k \in DOMAIN chunks :
       /\ Overflows(chunks[k]) => chunks[k].kind = "table" /\ Len(chunks[k].spans) = 1
       /\ \A i \in DOMAIN chunks[k].spans : \A u \in DOMAIN units :
             LET s == chunks[k].spans[i] IN
             s.node = units[u].node /\ (units[u].kind = "table" \/ ~Overflows(units[u])) =>
                s.from = 0 /\ s.to = Len(units[u].text)

\* No two chunks of a document share an identity (canonical_chunk_id).
ChunksAreDistinct ==
    \A k, l \in DOMAIN chunks : ChunkId(chunks[k]) = ChunkId(chunks[l]) => k = l

\* What an index and its citations rely on, together: the units are the leaves
\* in document order, the chunks tile them and hold the text they cite, within
\* the budget of the model, and no two have one identity.
ChunkingSafe ==
    /\ DocumentOrder /\ UnitsAreLeaves
    /\ SpansTile /\ CitedText
    /\ ChunkFitsBudget /\ ChunksAreDistinct
=============================================================================
