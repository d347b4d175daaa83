-------------------------- MODULE DisclosureSearch --------------------------
(***************************************************************************)
(* disclosure_retrieval: what a search, a list of sections or a list of    *)
(* financial facts takes for the present filings of a company.  A search   *)
(* chooses its reports in one transaction, has the query embedded, and     *)
(* looks for evidence in another; filings, corrections, newer documents    *)
(* and indexes are committed in between.                                   *)
(***************************************************************************)
EXTENDS OrderedRows

CONSTANTS
    Filing,       \* receipt id -> kind, year, type, period and day of a filing
    Distance,     \* receipt id -> distances of its chunks from the query
    AtFirst,      \* filings stored and indexed already
    AsOf,         \* days a request may look back from
    Starts,       \* history_start
    Details,      \* detail_type, or NoType
    Limits,       \* latest_limit
    HistoryLimit, TopK, Candidates, MaxDistance,
    MaxCommits    \* bound: commits of the other services

None == 0
NoType == ""  \* no detail type
Filings == DOMAIN Filing
Periodic == {"annual", "half", "q1", "q3"}

VARIABLES
    stored,    \* rows of disclosures
    readable,  \* those with a text: status = 'ready'
    index,     \* filing -> index_state of its newest document
    commits,
    request,
    pc,        \* "idle", the step that comes next, or how it ended
    found      \* what the statements have read

vars == <<stored, readable, index, commits, request, pc, found>>

-----------------------------------------------------------------------------
(* Which filings count.                                                    *)

Day(f) == Filing[f].day
Later(f, g) == Day(f) > Day(g) \/ (Day(f) = Day(g) /\ f > g)

\* Faulty: a correction must have the detail type of what it corrects, which
\* filings stored long ago do not have.
FamilyTyped(f) ==
    LET r == Filing[f] IN
    <<r.kind, IF r.kind \in Periodic THEN r.year ELSE None, r.type,
      r.period, IF r.period = None THEN f ELSE None>>

\* The partition of REPORTS_SQL.
Family(f) ==
    LET r == Filing[f] IN
    <<r.kind, IF r.kind \in Periodic THEN r.year ELSE None,
      IF r.kind \in Periodic THEN NoType ELSE r.type,
      r.period, IF r.period = None THEN f ELSE None>>

\* Faulty: as above.
RevisionFamilyTyped(f) == FamilyTyped(f)

\* The partition of filing_revisions, which is written a second time.
RevisionFamily(f) ==
    LET r == Filing[f] IN
    <<r.kind, IF r.kind \in Periodic THEN NoType ELSE r.type,
      IF r.kind \in Periodic THEN r.year ELSE None,
      r.period, IF r.period = None THEN f ELSE None>>

PublishedBy(asOf) == {f \in stored : Day(f) <= asOf}

\* revision = 1
Newest(S, family) == {f \in S : \A g \in S : family[g] = family[f] => ~Later(g, f)}

\* Faulty: a type for each quarter.
TypeOfQuarter(f) ==
    LET r == Filing[f] IN
    IF r.type # NoType THEN r.type
    ELSE CASE r.kind = "annual" -> "A001" [] r.kind = "half" -> "A002"
           [] r.kind = "q1" -> "A003" [] r.kind = "q3" -> "A004"
           [] OTHER -> NoType

\* The detail type of a periodic report follows from its kind.
TypeOf(f) ==
    LET r == Filing[f] IN
    IF r.type # NoType THEN r.type
    ELSE CASE r.kind = "annual" -> "A001" [] r.kind = "half" -> "A002"
           [] r.kind \in {"q1", "q3"} -> "A003"
           [] OTHER -> NoType

\* reports of REPORTS_SQL
Reports ==
    {f \in Newest(PublishedBy(request.asOf), [f \in Filings |-> Family(f)]) :
        request.detail = NoType \/ TypeOf(f) = request.detail}

Ready == {f \in Reports : index[f] = "ready"}

\* report_rows
ReportRows(limit) == FirstOf(Reports, limit, Later)

-----------------------------------------------------------------------------
(* What a statement looks at.                                              *)

LatestScope(f) == f \in found.selected

\* Faulty: the reports of the answer are looked through once more.
HistoryOfAll(f) == Day(f) >= request.start

HistoryScope(f) == f \notin found.selected /\ Day(f) >= request.start

Chunks(S) == UNION {{<<f, n>> : n \in DOMAIN Distance[f]} : f \in S}
DistanceOf(c) == Distance[c[1]][c[2]]
ChunkLess(c, d) ==
    \/ DistanceOf(c) < DistanceOf(d)
    \/ DistanceOf(c) = DistanceOf(d) /\ (c[1] < d[1] \/ (c[1] = d[1] /\ c[2] < d[2]))

\* SEARCH_SQL: the best documents within the distance, then their best chunks.
Evidence(S, documents, chunks) ==
    LET eligible == {c \in Chunks(S) : DistanceOf(c) <= MaxDistance}
        best(f) == Min({DistanceOf(c) : c \in {c \in eligible : c[1] = f}})
        Better(f, g) == best(f) < best(g) \/ (best(f) = best(g) /\ f < g)
    IN  UNION {FirstOf({c \in eligible : c[1] \in ranked}, chunks, ChunkLess) :
                 ranked \in FirstOf({c[1] : c \in eligible}, documents, Better)}

-----------------------------------------------------------------------------
NoRequest == [kind |-> "none"]
Nothing == [selected |-> {}]

Init ==
    /\ stored = AtFirst /\ readable = AtFirst
    /\ index = [f \in Filings |-> IF f \in AtFirst THEN "ready" ELSE "pending"]
    /\ commits = 0
    /\ request = NoRequest /\ pc = "idle" /\ found = Nothing

(* The other services.                                                     *)

Commit ==
    /\ commits < MaxCommits /\ commits' = commits + 1
    /\ UNCHANGED <<request, pc, found>>

\* insert_disclosure; a filing may be collected long after its day.
Store ==
    \E f \in Filings \ stored :
        /\ stored' = stored \cup {f}
        /\ readable' \in {readable, readable \cup {f}}
        /\ UNCHANGED index
        /\ Commit

\* The newest document of a filing is what counts, and has no index yet.
NewDocument ==
    \E f \in {f \in stored : index[f] # "pending"} :
        /\ index' = [index EXCEPT ![f] = "pending"]
        /\ UNCHANGED <<stored, readable>>
        /\ Commit

\* The indexer is done with a document, in the space of this service or not.
IndexDocument ==
    \E f \in {f \in readable : index[f] \in {"pending", "other_space"}} :
        /\ \E state \in {"ready", "empty", "other_space"} \ {index[f]} :
            index' = [index EXCEPT ![f] = state]
        /\ UNCHANGED <<stored, readable>>
        /\ Commit

-----------------------------------------------------------------------------
(* A search.                                                               *)

Step(part, next) ==
    /\ found' = [k \in DOMAIN part \cup DOMAIN found |->
                    IF k \in DOMAIN part THEN part[k] ELSE found[k]]
    /\ pc' = next
    /\ UNCHANGED <<stored, readable, index, commits, request>>

Ask(r, first) ==
    /\ pc = "idle"
    /\ request' = r
    /\ pc' = first
    /\ UNCHANGED <<stored, readable, index, commits, found>>

\* valid_dates: a history that starts after as_of is refused.
AskSearch ==
    \E asOf \in AsOf, start \in Starts, detail \in Details, limit \in Limits,
       history \in BOOLEAN, backend \in {"modal", "http"} :
        Ask([kind |-> "search", asOf |-> asOf, start |-> start, detail |-> detail, limit |-> limit,
             history |-> history, backend |-> backend],
            IF start > asOf THEN "refused" ELSE "select")

Select ==
    /\ pc = "select"
    /\ \E reports \in ReportRows(request.limit) :
        Step([selected |-> reports, listSeen |-> stored], "count")

\* search_counts: without reports, or anything to search in them, the query is
\* not embedded.
Count ==
    /\ pc = "count"
    /\ LET searched == {f \in Ready : LatestScope(f) \/ (request.history /\ HistoryScope(f))}
       IN  Step(<<>>, IF found.selected # {} /\ Chunks(searched) # {} THEN "embed" ELSE "done")

\* embed_query
Embed ==
    /\ pc = "embed"
    /\ \/ Step(<<>>, "latest")
       \/ Step(<<>>, "failed")

\* The reranker chooses among more candidates than the answer has.
ChunkLimit == IF request.backend = "modal" THEN Candidates ELSE TopK

Following == IF request.backend = "modal" THEN "rerank" ELSE "done"

Latest ==
    /\ pc = "latest"
    /\ \E evidence \in Evidence({f \in Ready : LatestScope(f)}, request.limit, ChunkLimit) :
        Step([latest |-> evidence, latestSeen |-> stored],
             IF request.history THEN "history" ELSE Following)

History ==
    /\ pc = "history"
    /\ \E evidence \in Evidence({f \in Ready : HistoryScope(f)}, HistoryLimit, ChunkLimit) :
        Step([history |-> evidence, historySeen |-> stored], Following)

Reranked(chunks) == Limited(chunks, TopK)

\* Both lists are scored, in any order; if either cannot be, the search fails.
Rerank ==
    /\ pc = "rerank"
    /\ \/ \E latest \in Reranked(found.latest) :
            IF request.history
            THEN \E history \in Reranked(found.history) :
                    Step([latest |-> latest, history |-> history], "done")
            ELSE Step([latest |-> latest], "done")
       \/ found.latest \cup (IF request.history THEN found.history ELSE {}) # {}
          /\ Step(<<>>, "failed")

-----------------------------------------------------------------------------
(* Single statements.                                                      *)

\* disclosures
List ==
    /\ pc = "list"
    /\ \E reports \in ReportRows(request.limit) :
        Step([selected |-> reports, listSeen |-> stored], "done")

\* The newest revisions that have a text.
Revisions == Newest(PublishedBy(request.asOf), [f \in Filings |-> RevisionFamily(f)]) \cap readable

\* Faulty: the first filing of the family, not the one before.
FirstOfFamily(f) ==
    LET older == {g \in PublishedBy(request.asOf) : RevisionFamily(g) = RevisionFamily(f) /\ Later(f, g)}
    IN  {g \in older : \A h \in older : ~Later(g, h)}

\* previous_receipt_id
Previous(f) ==
    LET older == {g \in PublishedBy(request.asOf) : RevisionFamily(g) = RevisionFamily(f) /\ Later(f, g)}
    IN  {g \in older : \A h \in older : ~Later(h, g)}

\* The sections of one filing.
ReadSections ==
    /\ pc = "sections"
    /\ Step([parts |-> Revisions \cap {request.receipt}, partsSeen |-> stored], "done")

\* The facts of one year.
ReadFinancials ==
    /\ pc = "financials"
    /\ LET facts == {f \in Revisions : Filing[f].kind \in Periodic /\ Filing[f].year = request.year}
       IN  Step([parts |-> facts, previous |-> [f \in facts |-> Previous(f)], partsSeen |-> stored], "done")

AskOther ==
    \E asOf \in AsOf :
        \/ \E limit \in Limits : Ask([kind |-> "list", asOf |-> asOf, detail |-> NoType, limit |-> limit], "list")
        \/ \E f \in Filings : Ask([kind |-> "sections", asOf |-> asOf, receipt |-> f], "sections")
        \/ \E f \in Filings :
            Ask([kind |-> "financials", asOf |-> asOf, year |-> Filing[f].year], "financials")

-----------------------------------------------------------------------------
Next ==
    \/ Store \/ NewDocument \/ IndexDocument
    \/ AskSearch \/ Select \/ Count \/ Embed \/ Latest \/ History \/ Rerank
    \/ AskOther \/ List \/ ReadSections \/ ReadFinancials

Spec == Init /\ [][Next]_vars

-----------------------------------------------------------------------------
(* Properties.                                                             *)

\* g corrects f: a later filing on the same report of the same period.
Corrects(g, f) ==
    LET r == Filing[f]
        s == Filing[g]
    IN  /\ Later(g, f) /\ r.kind = s.kind
        /\ r.period = s.period /\ r.period # None
        /\ IF r.kind \in Periodic THEN r.year = s.year ELSE r.type = s.type

\* What counts on the day, of what was stored when the statement ran.
Counts(f, seen) ==
    /\ f \in seen /\ Day(f) <= request.asOf
    /\ \A g \in seen : Day(g) <= request.asOf => ~Corrects(g, f)

PeriodicTypes == {<<"annual", "A001">>, <<"half", "A002">>, <<"q1", "A003">>, <<"q3", "A003">>}

\* f is asked for: by its type, or by its kind if it was stored without one.
OfDetail(f) ==
    LET r == Filing[f] IN
    \/ request.detail \in {NoType, r.type}
    \/ r.type = NoType /\ <<r.kind, request.detail>> \in PeriodicTypes

\* A search and a list choose the newest filings of the day and the detail type
\* asked for, those stored without a type too; nothing that is cited, listed or
\* read has been corrected by a filing of that day, although two statements
\* decide what a correction is; the latest evidence is of the reports that are
\* listed and the history of others, although both are looked for after other
\* commits; and the filing said to be the one before is the last that was
\* corrected.
EvidenceIsCurrent ==
    LET cited(part) == {c[1] : c \in found[part]} IN
    /\ "latest" \in DOMAIN found =>
        /\ \A f \in cited("latest") : Counts(f, found.latestSeen) /\ f \in found.selected
        /\ Cardinality(found.latest) <= IF pc = "done" THEN TopK ELSE ChunkLimit
    /\ "history" \in DOMAIN found =>
        /\ \A f \in cited("history") :
            Counts(f, found.historySeen) /\ f \notin found.selected /\ Day(f) >= request.start
        /\ Cardinality(cited("history")) <= HistoryLimit
    /\ "listSeen" \in DOMAIN found =>
        /\ \A f \in found.selected : Counts(f, found.listSeen) /\ OfDetail(f)
        /\ \A g \in found.listSeen \ found.selected : Counts(g, found.listSeen) /\ OfDetail(g) =>
            /\ Cardinality(found.selected) = request.limit
            /\ \A f \in found.selected : Later(f, g)
    /\ "parts" \in DOMAIN found => \A f \in found.parts : Counts(f, found.partsSeen)
    /\ "previous" \in DOMAIN found =>
        \A f \in found.parts : \A g \in found.partsSeen : Corrects(f, g) =>
            /\ found.previous[f] # {}
            /\ \A h \in found.previous[f] : Corrects(f, h) /\ ~Corrects(g, h)

=============================================================================
