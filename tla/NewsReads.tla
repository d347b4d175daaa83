----------------------------- MODULE NewsReads ------------------------------
(***************************************************************************)
(* news_http: lists read page by page with a cursor, and searches in the   *)
(* graph of entities.  A request is several statements, each on a snapshot *)
(* of its own (READ COMMITTED), and a walk over the pages is several       *)
(* requests; news_clusterer and news_graph_builder commit in between.      *)
(***************************************************************************)
EXTENDS OrderedRows

CONSTANTS
    Published,   \* article -> time; articles are numbers, times half seconds
    Filed,       \* article -> its cluster at first, or None
    Stated,      \* what an extraction may state: sets of pairs of entities
    Named,       \* name of a request -> ids it matches; {} if nothing is left of it
    Alias,       \* a plain entity and the company it turns out to be
    PageLimits, Depths,
    PathLimit, NodeLimit, EdgeLimit,
    MaxCommits   \* bound: commits of the writers

None == 0
Articles == DOMAIN Published
Names == DOMAIN Named

VARIABLES
    assign,     \* article_clusters: article -> cluster or None
    fresh,      \* the next cluster id
    told,       \* clusters with a summary whose entities include the company
    entities,   \* ids
    relations,  \* relation id -> its cluster and its two entities
    nextId,     \* the next relation id
    commits,
    request,    \* what the client asks for
    pc,         \* "idle", the statement that comes next, or how it ended
    shown,      \* rows of the pages so far
    before,     \* the client's cursor
    steady,     \* rows that have not changed since the first page was asked for
    found       \* what the statements of a graph request have read

store == <<assign, fresh, told, entities, relations, nextId>>
walk == <<shown, before, steady>>
vars == <<store, commits, request, pc, walk, found>>

Members(c) == {a \in Articles : assign[a] = c}
Exists(c) == c # None /\ Members(c) # {}

-----------------------------------------------------------------------------
(* Lists.  The rows of a list are its keys: a time and an id.              *)

\* The list of the company's clusters; every other is the list of a cluster's articles.
Stock == None
Start == <<>>  \* no cursor

ArticleRows(c) == {<<Published[a], a>> : a \in Members(c)}
\* A cluster is as new as its newest article.
ClusterRows ==
    {<<Published[a], assign[a]>> : a \in {a \in Articles :
        assign[a] \in told /\ \A b \in Members(assign[a]) : Published[b] <= Published[a]}}
Rows(list) == IF list = Stock THEN ClusterRows ELSE ArticleRows(list)

\* Faulty: rows of one time are not told apart.
TimeLess(k, l) == k[1] < l[1]

\* (published_at, id) < (published_at, id)
KeyLess(k, l) == k[1] < l[1] \/ (k[1] = l[1] /\ k[2] < l[2])

\* published_at DESC, id DESC
Newer(k, l) == k[1] > l[1] \/ (k[1] = l[1] /\ k[2] > l[2])

\* find_cluster_articles, find_stock_clusters
Fetched(list, limit, cursor) ==
    LET rows == {k \in Rows(list) : cursor = Start \/ KeyLess(k, cursor)}
    IN  UNION {Ordered(S, Newer) : S \in FirstOf(rows, limit, Newer)}

\* Faulty: a time without its fraction of a second.
EncodeSeconds(key) == <<key[1] - (key[1] % 2), key[2]>>

\* encode_cursor, decode_cursor: isoformat keeps what the key has.
EncodeCursor(key) == key

\* Faulty: the cursor is that of the row looked at beyond the page.
PaginateBeyond(rows, limit) ==
    IF Len(rows) <= limit THEN [items |-> rows, next |-> Start]
    ELSE [items |-> SubSeq(rows, 1, limit), next |-> EncodeCursor(rows[limit + 1])]

Paginate(rows, limit) ==
    IF Len(rows) <= limit THEN [items |-> rows, next |-> Start]
    ELSE [items |-> SubSeq(rows, 1, limit), next |-> EncodeCursor(rows[limit])]

-----------------------------------------------------------------------------
(* The graph.                                                              *)

\* Faulty: relations are walked from source to target only.
Forward == {[id |-> r, a |-> relations[r].source, b |-> relations[r].target] : r \in DOMAIN relations}

\* Every relation can be walked both ways.
Edges ==
    UNION {{[id |-> r, a |-> relations[r].source, b |-> relations[r].target],
            [id |-> r, a |-> relations[r].target, b |-> relations[r].source]} : r \in DOMAIN relations}

Seeds(name) == Named[name] \cap entities

\* Paths that do not meet a node twice and end at the first target they meet.
Extensions(paths, edges, targets) ==
    UNION {{[nodes |-> Append(p.nodes, e.b), ids |-> Append(p.ids, e.id)] :
              e \in {e \in edges : e.a = Last(p.nodes) /\ ~Contains(p.nodes, e.b)}} :
           p \in {p \in paths : Last(p.nodes) \notin targets}}

\* Faulty: one relation more than asked for.
PathsBeyond(sources, targets, depth) ==
    LET edges == Edges
        level[n \in 0..depth + 1] ==
            IF n = 0 THEN {[nodes |-> <<s>>, ids |-> <<>>] : s \in sources}
            ELSE Extensions(level[n - 1], edges, targets)
    IN  {p \in UNION {level[n] : n \in 1..depth + 1} : Last(p.nodes) \in targets}

PathsBetween(sources, targets, depth) ==
    LET edges == Edges
        level[n \in 0..depth] ==
            IF n = 0 THEN {[nodes |-> <<s>>, ids |-> <<>>] : s \in sources}
            ELSE Extensions(level[n - 1], edges, targets)
    IN  {p \in UNION {level[n] : n \in 1..depth} : Last(p.nodes) \in targets}

\* ORDER BY cardinality(relation_ids), nodes
Precedes(p, q) ==
    \/ Len(p.nodes) < Len(q.nodes)
    \/ /\ Len(p.nodes) = Len(q.nodes)
       /\ \E i \in DOMAIN p.nodes :
            p.nodes[i] < q.nodes[i] /\ \A j \in 1..(i - 1) : p.nodes[j] = q.nodes[j]

\* The recursive walk of get_neighborhood: node -> least number of relations.
Hops(seeds, depth) ==
    LET edges == Edges
        level[n \in 0..depth] ==
            IF n = 0 THEN seeds ELSE {e.b : e \in {e \in edges : e.a \in level[n - 1]}}
    IN  [x \in UNION {level[n] : n \in 0..depth} |->
            Min({n \in 0..depth : x \in level[n]})]

-----------------------------------------------------------------------------
NoRequest == [kind |-> "none"]
Nothing == [snapshot |-> <<>>]

\* Rows of the pairs, with the ids from first on.
Rowed(cluster, pairs, first) ==
    LET order == SetToSeq(pairs)
    IN  [r \in first..(first + Len(order) - 1) |->
            [cluster |-> cluster, source |-> order[r - first + 1][1], target |-> order[r - first + 1][2]]]

Mentioned(pairs) == UNION {{p[1], p[2]} : p \in pairs}

\* The first cluster has been summarised.
Init ==
    /\ assign = Filed
    /\ fresh = Max({Filed[a] : a \in Articles}) + 1
    /\ told = {Filed[a] : a \in Articles} \ {None}
    /\ \E pairs \in Stated :
        /\ relations = Rowed(1, pairs, 1) /\ nextId = Cardinality(pairs) + 1
        /\ entities = {Alias[2]} \cup Mentioned(pairs)
    /\ commits = 0
    /\ request = NoRequest /\ pc = "idle"
    /\ shown = <<>> /\ before = Start /\ steady = {}
    /\ found = Nothing

-----------------------------------------------------------------------------
(* The writers, as a reader sees them: one commit at a time.               *)

Commit ==
    /\ commits < MaxCommits /\ commits' = commits + 1
    /\ UNCHANGED <<request, pc, shown, before, found>>
    /\ steady' = IF request.kind = "list" THEN steady \cap Rows(request.list)' ELSE {}

Without(rows, clusters) == [r \in {r \in DOMAIN rows : rows[r].cluster \notin clusters} |-> rows[r]]

\* write_clusters moves an article, which may found a cluster; one that has lost
\* its last article goes, with everything that refers to it.  Larger changes are
\* several of these, with all that a reader may see in between.
Recluster ==
    \E a \in Articles : \E c \in (1..fresh \ {assign[a]}) \cup {None} :
        /\ c = None \/ c = fresh \/ Exists(c)
        /\ assign' = [assign EXCEPT ![a] = c]
        /\ fresh' = IF c = fresh THEN fresh + 1 ELSE fresh
        /\ LET gone == IF Members(assign[a]) = {a} THEN {assign[a]} ELSE {}
           IN  told' = told \ gone /\ relations' = Without(relations, gone)
        /\ UNCHANGED <<entities, nextId>>
        /\ Commit

\* write_graph replaces all that was said of a cluster; ids are never used again.
Summarise ==
    \E c \in {d \in 1..(fresh - 1) : Exists(d)} : \E pairs \in Stated : \E named \in BOOLEAN :
        /\ LET kept == Without(relations, {c})
               new == Rowed(c, pairs, nextId)
           IN  relations' = [r \in DOMAIN kept \cup DOMAIN new |->
                                IF r \in DOMAIN kept THEN kept[r] ELSE new[r]]
        /\ nextId' = nextId + Cardinality(pairs)
        /\ entities' = entities \cup Mentioned(pairs)
        /\ told' = IF named THEN told \cup {c} ELSE told \ {c}
        /\ UNCHANGED <<assign, fresh>>
        /\ Commit

\* merge_entity: the plain entity goes, its relations are the company's.
Merge ==
    LET now(e) == IF e = Alias[1] THEN Alias[2] ELSE e IN
    /\ Alias[1] \in entities
    /\ entities' = entities \ {Alias[1]}
    /\ relations' = [r \in DOMAIN relations |->
            [relations[r] EXCEPT !.source = now(@), !.target = now(@)]]
    /\ UNCHANGED <<assign, fresh, told, nextId>>
    /\ Commit

-----------------------------------------------------------------------------
(* A client walks through a list.                                          *)

AskList ==
    /\ pc = "idle"
    /\ \E list \in {Stock} \cup ({Filed[a] : a \in Articles} \ {None}) : \E limit \in PageLimits :
        request' = [kind |-> "list", list |-> list, limit |-> limit]
    /\ pc' = "page"
    /\ steady' = Rows(request'.list)
    /\ UNCHANGED <<store, commits, shown, before, found>>

\* list_cluster_articles, list_stock_clusters; without a cursor in the answer the
\* client is done.
Page ==
    /\ pc = "page"
    /\ \E rows \in Fetched(request.list, request.limit + 1, before) :
        LET page == Paginate(rows, request.limit) IN
        /\ shown' = shown \o page.items
        /\ before' = page.next
        /\ pc' = IF rows = <<>> /\ request.list # Stock THEN "exists"
                 ELSE IF page.next = Start THEN "done" ELSE "page"
    /\ UNCHANGED <<store, commits, request, steady, found>>

\* cluster_exists
CheckExists ==
    /\ pc = "exists"
    /\ pc' = IF Exists(request.list) THEN "done" ELSE "missing"
    /\ UNCHANGED <<store, commits, request, walk, found>>

-----------------------------------------------------------------------------
(* A client searches the graph.                                            *)

AskGraph ==
    /\ pc = "idle"
    /\ \E depth \in Depths : \E from \in Names :
        \/ request' = [kind |-> "near", from |-> from, depth |-> depth]
        \/ \E to \in Names : request' = [kind |-> "paths", from |-> from, to |-> to, depth |-> depth]
    /\ pc' = "sources"
    /\ UNCHANGED <<store, commits, walk, found>>

Statements == {"sources", "targets", "nodes", "edges", "paths", "names", "steps"}

\* SET LOCAL statement_timeout: any statement may take too long.
TimeOut ==
    /\ pc \in Statements
    /\ pc' = "timeout"
    /\ UNCHANGED <<store, commits, request, walk, found>>

Read(part, next) ==
    /\ found' = [k \in DOMAIN part \cup DOMAIN found |->
                    IF k \in DOMAIN part THEN part[k] ELSE found[k]]
    /\ pc' = next
    /\ UNCHANGED <<store, commits, request, walk>>

\* _seeds: a name of which normalisation leaves nothing is refused, one that
\* matches nothing is answered with similar ones.
Seeded(name, part, next) ==
    Read(part, IF Named[name] = {} THEN "refused"
               ELSE IF Seeds(name) = {} THEN "missing" ELSE next)

Sources ==
    /\ pc = "sources"
    /\ Seeded(request.from, [sources |-> Seeds(request.from)],
              IF request.kind = "near" THEN "nodes" ELSE "targets")

Targets ==
    /\ pc = "targets"
    /\ Seeded(request.to, [targets |-> Seeds(request.to)], "paths")

\* get_neighborhood; only entities still there are joined.
Nodes ==
    /\ pc = "nodes"
    /\ LET hops == Hops(found.sources, request.depth)
           near == DOMAIN hops \cap entities
           Less(x, y) == hops[x] < hops[y] \/ (hops[x] = hops[y] /\ x < y)
       IN  \E nodes \in FirstOf(near, NodeLimit, Less) :
            Read([snapshot |-> relations, hops |-> [x \in nodes |-> hops[x]],
                  truncated |-> Cardinality(near) > NodeLimit], "edges")

EdgesAmong ==
    /\ pc = "edges"
    /\ LET nodes == DOMAIN found.hops
           rows == {r \in DOMAIN relations : {relations[r].source, relations[r].target} \subseteq nodes}
           hop == [r \in rows |-> Min({found.hops[relations[r].source], found.hops[relations[r].target]})]
           Less(r, s) == hop[r] < hop[s] \/ (hop[r] = hop[s] /\ r < s)
       IN  \E edges \in FirstOf(rows, EdgeLimit, Less) :
            Read([edges |-> {relations[r] : r \in edges},
                  truncated |-> found.truncated \/ Cardinality(rows) > EdgeLimit], "done")

\* get_paths
Paths ==
    /\ pc = "paths"
    /\ LET all == PathsBetween(found.sources, found.targets, request.depth)
       IN  \E paths \in FirstOf(all, PathLimit, Precedes) :
            Read([snapshot |-> relations, paths |-> paths,
                  truncated |-> Cardinality(all) > PathLimit], "names")

\* Names of nodes and rows of relations are read afterwards: what has been merged
\* or replaced meanwhile is not found, and the request fails.
PathNames ==
    /\ pc = "names"
    /\ Read([named |-> entities], "steps")

PathSteps ==
    /\ pc = "steps"
    /\ LET known == \A p \in found.paths :
                        ToSet(p.nodes) \subseteq found.named /\ ToSet(p.ids) \subseteq DOMAIN relations
       IN  Read(<<>>, IF known THEN "done" ELSE "error")

-----------------------------------------------------------------------------
Reader ==
    \/ AskList \/ Page \/ CheckExists
    \/ AskGraph \/ Sources \/ Targets \/ Nodes \/ EdgesAmong
    \/ Paths \/ PathNames \/ PathSteps \/ TimeOut
Next == Recluster \/ Summarise \/ Merge \/ Reader

Spec == Init /\ [][Next]_vars

-----------------------------------------------------------------------------
(* Properties.                                                             *)

\* Pages go from newer to older, so that no row comes twice, and when the last
\* has come, every row that was there all the time with the same key has come
\* too, whatever was added, moved or removed between the pages.
PagesAreExact ==
    /\ \A i, j \in DOMAIN shown : i < j =>
        \/ shown[i][1] > shown[j][1]
        \/ shown[i][1] = shown[j][1] /\ shown[i][2] > shown[j][2]
    /\ (request.kind = "list" /\ pc \in {"done", "missing"}) => steady \subseteq ToSet(shown)

\* Distances in the graph as the statement saw it.
Ends(r) == {found.snapshot[r].source, found.snapshot[r].target}
Within(S, distance) ==
    LET ball[n \in 0..distance] ==
            IF n = 0 THEN S
            ELSE ball[n - 1] \cup UNION {Ends(r) : r \in {r \in DOMAIN found.snapshot :
                                                            Ends(r) \cap ball[n - 1] # {}}}
    IN  ball[distance]

IsPath(p) ==
    /\ Len(p.ids) \in 1..request.depth /\ Len(p.nodes) = Len(p.ids) + 1
    /\ Cardinality(ToSet(p.nodes)) = Len(p.nodes)
    /\ \A i \in DOMAIN p.ids : Ends(p.ids[i]) = {p.nodes[i], p.nodes[i + 1]}
    /\ Head(p.nodes) \in found.sources
    /\ \A i \in DOMAIN p.nodes : p.nodes[i] \in found.targets <=> i = Len(p.nodes)

\* Paths are chains of relations of one moment, no longer than asked for, and a
\* shortest one is among them whatever the limit cuts off.  The neighbours of a
\* name are all that are near enough, each at its distance; if they are too
\* many, only the farthest are left out.
GraphAnswersAreTrue ==
    /\ "paths" \in DOMAIN found =>
        LET from == found.sources \ found.targets
            meets(S) == {n \in 1..request.depth : Within(S, n) \cap found.targets # {}}
            listed(S) == \E p \in found.paths : Head(p.nodes) \in S /\ Len(p.ids) = Min(meets(S))
        IN
        /\ \A p \in found.paths : IsPath(p)
        /\ meets(from) # {} => listed(from)
        /\ ~found.truncated => \A s \in from : meets({s}) # {} => listed({s})
    /\ "hops" \in DOMAIN found =>
        /\ \A x \in DOMAIN found.hops :
            LET n == found.hops[x] IN
            /\ n <= request.depth /\ x \in Within(found.sources, n)
            /\ n = 0 \/ x \notin Within(found.sources, n - 1)
        /\ \A r \in DOMAIN found.snapshot : \A y \in Ends(r) \ DOMAIN found.hops :
            y \in Within(found.sources, request.depth) =>
                /\ found.truncated
                /\ \A x \in DOMAIN found.hops :
                    found.hops[x] = 0 \/ y \notin Within(found.sources, found.hops[x] - 1)
    /\ "edges" \in DOMAIN found =>
        \A e \in found.edges : {e.source, e.target} \subseteq DOMAIN found.hops

=============================================================================
