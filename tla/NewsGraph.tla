----------------------------- MODULE NewsGraph -----------------------------
(***************************************************************************)
(* News clusters and their knowledge graph: news_clusterer computes all    *)
(* clusters anew from the articles that are embedded and matches them with *)
(* the ones it finds, while news_graph_builder summarises, one by one, the *)
(* clusters that have changed.  The two share only the database; a step    *)
(* that reads or writes it is a transaction.                               *)
(***************************************************************************)
EXTENDS Integers, FiniteSetsExt

CONSTANTS
    Articles,   \* article ids, numbers in the order of load_embeddings
    Batches,    \* sets of articles, what one commit of embed_pending may embed
    Nears,      \* symmetric relations: the articles within eps of each other
    MinSamples, \* settings.min_samples
    Names,      \* entity names an extraction may give
    Company,    \* [Names -> stock code], the corporation a name may become an alias of
    Mentions,   \* [Articles -> SUBSET Names]
    MaxFailures \* bound: processes killed and extractions failed

ASSUME ClusterAssumption ==
    /\ Articles \subseteq Nat /\ IsFiniteSet(Articles) /\ MinSamples \in Nat \ {0}
    /\ Batches \subseteq SUBSET Articles /\ Nears \subseteq SUBSET (Articles \X Articles)
    /\ \A r \in Nears : \A a, b \in Articles : <<a, b>> \in r => <<b, a>> \in r
    /\ Mentions \in [Articles -> SUBSET Names]

VARIABLES
    near,      \* one of Nears
    embedded,  \* articles with an embedding
    assign,    \* article_clusters: article -> cluster
    clusters,  \* clusters: id -> updated_at, here a version
    nextId,    \* the identity of clusters
    \* the clusterer
    cpc,       \* "idle", "label", "write"
    loaded,    \* the articles it loaded
    labels,    \* loaded article -> label
    frontier,  \* on the stack of _label_clusters
    found,     \* labels given
    \* the graph
    aliases,   \* corporation_aliases, the names among them
    merged,    \* the aliases of the last merge_company_entities (history)
    entities,  \* entities: companies by stock code, others by name
    summaries, \* cluster_summaries: id -> cluster_updated_at, and the articles read (history)
    graph,     \* cluster_entities: id -> entities
    relations, \* relations: id -> pairs of entities
    \* the graph builder
    bpc,       \* "idle", "merge", "find", "cluster", "extract", "write"
    waiting,   \* stale clusters left: id -> the updated_at seen
    read,      \* the articles of the cluster it works on
    extraction, \* what the LLM made of them
    failures   \* processes killed and extractions failed

clusterer == <<cpc, loaded, labels, frontier, found>>
store == <<assign, clusters, nextId>>
graphs == <<merged, entities, summaries, graph, relations>>
builder == <<bpc, waiting, read, extraction>>
newsVars == <<near, embedded, assign, clusters, nextId, cpc, loaded, labels, frontier, found, aliases,
              merged, entities, summaries, graph, relations, bpc, waiting, read, extraction, failures>>

Noise == -1
Members(c) == {a \in DOMAIN assign : assign[a] = c}
Only(f, S) == [x \in S |-> f[x]]

NewsInit ==
    /\ near \in Nears /\ embedded = {}
    /\ assign = <<>> /\ clusters = <<>> /\ nextId = 1
    /\ cpc = "idle" /\ loaded = {} /\ labels = <<>> /\ frontier = {} /\ found = 0
    /\ aliases = {} /\ merged = {} /\ entities = {}
    /\ summaries = <<>> /\ graph = <<>> /\ relations = <<>>
    /\ bpc = "idle" /\ waiting = <<>> /\ read = {} /\ extraction = <<>>
    /\ failures = 0

-----------------------------------------------------------------------------
(* The world: embed_pending commits a batch, market-syncer adds aliases and *)
(* takes none away.                                                         *)

EmbedBatch ==
    /\ \E S \in Batches : ~(S \subseteq embedded) /\ embedded' = embedded \cup S
    /\ UNCHANGED <<failures, near, store, clusterer, aliases, graphs, builder>>

SyncAliases ==
    /\ \E n \in Names \ aliases : aliases' = aliases \cup {n}
    /\ UNCHANGED <<failures, near, embedded, store, clusterer, graphs, builder>>

-----------------------------------------------------------------------------
(* The clusterer.                                                          *)

Load ==
    /\ cpc = "idle"
    /\ loaded' = embedded
    /\ labels' = [a \in embedded |-> Noise]
    /\ frontier' = {} /\ found' = 0
    /\ cpc' = "label"
    /\ UNCHANGED <<failures, near, embedded, store, aliases, graphs, builder>>

\* An article is its own neighbour.
Neighbours(a) == {b \in loaded : b = a \/ <<a, b>> \in near}

Core(a) == Cardinality(Neighbours(a)) >= MinSamples

Seeds == {a \in loaded : Core(a) /\ labels[a] = Noise}

\* _label_clusters, the next seed of the outer loop.
Seed ==
    /\ cpc = "label" /\ frontier = {} /\ Seeds # {}
    /\ labels' = [labels EXCEPT ![Min(Seeds)] = found]
    /\ frontier' = {Min(Seeds)}
    /\ found' = found + 1
    /\ UNCHANGED <<failures, near, embedded, store, cpc, loaded, aliases, graphs, builder>>

\* Faulty: border articles are expanded too.
PushedAll(new) == new

\* A border article gets a label but is not expanded.
Pushed(new) == {b \in new : Core(b)}

\* Of the articles on the stack any one is taken: all of them and what they push
\* get the same label.
Expand ==
    /\ cpc = "label"
    /\ \E a \in frontier :
        LET new == {b \in Neighbours(a) : labels[b] = Noise}
        IN
        /\ labels' = [b \in loaded |-> IF b \in new THEN found - 1 ELSE labels[b]]
        /\ frontier' = (frontier \ {a}) \cup Pushed(new)
    /\ UNCHANGED <<failures, near, embedded, store, cpc, loaded, found, aliases, graphs, builder>>

Labelled ==
    /\ cpc = "label" /\ frontier = {} /\ Seeds = {}
    /\ cpc' = "write"
    /\ UNCHANGED <<failures, near, embedded, store, loaded, labels, frontier, found, aliases, graphs, builder>>

Labels == 0..(found - 1)
Group(l) == {a \in loaded : labels[a] = l}

Shared(l, c) == Cardinality(Group(l) \cap Members(c))
Overlaps == {p \in Labels \X DOMAIN clusters : Shared(p[1], p[2]) > 0}

Preferred(p, q) ==
    LET s == Shared(p[1], p[2])
        t == Shared(q[1], q[2])
    IN  \/ s > t
        \/ s = t /\ p[2] < q[2]
        \/ s = t /\ p[2] = q[2] /\ p[1] < q[1]

\* match: pairs of a label and the old cluster whose id it keeps, the larger
\* overlaps first.
Matching ==
    LET pick[S \in SUBSET Overlaps] ==
            IF S = {} THEN {}
            ELSE LET p == CHOOSE p \in S : \A q \in S \ {p} : Preferred(p, q)
                 IN  {p} \cup pick[{q \in S : q[1] # p[1] /\ q[2] # p[2]}]
    IN  pick[Overlaps]

\* Faulty: an id goes to the first label that shares an article with its cluster.
FirstCome == {p \in Overlaps : \A q \in Overlaps : q[1] < p[1] => q[2] # p[2]}

Matches == Matching

\* Faulty: only a cluster that has gained an article is marked.
Grown(l, c) == ~(Group(l) \subseteq Members(c))

Differs(l, c) == Group(l) # Members(c)

\* Faulty: the rows of a deleted cluster stay.
Orphaned(rows, ids) == rows

\* ON DELETE CASCADE
Cascaded(rows, ids) == Only(rows, DOMAIN rows \cap ids)

\* The labels without an old cluster, and their order, that of their first articles.
Fresh(kept) == {l \in Labels : \A p \in kept : p[1] # l}
Place(l, fresh) == Cardinality({m \in fresh : Min(Group(m)) <= Min(Group(l))})

\* write_clusters, with the old assignment read in its transaction.
Write ==
    /\ cpc = "write"
    /\ LET kept == Matches
           fresh == Fresh(kept)
           id == [l \in Labels |-> IF l \in fresh THEN nextId - 1 + Place(l, fresh)
                                   ELSE (CHOOSE p \in kept : p[1] = l)[2]]
           all == {id[l] : l \in Labels}
       IN
        /\ assign' = [a \in {b \in loaded : labels[b] # Noise} |-> id[labels[a]]]
        /\ clusters' = [c \in all |->
                IF c >= nextId THEN 1
                ELSE LET l == CHOOSE l \in Labels : id[l] = c
                     IN  IF Differs(l, c) THEN clusters[c] + 1 ELSE clusters[c]]
        /\ nextId' = nextId + Cardinality(fresh)
        /\ summaries' = Cascaded(summaries, all)
        /\ graph' = Cascaded(graph, all)
        /\ relations' = Cascaded(relations, all)
    /\ cpc' = "idle"
    /\ loaded' = {} /\ labels' = <<>> /\ found' = 0
    /\ UNCHANGED <<failures, near, embedded, frontier, aliases, merged, entities, builder>>

-----------------------------------------------------------------------------
(* The graph builder; an advisory lock keeps others out.                   *)

Plain(n) == [kind |-> "plain", name |-> n]
Corporation(n) == [kind |-> "company", name |-> Company[n]]

\* Without corporations nothing is done.
Begin ==
    /\ bpc = "idle" /\ aliases # {}
    /\ bpc' = "merge"
    /\ UNCHANGED <<failures, near, embedded, store, clusterer, aliases, graphs, waiting, read, extraction>>

\* What merge_company_entities makes of an entity.
Merged(e) == IF e.kind = "plain" /\ e.name \in aliases THEN Corporation(e.name) ELSE e

\* Faulty: the relations keep the old entity.
RelationsUnmerged == relations

RelationsMerged == [c \in DOMAIN relations |-> {<<Merged(r[1]), Merged(r[2])>> : r \in relations[c]}]

\* merge_company_entities
Merge ==
    /\ bpc = "merge"
    /\ entities' = {Merged(e) : e \in entities}
    /\ graph' = [c \in DOMAIN graph |-> {Merged(e) : e \in graph[c]}]
    /\ relations' = RelationsMerged
    /\ merged' = aliases
    /\ bpc' = "find"
    /\ UNCHANGED <<failures, near, embedded, store, clusterer, aliases, summaries, waiting, read, extraction>>

\* Faulty: a summary once written is never stale.
Unsummarised == DOMAIN clusters \ DOMAIN summaries

Stale == {c \in DOMAIN clusters : c \notin DOMAIN summaries \/ summaries[c].at < clusters[c]}

\* find_stale_clusters
Find ==
    /\ bpc = "find"
    /\ waiting' = Only(clusters, Stale)
    /\ bpc' = "cluster"
    /\ UNCHANGED <<failures, near, embedded, store, clusterer, aliases, graphs, read, extraction>>

Current == Min(DOMAIN waiting)
Others == Only(waiting, DOMAIN waiting \ {Current})

\* find_cluster_articles; a cluster that has lost its articles is passed over.
Read ==
    /\ bpc = "cluster" /\ waiting # <<>>
    /\ IF Members(Current) = {}
       THEN waiting' = Others /\ UNCHANGED <<bpc, read>>
       ELSE read' = Members(Current) /\ bpc' = "extract" /\ UNCHANGED waiting
    /\ UNCHANGED <<failures, near, embedded, store, clusterer, aliases, graphs, extraction>>

\* extract: any of the names mentioned, and relations between all of them, which
\* the LLM need not have listed as entities.
Extract ==
    /\ bpc = "extract"
    /\ LET mentioned == UNION {Mentions[a] : a \in read}
       IN  \E listed \in SUBSET mentioned :
            extraction' = [names |-> listed, links |-> mentioned \X mentioned]
    /\ bpc' = "write"
    /\ UNCHANGED <<failures, near, embedded, store, clusterer, aliases, graphs, waiting, read>>

\* No answer, or one that does not match the schema.
ExtractFails ==
    /\ bpc = "extract" /\ failures < MaxFailures
    /\ failures' = failures + 1
    /\ waiting' = Others /\ read' = {} /\ bpc' = "cluster"
    /\ UNCHANGED <<near, embedded, store, clusterer, aliases, graphs, extraction>>

\* lock_cluster
Unchanged == Current \in DOMAIN clusters /\ clusters[Current] = waiting[Current]

\* resolve
Resolved(n) == IF n \in aliases THEN Corporation(n) ELSE Plain(n)

Put(f, x, v) == [y \in DOMAIN f \cup {x} |-> IF y = x THEN v ELSE f[y]]

\* write_graph, unless the cluster has changed since it was found stale.
WriteGraph ==
    /\ bpc = "write"
    /\ IF Unchanged
       THEN LET E == {Resolved(n) : n \in extraction.names}
                links == {l \in extraction.links : {l[1], l[2]} \subseteq extraction.names}
            IN
                /\ entities' = entities \cup E
                /\ graph' = Put(graph, Current, E)
                /\ relations' = Put(relations, Current, {<<Resolved(l[1]), Resolved(l[2])>> : l \in links})
                /\ summaries' = Put(summaries, Current, [at |-> waiting[Current], of |-> read])
       ELSE UNCHANGED <<entities, graph, relations, summaries>>
    /\ waiting' = Others /\ read' = {} /\ extraction' = <<>> /\ bpc' = "cluster"
    /\ UNCHANGED <<failures, near, embedded, store, clusterer, aliases, merged>>

Finish ==
    /\ bpc = "cluster" /\ waiting = <<>>
    /\ bpc' = "idle"
    /\ UNCHANGED <<failures, near, embedded, store, clusterer, aliases, graphs, waiting, read, extraction>>

\* The builder is killed; what its transactions have committed stays.  (A
\* clusterer that is killed has not written anything.)
Killed ==
    /\ bpc # "idle" /\ failures < MaxFailures
    /\ failures' = failures + 1
    /\ bpc' = "idle" /\ waiting' = <<>> /\ read' = {} /\ extraction' = <<>>
    /\ UNCHANGED <<near, embedded, store, clusterer, aliases, graphs>>

-----------------------------------------------------------------------------
ClustererNext == Load \/ Seed \/ Expand \/ Labelled \/ Write
BuilderNext ==
    \/ Begin \/ Merge \/ Find \/ Read \/ Extract \/ ExtractFails \/ WriteGraph \/ Finish
NewsNext == EmbedBatch \/ SyncAliases \/ ClustererNext \/ BuilderNext \/ Killed

NewsSpec == NewsInit /\ [][NewsNext]_newsVars

\* The daily pipeline runs syncer, clusterer and builder again and again.
FairNewsSpec == NewsSpec /\ WF_newsVars(SyncAliases) /\ WF_newsVars(ClustererNext) /\ WF_newsVars(BuilderNext)

-----------------------------------------------------------------------------
(* Properties.                                                             *)

Entity == {Plain(n) : n \in Names} \cup {Corporation(n) : n \in Names}

\* Every cluster has an article, every row of the graph a cluster.
NewsTypeOK ==
    /\ embedded \subseteq Articles /\ DOMAIN assign \subseteq embedded
    /\ DOMAIN clusters = {assign[a] : a \in DOMAIN assign}
    /\ \A c \in DOMAIN clusters : c \in 1..(nextId - 1) /\ clusters[c] \in Nat \ {0}
    /\ DOMAIN summaries \subseteq DOMAIN clusters
    /\ DOMAIN graph = DOMAIN summaries /\ DOMAIN relations = DOMAIN summaries
    /\ loaded \subseteq embedded /\ labels \in [loaded -> Labels \cup {Noise}]
    /\ read \subseteq Articles /\ merged \subseteq aliases /\ entities \subseteq Entity
    /\ cpc \in {"idle", "label", "write"}
    /\ bpc \in {"idle", "merge", "find", "cluster", "extract", "write"}

\* Core articles a chain of core neighbours connects.
Connected(a, b) ==
    \A S \in SUBSET {c \in loaded : Core(c)} :
        /\ a \in S
        /\ \A c \in S : \A d \in Neighbours(c) : Core(d) => d \in S
        => b \in S

\* The labels are those of DBSCAN: core articles share one exactly when they
\* are connected, an article on the border has that of a core neighbour, and
\* every other one is noise.
LabelsAreDense ==
    cpc = "write" =>
        \A a \in loaded :
            LET cores == {b \in Neighbours(a) : Core(b)} IN
            /\ Core(a) => \A b \in loaded : Core(b) => (labels[a] = labels[b] <=> Connected(a, b))
            /\ IF cores = {} THEN labels[a] = Noise
               ELSE labels[a] # Noise /\ \E b \in cores : labels[a] = labels[b]

\* A summary of a cluster's updated_at was made of exactly the articles its
\* cluster has, whatever the clusterer did while the LLM was at work.
SummaryIsOfItsCluster ==
    \A c \in DOMAIN summaries : summaries[c].at = clusters[c] => summaries[c].of = Members(c)

\* A cluster keeps its id when it and its successor share more articles with
\* each other than with any other; and an id never moves to a cluster that
\* shares none.
IdsAreKept ==
    [][\A c \in DOMAIN clusters : \A d \in DOMAIN clusters' :
        LET shared(x, y) == Cardinality(Members(x) \cap Members(y)')
        IN  /\ /\ \A x \in DOMAIN clusters \ {c} : shared(x, d) < shared(c, d)
               /\ \A y \in DOMAIN clusters' \ {d} : shared(c, y) < shared(c, d)
               => c = d
            /\ c = d => shared(c, d) > 0]_<<assign, clusters>>

\* Relations connect entities of their cluster, and an entity is not listed by
\* name once its name has become an alias and the merge has run.
GraphIsMerged ==
    /\ NewsTypeOK
    /\ \A c \in DOMAIN graph :
        /\ graph[c] \subseteq entities
        /\ \A r \in relations[c] : {r[1], r[2]} \subseteq graph[c]
    /\ \A e \in entities : e.kind = "plain" => e.name \notin merged

\* What readers take from the graph: no row of a name that was merged, and no
\* summary of other articles.
GraphIsSound == GraphIsMerged /\ SummaryIsOfItsCluster

\* When no more articles come, every cluster has in the end a summary of the
\* articles it has, for good.
ClustersSummarised ==
    <>[](\A c \in DOMAIN clusters : c \in DOMAIN summaries /\ summaries[c].of = Members(c))

=============================================================================
