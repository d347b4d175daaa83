------------------------------ MODULE ReadSide ------------------------------
(***************************************************************************)
(* Readers and writers of Postgres side by side: market_syncer, the lists  *)
(* and searches of news_http, and the searches of disclosure_retrieval.    *)
(* They share no state: a behaviour is one of the first, the second or the *)
(* third, and what it does not choose stays as it was.                     *)
(***************************************************************************)
EXTENDS MarketSync

CONSTANTS
    Published, Filed, Stated, Named, Alias,
    PageLimits, Depths, PathLimit, NodeLimit, EdgeLimit,
    Filing, Distance, AtFirst, AsOf, Starts, Details, Limits,
    HistoryLimit, TopK, Candidates, MaxDistance,
    MaxCommits

\* Receipt ids and days are ordered.
ASSUME SearchAssumption ==
    /\ IsFiniteSet(DOMAIN Filing) /\ DOMAIN Filing \subseteq Nat
    /\ \A f \in DOMAIN Filing : Filing[f].day \in Nat
    /\ AtFirst \subseteq DOMAIN Filing /\ AsOf \subseteq Nat /\ HistoryLimit \in Nat

\* Articles have numbers and a time; no page is empty by request, some paths are
\* shown, and a company is not one of its own aliases.
ASSUME NewsAssumption ==
    /\ IsFiniteSet(DOMAIN Published) /\ DOMAIN Published \subseteq Nat /\ DOMAIN Published # {}
    /\ \A a \in DOMAIN Published : Published[a] \in Nat
    /\ Filed \in [DOMAIN Published -> Nat]
    /\ PageLimits \subseteq Nat \ {0} /\ Depths \subseteq Nat
    /\ PathLimit \in Nat \ {0} /\ NodeLimit \in Nat
    /\ \A pairs \in Stated : IsFiniteSet(pairs)
    /\ Alias[1] # Alias[2]

VARIABLES
    part,
    assign, fresh, told, entities, relations, nextId,
    commits, request, step, shown, before, steady, found,
    stored, readable, indexed, changes, search, stage, evidence

News == INSTANCE NewsReads WITH pc <- step
Search == INSTANCE DisclosureSearch
    WITH index <- indexed, commits <- changes, request <- search, pc <- stage, found <- evidence

newsVars == <<assign, fresh, told, entities, relations, nextId, commits,
              request, step, shown, before, steady, found>>
searchVars == <<stored, readable, indexed, changes, search, stage, evidence>>
all == <<part, vars, newsVars, searchVars>>

ReadInit == part \in {"market", "news", "disclosures"} /\ Init /\ News!Init /\ Search!Init

ReadNext ==
    /\ UNCHANGED part
    /\ \/ part = "market" /\ Next /\ UNCHANGED <<newsVars, searchVars>>
       \/ part = "news" /\ News!Next /\ UNCHANGED <<vars, searchVars>>
       \/ part = "disclosures" /\ Search!Next /\ UNCHANGED <<vars, newsVars>>

ReadSpec == ReadInit /\ [][ReadNext]_all

\* The pages of a list are exact, whatever is committed between them.
PagesAreExact == News!PagesAreExact
\* The graph is answered with real paths and distances.
GraphAnswersAreTrue == News!GraphAnswersAreTrue
\* No evidence of a corrected filing.
EvidenceIsCurrent == Search!EvidenceIsCurrent

=============================================================================
