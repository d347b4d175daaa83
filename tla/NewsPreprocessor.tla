-------------------------- MODULE NewsPreprocessor --------------------------
(***************************************************************************)
(* news_preprocessor: an hourly run reads the feeds of the publishers and, *)
(* once a day, DART's list of filings, stores what is new and embeds the   *)
(* articles that still lack a vector.  Where the daily collection stands   *)
(* is one row, written in three places of a run that may die between them. *)
(*                                                                         *)
(* A day has two halves, before and after the collection hour.             *)
(***************************************************************************)
EXTENDS FilingText

CONSTANTS
    Papers,        \* what is there to collect, one of a sequence of editions,
                   \* and HISTORY_LIMIT
    HistoryDays,   \* HISTORY_DAYS
    Attempts,      \* Settings.attempts, the tries of one request
    BatchLimit,    \* embed_batch_limit, the rows of one transaction
    BatchSize,     \* EMBED_BATCH_SIZE
    MaxStarts,     \* bound: runs of one half of a day
    Watched        \* the filings whose arrival is asked for

VARIABLES
    edition,    \* which of the Papers; it does not change
    day, late,  \* today, and is the collection hour past?
    published,  \* filing -> its date, or Never
    starts,     \* runs of this half
    pc,         \* "idle", "failed", "source", "remember", "article", "save",
                \* "watermark", "embed", "exit"
    source,     \* index of the feed the run is at
    todo,       \* entries it has still to fetch
    plan,       \* collection_plan, and what the listing gave
    failed,     \* has anything of this feed failed?
    results,    \* [news, filings]: has anything of either kind failed?
    watermark,  \* the newest article this run embeds
    state,      \* the row of disclosure_collection_state
    articles,   \* the rows of articles, in the order of their ids
    disclosures,\* receipts with a row and a document
    archive,    \* receipts whose archive file is on disk
    exit,       \* code of the last run of this half, or -1
    faults

environment == <<edition, day, late, published, starts>>
process == <<pc, source, todo, plan, failed, results, watermark>>
database == <<state, articles, disclosures, archive>>
vars == <<environment, process, database, exit, faults>>

Never == -99
NoPlan == [for |-> Never]
Paper == Papers[edition]
Filings == DOMAIN Paper.filings

Publishers == {"chosun", "hankyung", "maeil", "yonhap", "edaily", "sedaily"}

\* What an item of a feed says of itself.
FeedItem ==
    [source : Publishers, sections : SUBSET STRING, since : Int, complete : BOOLEAN,
     economy : BOOLEAN, digest : BOOLEAN, marker : BOOLEAN, gone : BOOLEAN,
     newsId : BOOLEAN, text : BOOLEAN, image : BOOLEAN]

\* Items and filings have numbers; a filing has its date, no later than the
\* first day, or is published while the days go by.
ASSUME NewsAssumption ==
    /\ HistoryDays \in Nat \ {0} /\ Never < 1 - HistoryDays
    /\ Attempts \in 1..3 /\ BatchLimit \in Nat \ {0} /\ BatchSize \in Nat \ {0}
    /\ MaxStarts \in Nat
    /\ \A e \in DOMAIN Papers :
        /\ Papers[e].last \in Nat \ {0} /\ Papers[e].faults \in Nat /\ Papers[e].limit \in Nat
        /\ \A i \in DOMAIN Papers[e].items : i \in Nat /\ Papers[e].items[i] \in FeedItem
        /\ \A f \in DOMAIN Papers[e].filings :
            f \in Nat /\ Papers[e].filings[f].date \in Never..1

-----------------------------------------------------------------------------
(* The publishers: what becomes of an item of a feed.  "unlisted" is never *)
(* an entry, "empty" raises EmptyBodyError, "error" any other exception.   *)

BodyOrTitle(item) ==
    IF item.text THEN "body" ELSE IF item.image THEN "empty" ELSE "title"

Listed(item, outcome) == IF item.complete THEN outcome ELSE "unlisted"

Chosun(item) ==
    IF ~item.economy THEN "unlisted"
    ELSE Listed(item, IF item.marker THEN BodyOrTitle(item) ELSE "title")

Hankyung(item) == Listed(item, BodyOrTitle(item))

Maeil(item) == Listed(item, BodyOrTitle(item))

Yonhap(item) == IF item.digest THEN "unlisted" ELSE Listed(item, BodyOrTitle(item))

\* A page that is gone is looked for at Edaily TV, where a text is a must.
Edaily(item) ==
    Listed(item, IF ~item.gone THEN BodyOrTitle(item)
                 ELSE IF item.newsId /\ item.text THEN "body" ELSE "error")

Sedaily(item) == Listed(item, BodyOrTitle(item))

Outcome(item) ==
    CASE item.source = "chosun" -> Chosun(item)
      [] item.source = "hankyung" -> Hankyung(item)
      [] item.source = "maeil" -> Maeil(item)
      [] item.source = "yonhap" -> Yonhap(item)
      [] item.source = "edaily" -> Edaily(item)
      [] item.source = "sedaily" -> Sedaily(item)

\* publishers(): the feeds in their order; two publishers have several.
Feeds == << <<"chosun", "">>, <<"hankyung", "">>, <<"maeil", "">>, <<"yonhap", "">>,
            <<"edaily", "economy">>, <<"edaily", "stock">>, <<"sedaily", "business">>,
            <<"sedaily", "market">>, <<"sedaily", "economy">>, <<"sedaily", "finance">>,
            <<"sedaily", "international">>, <<"opendart", "">> >>

InFeed(i, feed) ==
    LET item == Paper.items[i]
    IN  item.source = feed[1] /\ feed[2] \in item.sections /\ item.since <= day

-----------------------------------------------------------------------------
(* The tables.                                                             *)

\* Filings and items share the table of articles.
Item(i) == <<"item", i>>
Filing(f) == <<"filing", f>>

Stored(x) == \E a \in DOMAIN articles : articles[a].of = x

\* known_external_ids
Known(f) == Stored(Filing(f)) \/ f \in disclosures

\* insert_new of an article: on conflict, nothing.
Inserted(x) ==
    IF Stored(x) THEN articles
    ELSE Append(articles, [of |-> x, status |-> "pending", attempts |-> 0])

\* A periodic report or another form with sections; the rest are articles.
Long(f) == Paper.filings[f].report.type # "short"

Pending == {a \in DOMAIN articles : articles[a].status = "pending"}

\* LEAST and GREATEST of two dates pass over a null.
Least(a, b) == IF a = Never THEN b ELSE IF b = Never THEN a ELSE Min({a, b})
Greatest(a, b) == Max({a, b})

Init ==
    /\ edition \in DOMAIN Papers
    /\ day = 1 /\ late = FALSE
    /\ published = [f \in Filings |-> Paper.filings[f].date]
    /\ starts = 0 /\ pc = "idle" /\ source = 0 /\ todo = {} /\ plan = NoPlan
    /\ failed = FALSE /\ results = [news |-> FALSE, filings |-> FALSE] /\ watermark = 0
    /\ state = [completed |-> FALSE, from |-> Never, through |-> Never,
                completedFor |-> Never, attemptedFor |-> Never]
    /\ articles = <<>> /\ disclosures = {} /\ archive = {}
    /\ exit = -1 /\ faults = 0

\* Failures happen before the last day, and a bounded number of them.
Fault ==
    /\ faults < Paper.faults /\ day < Paper.last
    /\ faults' = faults + 1

-----------------------------------------------------------------------------
(* The world.                                                              *)

\* A filing is dated the day it is published; what comes during a run comes
\* to the same as what comes after it.
Publish(f) ==
    /\ pc \in {"idle", "failed"} /\ day < Paper.last
    /\ published[f] = Never
    /\ published' = [published EXCEPT ![f] = day]
    /\ UNCHANGED <<edition, day, late, starts, process, database, exit, faults>>

NextHalf ==
    /\ pc \in {"idle", "failed"}
    /\ day < Paper.last \/ ~late
    /\ late' = ~late /\ day' = IF late THEN day + 1 ELSE day
    /\ starts' = 0 /\ exit' = -1
    /\ UNCHANGED <<edition, published, process, database>>

\* The timer is persistent: a half has a run,
Tick == starts > 0 /\ NextHalf /\ UNCHANGED faults

\* or the host was down for all of it.
Outage == starts = 0 /\ NextHalf /\ Fault

-----------------------------------------------------------------------------
(* A run: the feeds, one after the other.                                  *)

Start ==
    /\ pc \in {"idle", "failed"} /\ starts < MaxStarts
    /\ starts' = starts + 1
    /\ pc' = "source" /\ source' = 1 /\ exit' = -1
    /\ UNCHANGED <<edition, day, late, published, todo, plan, failed, results, watermark,
                   database, faults>>

IsFiling == Feeds[source][1] = "opendart"

\* Faulty: a feed that failed is forgotten.
Unreported(failing) == results

\* The result of scrape() for this feed.
Reported(failing) ==
    IF IsFiling THEN [results EXCEPT !.filings = @ \/ failing]
    ELSE [results EXCEPT !.news = @ \/ failing]

\* On to the next feed, or to the embedding.
Leave(failing) ==
    /\ results' = Reported(failing)
    /\ failed' = FALSE /\ todo' = {} /\ plan' = NoPlan
    /\ IF source < Len(Feeds) THEN pc' = "source" /\ source' = source + 1
       ELSE pc' = "watermark" /\ source' = 0
    /\ UNCHANGED watermark

\* scrape() of a publisher, up to its articles.
ListFeed ==
    LET listed == {i \in DOMAIN Paper.items :
            InFeed(i, Feeds[source]) /\ Outcome(Paper.items[i]) # "unlisted"}
        entries == {i \in listed : ~Stored(Item(i))}
    IN
    /\ pc = "source" /\ ~IsFiling
    /\ IF entries = {} THEN Leave(FALSE)
       ELSE pc' = "article" /\ todo' = entries
            /\ UNCHANGED <<source, plan, failed, results, watermark>>
    /\ UNCHANGED <<environment, database, exit, faults>>

FetchItem ==
    LET i == Min(todo)
        outcome == Outcome(Paper.items[i])
    IN
    /\ pc = "article" /\ ~IsFiling /\ todo # {}
    /\ todo' = todo \ {i}
    /\ \/ /\ articles' = IF outcome \in {"body", "title"} THEN Inserted(Item(i))
                         ELSE articles
          /\ failed' = (failed \/ outcome = "error")
          /\ UNCHANGED faults
       \/ failed' = TRUE /\ UNCHANGED articles /\ Fault
    /\ UNCHANGED <<environment, pc, source, plan, results, watermark, state, disclosures,
                   archive, exit>>

-----------------------------------------------------------------------------
(* OpenDart: one collection per scheduled day.                             *)

ScheduledDay == IF late THEN day ELSE day - 1

\* A scheduled day that was tried, or done, is not tried again.
Skipped ==
    LET last == IF state.attemptedFor # Never THEN state.attemptedFor ELSE state.completedFor
    IN  last # Never /\ last >= ScheduledDay

\* Faulty: a collection begins the day after the one last checked.
NextDayPlan ==
    LET asked == CASE state.completed /\ state.through # Never -> state.through + 1
                   [] ~state.completed /\ state.from # Never -> state.from
                   [] OTHER -> day - HistoryDays
    IN  [for |-> ScheduledDay, begin |-> Max({asked, day - HistoryDays}), end |-> day,
         initial |-> ~state.completed,
         limit |-> IF ~state.completed /\ state.from = Never THEN Paper.limit ELSE 0,
         first |-> Never, recheck |-> FALSE]

\* The dates to list; a limit of 0 is none.  Nothing is listed yet.
CollectionPlan ==
    LET initial == ~state.completed
        asked == IF initial
                 THEN IF state.from # Never THEN state.from ELSE day - HistoryDays
                 ELSE IF state.through # Never THEN state.through ELSE day - 1
    IN  [for |-> ScheduledDay, begin |-> Max({asked, day - HistoryDays}), end |-> day,
         initial |-> initial,
         limit |-> IF initial /\ state.from = Never THEN Paper.limit ELSE 0,
         first |-> Never, recheck |-> FALSE]

InWindow(p) == {f \in Filings : published[f] \in p.begin..p.end}

\* The newest filings up to the limit, whichever of those of one day.
Selections(p) ==
    LET all == InWindow(p)
    IN  IF p.limit = 0 \/ Cardinality(all) <= p.limit THEN {all}
        ELSE {s \in kSubset(p.limit, all) :
                \A f \in s, g \in all \ s : published[f] >= published[g]}

\* DartClient.get: a request is tried Attempts times.
Answered(failures) == failures < Attempts

\* The filings are fetched from the newest day back.
Newest == CHOOSE f \in todo :
    \A g \in todo : published[f] > published[g] \/ (published[f] = published[g] /\ f <= g)

ListFilings ==
    /\ pc = "source" /\ IsFiling /\ ~Skipped
    /\ pc' = "remember"
    /\ \/ \E entries \in Selections(CollectionPlan) :
            /\ plan' = [CollectionPlan EXCEPT
                 !.first = IF CollectionPlan.initial
                           THEN Min({published[f] : f \in entries} \cup {day}) ELSE Never,
                 !.recheck = CollectionPlan.limit # 0 /\ Cardinality(entries) = CollectionPlan.limit]
            /\ todo' = {f \in entries : ~Known(f)}
            /\ UNCHANGED <<failed, faults>>
       \/ /\ \E failures \in 0..Attempts : ~Answered(failures)
          /\ plan' = CollectionPlan
          /\ failed' = TRUE /\ UNCHANGED todo /\ Fault
    /\ UNCHANGED <<environment, source, results, watermark, database, exit>>

\* Nothing is scheduled.
SkipFilings ==
    /\ pc = "source" /\ IsFiling /\ Skipped
    /\ Leave(FALSE)
    /\ UNCHANGED <<environment, database, exit, faults>>

\* entries() raises before it has a plan: no member of the index is known.
\* Likewise, a publisher's feed does not answer.
ListFails ==
    /\ pc = "source" /\ Leave(TRUE) /\ Fault
    /\ UNCHANGED <<environment, database, exit>>

\* remember_collection_attempt, after a listing that failed too.
Remember ==
    /\ pc = "remember"
    /\ state' = [state EXCEPT !.from = Least(@, plan.first),
                              !.attemptedFor = Greatest(@, plan.for)]
    /\ IF failed THEN Leave(TRUE)
       ELSE pc' = "article" /\ UNCHANGED <<source, todo, plan, failed, results, watermark>>
    /\ UNCHANGED <<environment, articles, disclosures, archive, exit, faults>>

\* article(): the archive file is on disk before there is a row.  A filing
\* without a document is stored all the same.
FetchFiling ==
    LET f == Newest
    IN
    /\ pc = "article" /\ IsFiling /\ todo # {}
    /\ \/ /\ ~(Long(f) /\ Unplaced(Paper.filings[f].report))
          /\ pc' = "save"
          /\ archive' = archive \cup (IF Long(f) THEN {f} ELSE {})
          /\ UNCHANGED <<todo, failed, faults>>
       \/ /\ Long(f) /\ Unplaced(Paper.filings[f].report)
          /\ failed' = TRUE /\ todo' = todo \ {f}
          /\ UNCHANGED <<pc, archive, faults>>
       \/ /\ \E failures \in 0..Attempts : ~Answered(failures)
          /\ failed' = TRUE /\ todo' = todo \ {f} /\ Fault
          /\ UNCHANGED <<pc, archive>>
    /\ UNCHANGED <<environment, source, plan, results, watermark, state, articles,
                   disclosures, exit>>

\* insert_new, or insert_disclosure with the document, its sections and its
\* accounts, in one transaction.
SaveFiling ==
    LET f == Newest
    IN
    /\ pc = "save" /\ pc' = "article" /\ todo' = todo \ {f}
    /\ IF Long(f) THEN disclosures' = disclosures \cup {f} /\ UNCHANGED articles
       ELSE articles' = Inserted(Filing(f)) /\ UNCHANGED disclosures
    /\ UNCHANGED <<environment, source, plan, failed, results, watermark, state, archive,
                   exit, faults>>

\* Faulty: a limit that was reached counts as the end of the list.
CompletedWhole ==
    [state EXCEPT !.completed = TRUE, !.through = Greatest(@, plan.end),
                  !.completedFor = Greatest(@, plan.for)]

\* complete_collection: a limit that was reached may have cut its last day,
\* which the next collection lists again.
Completed ==
    [state EXCEPT !.completed = TRUE,
        !.through = IF ~plan.recheck THEN Greatest(@, plan.end)
                    ELSE IF @ # Never THEN @ ELSE state.from,
        !.completedFor = IF plan.recheck THEN @ ELSE Greatest(@, plan.for)]

\* Faulty: an article that failed does not matter.
CompletesAnyway == plan # NoPlan

Completes == plan # NoPlan /\ ~failed

\* The end of scrape().
EndOfFeed ==
    /\ pc = "article" /\ todo = {}
    /\ state' = IF Completes THEN Completed ELSE state
    /\ Leave(failed)
    /\ UNCHANGED <<environment, articles, disclosures, archive, exit, faults>>

-----------------------------------------------------------------------------
(* The embedding of what is pending.                                       *)

Watermark ==
    /\ pc = "watermark"
    /\ watermark' = Max(Pending \cup {0})
    /\ pc' = IF Pending = {} THEN "exit" ELSE "embed"
    /\ UNCHANGED <<environment, source, todo, plan, failed, results, database, exit, faults>>

\* pending_embedding: the rows of one transaction, the first by their ids.
Waiting == {a \in Pending : a <= watermark}

Before(a) == Cardinality({b \in Waiting : b < a})

Page == {a \in Waiting : Before(a) < BatchLimit}

BatchOf(a) == Before(a) \div BatchSize

\* mark_embedding_failed, of one row.
Marked(row) ==
    [row EXCEPT !.attempts = @ + 1,
                !.status = IF row.attempts + 1 >= 3 THEN "dead_letter" ELSE @]

Embed ==
    /\ pc = "embed"
    /\ pc' = IF Page = {} THEN "exit" ELSE pc
    /\ articles' = [a \in DOMAIN articles |->
            IF a \in Page THEN [articles[a] EXCEPT !.status = "completed"]
            ELSE articles[a]]
    /\ UNCHANGED <<environment, source, todo, plan, failed, results, watermark, state,
                   disclosures, archive, exit, faults>>

\* A batch fails as a whole; those before it are kept, those after it wait.
EmbedFails ==
    /\ pc = "embed"
    /\ \E k \in {BatchOf(a) : a \in Page} :
        articles' = [a \in DOMAIN articles |->
            IF a \in Page /\ BatchOf(a) = k THEN Marked(articles[a])
            ELSE IF a \in Page /\ BatchOf(a) < k
                 THEN [articles[a] EXCEPT !.status = "completed"]
            ELSE articles[a]]
    /\ results' = [results EXCEPT !.news = TRUE]
    /\ pc' = "exit" /\ Fault
    /\ UNCHANGED <<environment, source, todo, plan, failed, watermark, state, disclosures,
                   archive, exit>>

ProcessGone(how) ==
    /\ pc' = how /\ source' = 0 /\ todo' = {} /\ plan' = NoPlan
    /\ failed' = FALSE /\ results' = [news |-> FALSE, filings |-> FALSE] /\ watermark' = 0

ExitCode == IF results.news THEN 1 ELSE IF results.filings THEN 2 ELSE 0

\* Code 1 is restarted after five minutes, code 2 waits for the timer.
Exit ==
    /\ pc = "exit"
    /\ exit' = ExitCode
    /\ ProcessGone(IF ExitCode = 1 THEN "failed" ELSE "idle")
    /\ UNCHANGED <<environment, database, faults>>

\* The process is killed, times out, or a statement of the database raises;
\* the transaction it was in is rolled back.
Crash ==
    /\ pc \notin {"idle", "failed"} /\ Fault
    /\ ProcessGone("failed")
    /\ UNCHANGED <<environment, database, exit>>

Run ==
    \/ Start \/ ListFeed \/ FetchItem \/ ListFilings \/ SkipFilings \/ Remember
    \/ FetchFiling \/ SaveFiling \/ EndOfFeed \/ Watermark \/ Embed \/ Exit

Next ==
    \/ \E f \in Filings : Publish(f)
    \/ Tick \/ Outage \/ Run \/ ListFails \/ EmbedFails \/ Crash

Spec == Init /\ [][Next]_vars

\* The timer fires and a process that runs goes on.
FairSpec == Spec /\ WF_vars(Tick) /\ WF_vars(Run)

-----------------------------------------------------------------------------
(* Properties.                                                             *)

TypeOK ==
    /\ edition \in DOMAIN Papers /\ day \in 1..Paper.last /\ late \in BOOLEAN
    /\ published \in [Filings -> Int] /\ starts \in 0..MaxStarts
    /\ pc \in {"idle", "failed", "source", "remember", "article", "save", "watermark",
               "embed", "exit"}
    /\ source \in 0..Len(Feeds)
    /\ todo \subseteq Filings \cup DOMAIN Paper.items
    /\ failed \in BOOLEAN /\ results \in [news : BOOLEAN, filings : BOOLEAN]
    /\ watermark \in 0..Len(articles)
    /\ \A a \in DOMAIN articles :
        /\ articles[a].status \in {"pending", "completed", "dead_letter"}
        /\ articles[a].attempts \in 0..3
    /\ disclosures \subseteq Filings /\ archive \subseteq Filings
    /\ exit \in -1..2 /\ faults \in 0..Paper.faults

\* What the service may still ask DART for.
Collectable(f) == published[f] # Never /\ day - published[f] <= HistoryDays

\* Once the first collection is completed, every filing between the day that
\* one reached back to and the day the collections are checked through is
\* stored, whatever failed, died or was cut by the limit on the way
\* (scrape.py 23-144, storage.py 40-69): nothing is listed a second time below
\* that day.
CheckedMeansStored ==
    /\ TypeOK
    /\ state.completed =>
        \A f \in Filings :
            /\ Collectable(f)
            /\ state.from <= published[f] /\ published[f] < state.through
            => Known(f)

\* An exit code that asks for no restart (0, or 2 for DART alone) leaves no
\* article without an answer of the embedding, and no news of the feeds that
\* is not stored, but for articles of pictures only (__main__.py 42-48,
\* scrape.py 74-108).
ExitIsHonest ==
    exit \in {0, 2} =>
        /\ Pending = {}
        /\ \A i \in DOMAIN Paper.items :
            (\E n \in DOMAIN Feeds : InFeed(i, Feeds[n])) =>
                \/ Outcome(Paper.items[i]) \in {"unlisted", "empty"}
                \/ Stored(Item(i))

\* The rank of a kind of periodic report within its fiscal year.
Rank(kind) == CASE kind = "q1" -> 1 [] kind = "half" -> 2 [] kind = "q3" -> 3 [] OTHER -> 4

IsBefore(end, other) == end[1] < other[1] \/ (end[1] = other[1] /\ end[2] < other[2])

\* The heading nearest above a place of a document, 0 if there is none.
HeadingAbove(leaves, place) ==
    Max({h \in 1..place : leaves[h] = "heading"} \cup {0})

\* The sections of a document are cut from its body at the offsets they name,
\* each under the nearest heading, and hold every text of it.
CutRight(leaves) ==
    LET document == ParseDocument(leaves)
        sections == Range(document.sections)
    IN  /\ \A section \in sections :
            /\ SubSeq(document.body, section.start + 1, section.end) = section.text
            /\ \A place \in Range(section.text) \ {0} :
                section.heading = HeadingAbove(leaves, place)
        /\ \A place \in DOMAIN leaves : leaves[place] \in {"text", "table"} =>
            \E section \in sections : place \in Range(section.text)

\* Two reports of one company under one fiscal year follow each other as
\* their kinds do.
InOrder(a, b) ==
    HasAccounts(a) /\ HasAccounts(b) /\ Period(a).year = Period(b).year =>
        (IsBefore(Period(a).end, Period(b).end) <=> Rank(Kind(a)) < Rank(Kind(b)))

\* A filing is stored whole: its archive file is on disk before its row, its
\* sections lead back into its documents, and the fiscal year it is stored
\* under is the one its company's other reports of that year have
\* (opendart.py 181-229, parser.py 51-148, dart.py 36-61).
StoredFilingsAreWhole ==
    [][\A f \in disclosures' \ disclosures :
        /\ f \in archive
        /\ \A order \in DOMAIN Paper.filings[f].documents :
            CutRight(Paper.filings[f].documents[order])
        /\ \A g \in disclosures : InOrder(Paper.filings[f].report, Paper.filings[g].report)]_vars

\* Published, and neither stored nor out of the reach of the collection: it
\* can be placed, the first collection reached back to it, and it has not
\* left the days the service asks for.
Outstanding(f) ==
    /\ f \in Filings
    /\ Collectable(f) /\ ~Known(f)
    /\ ~(Long(f) /\ Unplaced(Paper.filings[f].report))
    /\ state.from = Never \/ published[f] >= state.from

\* No filing is outstanding for ever, through listings and articles that
\* failed, deaths of the process and days without a run (scrape.py 23-144,
\* opendart.py 91-129).
FilingsArrive == \A f \in Watched : []<>~Outstanding(f)

=============================================================================
