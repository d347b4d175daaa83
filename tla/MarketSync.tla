----------------------------- MODULE MarketSync -----------------------------
(***************************************************************************)
(* market_syncer: a daily job that copies the companies, the members of    *)
(* KOSPI200 and the themes from Kiwoom and DART.  Each table is replaced   *)
(* in a transaction of its own, long after its rows were fetched; a        *)
(* failure of one does not stop the others.  systemd gives up a run after  *)
(* fifty minutes and starts another, although the container of the first   *)
(* may still be at work: an advisory lock keeps them apart.                *)
(***************************************************************************)
EXTENDS Integers, FiniteSetsExt, Functions

CONSTANTS
    Workers,    \* runs that may be there at once
    Served,     \* what the services serve, edition after edition
    MaxFaults   \* bound: failures and kills

Editions == DOMAIN Served
None == 0

\* Stock codes are ordered.
ASSUME SyncAssumption ==
    /\ None \notin Workers /\ MaxFaults \in Nat
    /\ 1 \in Editions
    /\ \A e \in Editions : Served[e].kospi \subseteq Nat

VARIABLES
    edition,       \* what is being served
    corporations,  \* stock code -> DART's code of the company
    aliases,       \* name -> stock code
    index,         \* members of KOSPI200
    themes,        \* theme -> members
    at,            \* table -> edition its rows were fetched from, 0 before any
    lock,          \* pg_try_advisory_lock
    pc,            \* worker -> the step that comes next, or how its run ended
    failed, began, fetched, listed,  \* worker -> locals of its run
    faults

tables == <<corporations, aliases, index, themes, at>>
locals == <<failed, began, fetched, listed>>
vars == <<edition, tables, lock, pc, locals, faults>>

Ended == {"idle", "skipped", "ok", "error"}

Init ==
    /\ edition = 1
    /\ corporations = <<>> /\ aliases = <<>> /\ index = {} /\ themes = <<>>
    /\ at = [t \in {"corporations", "index", "themes"} |-> 0]
    /\ lock = None
    /\ pc = [w \in Workers |-> "idle"]
    /\ failed = [w \in Workers |-> FALSE]
    /\ began = [w \in Workers |-> 0] /\ fetched = [w \in Workers |-> 0] /\ listed = [w \in Workers |-> {}]
    /\ faults = 0

Publish ==
    /\ edition + 1 \in Editions /\ edition' = edition + 1
    /\ UNCHANGED <<tables, lock, pc, locals, faults>>

Goto(w, step) == pc' = [pc EXCEPT ![w] = step]
Fault == faults < MaxFaults /\ faults' = faults + 1

\* The lock goes with the session.
End(w, how) ==
    /\ Goto(w, how)
    /\ lock' = None
    /\ failed' = [failed EXCEPT ![w] = FALSE] /\ began' = [began EXCEPT ![w] = 0]
    /\ fetched' = [fetched EXCEPT ![w] = 0] /\ listed' = [listed EXCEPT ![w] = {}]

\* Faulty: a run does not ask for the lock.
Unlocked == TRUE

LockIsFree == lock = None

Start(w) ==
    /\ pc[w] \in Ended
    /\ IF LockIsFree
       THEN lock' = w /\ Goto(w, "token") /\ began' = [began EXCEPT ![w] = edition]
       ELSE Goto(w, "skipped") /\ UNCHANGED <<lock, began>>
    /\ UNCHANGED <<edition, tables, failed, fetched, listed, faults>>

\* A kill, or a token that is refused; what was committed stays.
Crash(w) ==
    /\ pc[w] \notin Ended
    /\ Fault
    /\ End(w, "error")
    /\ UNCHANGED <<edition, tables>>

Token(w) ==
    /\ pc[w] = "token"
    /\ Goto(w, "fetch corporations")
    /\ UNCHANGED <<edition, tables, lock, locals, faults>>

-----------------------------------------------------------------------------
(* The three parts of a run.                                               *)

\* fetch_rows: the pages of a list, or an exception.
Fetch(w, from, to) ==
    /\ pc[w] = from
    /\ fetched' = [fetched EXCEPT ![w] = edition]
    /\ Goto(w, to)
    /\ UNCHANGED <<edition, tables, lock, failed, began, listed, faults>>

\* Faulty: what failed is logged and forgotten.
Forget(w) == UNCHANGED failed

Fail(w) == failed' = [failed EXCEPT ![w] = TRUE]

\* The exit code.
Finish(w) == End(w, IF failed[w] THEN "error" ELSE "ok")

\* A failed part is noted; without any companies the others are pointless.
GiveUp(w) ==
    LET part == pc[w] IN
    IF part \in {"fetch corporations", "corporations"}
    THEN IF corporations = <<>> THEN End(w, "error")
         ELSE Goto(w, "fetch index") /\ Fail(w) /\ UNCHANGED <<lock, began, fetched, listed>>
    ELSE IF part \in {"fetch index", "index"}
    THEN Goto(w, "fetch themes") /\ Fail(w) /\ UNCHANGED <<lock, began, fetched, listed>>
    ELSE End(w, "error")

\* A request, a page without progress or a transaction fails.
Fails(w) ==
    /\ pc[w] \notin Ended \cup {"token"}
    /\ Fault
    /\ GiveUp(w)
    /\ UNCHANGED <<edition, tables>>

Answer(w) == Served[fetched[w]]

\* The rows, and the table where it has others.
Over(rows, table) ==
    [k \in DOMAIN rows \cup DOMAIN table |-> IF k \in DOMAIN rows THEN rows[k] ELSE table[k]]

\* KOSPI companies that file with DART.
Joined(w) == [c \in Answer(w).kospi \cap DOMAIN Answer(w).dart |-> Answer(w).dart[c].corp]

\* The rows are upserted by the stock code: a company that has got a new one
\* collides with its old row, which is never deleted.
Collides(rows) == \E c \in DOMAIN rows, d \in DOMAIN corporations : c # d /\ rows[c] = corporations[d]

\* insert_aliases: a name stays with the company that had it first.
NewAliases(w) ==
    LET new == [c \in DOMAIN Joined(w) |-> Answer(w).dart[c].names]
    IN  Over(aliases, [n \in UNION Range(new) |-> Min({c \in DOMAIN new : n \in new[c]})])

SyncCorporations(w) ==
    /\ pc[w] = "corporations"
    /\ IF Joined(w) = <<>> \/ Collides(Joined(w))
       THEN GiveUp(w) /\ UNCHANGED tables
       ELSE /\ corporations' = Over(Joined(w), corporations)
            /\ aliases' = NewAliases(w)
            /\ at' = [at EXCEPT !.corporations = fetched[w]]
            /\ Goto(w, "fetch index")
            /\ UNCHANGED <<index, themes, lock, locals>>
    /\ UNCHANGED <<edition, faults>>

KnownOf(codes) == codes \cap DOMAIN corporations

\* Faulty: an answer without any company of ours is taken for an empty index.
AnyMembers(codes) == codes # {}

\* Nothing is replaced by nothing.
HasMembers(codes) == KnownOf(codes) # {}

ReplaceIndex(w) ==
    /\ pc[w] = "index"
    /\ IF ~HasMembers(Answer(w).index)
       THEN GiveUp(w) /\ UNCHANGED tables
       ELSE /\ index' = KnownOf(Answer(w).index)
            /\ at' = [at EXCEPT !.index = fetched[w]]
            /\ Goto(w, "fetch themes")
            /\ UNCHANGED <<corporations, aliases, themes, lock, locals>>
    /\ UNCHANGED <<edition, faults>>

\* fetch_themes, then fetch_theme_members of each.
FetchMembers(w) ==
    /\ pc[w] = "fetch members"
    /\ listed' = [listed EXCEPT ![w] =
            {[theme |-> t, codes |-> IF t \in DOMAIN Served[edition].themes THEN Served[edition].themes[t] ELSE {}] :
             t \in DOMAIN Answer(w).themes}]
    /\ Goto(w, "themes")
    /\ UNCHANGED <<edition, tables, lock, failed, began, fetched, faults>>

SyncThemes(w) ==
    /\ pc[w] = "themes"
    /\ IF ~HasMembers(UNION {t.codes : t \in listed[w]})
       THEN GiveUp(w) /\ UNCHANGED tables
       ELSE /\ themes' = [t \in {l.theme : l \in listed[w]} |->
                    KnownOf((CHOOSE l \in listed[w] : l.theme = t).codes)]
            /\ at' = [at EXCEPT !.themes = fetched[w]]
            /\ Finish(w)
            /\ UNCHANGED <<corporations, aliases, index>>
    /\ UNCHANGED <<edition, faults>>

Run(w) ==
    \/ Token(w)
    \/ Fetch(w, "fetch corporations", "corporations") \/ SyncCorporations(w)
    \/ Fetch(w, "fetch index", "index") \/ ReplaceIndex(w)
    \/ Fetch(w, "fetch themes", "fetch members") \/ FetchMembers(w) \/ SyncThemes(w)

Next == Publish \/ \E w \in Workers : Start(w) \/ Run(w) \/ Fails(w) \/ Crash(w)

Spec == Init /\ [][Next]_vars

-----------------------------------------------------------------------------
(* Properties.                                                             *)

Members == UNION {themes[t] : t \in DOMAIN themes}

\* No table goes back to an older edition, loses all it has or names a company
\* that is not there; and a run that ends with 0 has brought all of them at
\* least to the edition that was served when it began.
StaysFresh ==
    /\ \A t \in DOMAIN at : at'[t] >= at[t]
    /\ index # {} => index' # {}
    /\ Members # {} => Members' # {}
    /\ DOMAIN corporations \subseteq DOMAIN corporations'
    /\ index' \cup Members' \subseteq DOMAIN corporations'
    /\ Range(aliases') \subseteq DOMAIN corporations'
    /\ \A w \in Workers : pc[w] \notin Ended /\ pc'[w] = "ok" =>
        \A t \in DOMAIN at : at'[t] >= began[w]

\* Every step keeps the tables fresh.
TablesAreFresh == [][StaysFresh]_vars

=============================================================================
