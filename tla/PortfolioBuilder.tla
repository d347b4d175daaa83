-------------------------- MODULE PortfolioBuilder --------------------------
(***************************************************************************)
(* portfolio_builder: each morning an agent investigates and submits the   *)
(* next model portfolio, and a second call of the LLM explains every trade *)
(* of it to the users.  A portfolio may be traded when it is "ready"; what *)
(* portfolio_rebalancer does with the companies of older ones is read from *)
(* the exits and reasons of all of them.  The calls of one answer of the   *)
(* model run in threads of their own.                                      *)
(***************************************************************************)
EXTENDS Integers, Sequences, FiniteSets

CONSTANTS
    Companies,  \* corporations a portfolio may hold
    Required,   \* the tools a submission needs: technicals and, if enabled, disclosures
    Slots,      \* bound: the calls of one answer of the model
    MaxTurns,   \* settings.max_turns
    MaxRuns     \* bound: runs of the job

ASSUME BuilderAssumption ==
    /\ "submit" \notin Required /\ Slots # {} /\ 0 \notin Slots
    /\ MaxTurns \in Nat \ {0} /\ MaxRuns \in Nat

VARIABLES
    portfolios, \* the rows of portfolios by id: holdings and exits
    status,     \* their status
    traced,     \* whether they have a trace
    reasons,    \* their portfolio_reasons: companies and sides
    phase,      \* "ended", or what the run is at: "turn", "tools", "trace", "explain",
                \* "store", "mark"
    previous,   \* the companies of the portfolio in the briefing
    turns,      \* answers of the model
    trace,      \* the agent's trace: turns and required tools that succeeded in them
    checked,    \* required tools that have succeeded, in the agent's state
    calls,      \* the calls of this turn without a result: slot -> tool
    found,      \* required tools that succeeded in this turn
    inside,     \* submissions that have passed the check of saved
    saved,      \* saved of submit_tool
    portfolioId, \* portfolio_id, as far as the agent's state has it
    raised,     \* a call of this turn ended with an exception
    subject,    \* the portfolio main explains
    attempt,    \* attempt of explain
    explanations, \* its valid answer: companies and sides
    outcome,    \* outcome of the run
    runs

table == <<portfolios, status, traced, reasons>>
agent == <<previous, turns, trace, checked, calls, found, inside, saved, portfolioId, raised>>
explainer == <<subject, attempt, explanations>>
vars == <<portfolios, status, traced, reasons, phase, previous, turns, trace, checked, calls,
          found, inside, saved, portfolioId, raised, subject, attempt, explanations, outcome, runs>>

None == 0
Latest == Len(portfolios)
Tools == Required \cup {"submit"}
Sides == Companies \X {"buy", "sell"}
Portfolio == [holdings : SUBSET Companies, exits : SUBSET Companies]
NoCalls == [s \in {} |-> "submit"]
Without(f, s) == [t \in DOMAIN f \ {s} |-> f[t]]

TypeOK ==
    /\ portfolios \in Seq(Portfolio)
    /\ status \in [1..Latest -> {"explanation_pending", "ready", "explanation_failed"}]
    /\ traced \in [1..Latest -> BOOLEAN]
    /\ reasons \in [1..Latest -> SUBSET Sides]
    /\ phase \in {"ended", "turn", "tools", "trace", "explain", "store", "mark"}
    /\ previous \subseteq Companies
    /\ turns \in 0..MaxTurns
    /\ trace \subseteq (1..turns) \X Required
    /\ checked \subseteq Required /\ found \subseteq Required
    /\ DOMAIN calls \subseteq Slots /\ \A s \in DOMAIN calls : calls[s] \in Tools
    /\ inside \subseteq DOMAIN calls
    /\ saved \in 0..Latest /\ portfolioId \in {None, saved}
    /\ raised \in BOOLEAN
    /\ subject \in 0..Latest
    /\ attempt \in 0..1 /\ explanations \subseteq Sides
    /\ outcome \in {"none", "saved", "reexplained", "max_turns", "error",
                    "explanation_failed"}
    /\ runs \in 0..MaxRuns

Init ==
    /\ portfolios = <<>> /\ status = <<>> /\ traced = <<>> /\ reasons = <<>>
    /\ phase = "ended" /\ previous = {} /\ turns = 0 /\ trace = {} /\ checked = {}
    /\ calls = NoCalls /\ found = {} /\ inside = {} /\ saved = None
    /\ portfolioId = None /\ raised = FALSE
    /\ subject = None /\ attempt = 0 /\ explanations = {} /\ outcome = "none" /\ runs = 0

(* The run is over; its state goes with the process. *)
Ends(result) ==
    /\ phase' = "ended" /\ outcome' = result
    /\ previous' = {} /\ turns' = 0 /\ trace' = {} /\ checked' = {} /\ calls' = NoCalls /\ found' = {}
    /\ inside' = {} /\ saved' = None /\ portfolioId' = None /\ raised' = FALSE
    /\ subject' = None /\ attempt' = 0 /\ explanations' = {}

\* Faulty: a portfolio without explanations is a success.
UnexplainedSuccess ==
    IF outcome \in {"saved", "reexplained", "explanation_failed"} THEN 0 ELSE 1

(* SystemExit of main. *)
ExitCode == IF outcome \in {"saved", "reexplained"} THEN 0 ELSE 1

-----------------------------------------------------------------------------
\* Faulty: a portfolio whose explanation failed is given up.
PendingOnly == Latest > 0 /\ status[Latest] = "explanation_pending" /\ traced[Latest]

(* load_unexplained: only the latest portfolio counts, and only if the trace *)
(* that explains it was saved.                                               *)
Unexplained == Latest > 0 /\ status[Latest] # "ready" /\ traced[Latest]

Starting == phase = "ended" /\ runs < MaxRuns /\ runs' = runs + 1

Reexplain ==
    /\ Starting /\ Unexplained
    /\ phase' = "explain" /\ outcome' = "reexplained" /\ subject' = Latest
    /\ UNCHANGED <<agent, table, attempt, explanations>>

(* The latest portfolio goes into the briefing, whatever its status. *)
Held == IF Latest = 0 THEN {} ELSE portfolios[Latest].holdings

Brief ==
    /\ Starting /\ ~Unexplained
    /\ phase' = "turn" /\ outcome' = "none"
    /\ previous' = Held
    /\ UNCHANGED <<turns, trace, checked, calls, found, inside, saved, portfolioId, raised,
                   explainer, table>>

(* Postgres or news-http are unreachable. *)
StartFails == Starting /\ Ends("error") /\ UNCHANGED table

-----------------------------------------------------------------------------
(* run_agent is over: its outcome, and main goes on if there is a portfolio. *)
Returns(result, id) ==
    IF id = None
    THEN Ends(result) /\ UNCHANGED table
    ELSE /\ phase' = "trace" /\ outcome' = "saved" /\ subject' = id
         /\ previous' = {} /\ turns' = 0 /\ trace' = {} /\ checked' = {} /\ calls' = NoCalls
         /\ found' = {} /\ inside' = {} /\ saved' = None /\ portfolioId' = None
         /\ raised' = FALSE
         /\ UNCHANGED <<table, attempt, explanations>>

(* StopOnSave comes before the limit of ModelCallLimitMiddleware. *)
Stop == phase = "turn" /\ portfolioId # None /\ Returns("saved", portfolioId) /\ UNCHANGED runs

\* Faulty: one answer too many.
OneMore == turns = MaxTurns + 1

(* run_limit of ModelCallLimitMiddleware *)
Exhausted == turns = MaxTurns

Limit ==
    /\ phase = "turn" /\ portfolioId = None /\ Exhausted
    /\ Returns("max_turns", None) /\ UNCHANGED runs

Answering == phase = "turn" /\ portfolioId = None /\ ~Exhausted /\ turns' = turns + 1

(* The model answers without a call, or with one that cannot be parsed. *)
Nudge ==
    /\ Answering
    /\ UNCHANGED <<phase, previous, trace, checked, calls, found, inside, saved, portfolioId, raised,
                   explainer, table, outcome, runs>>

Ask(asked) ==
    /\ Answering
    /\ phase' = "tools" /\ calls' = asked /\ found' = {}
    /\ UNCHANGED <<previous, trace, checked, inside, saved, portfolioId, raised, explainer, table,
                   outcome, runs>>

ModelFails ==
    /\ phase = "turn" /\ portfolioId = None /\ ~Exhausted
    /\ Returns("error", None) /\ UNCHANGED runs

-----------------------------------------------------------------------------
(* A required tool gives a result that counts, or one that does not: an error *)
(* the model can correct, no signal, no valid answer.                         *)
Research(s, useful) ==
    /\ phase = "tools" /\ s \in DOMAIN calls /\ calls[s] \in Required
    /\ calls' = Without(calls, s)
    /\ found' = found \cup IF useful THEN {calls[s]} ELSE {}
    /\ trace' = trace \cup IF useful THEN {<<turns, calls[s]>>} ELSE {}
    /\ UNCHANGED <<phase, previous, turns, checked, inside, saved, portfolioId, raised,
                   explainer, table, outcome, runs>>

Submits(s) == phase = "tools" /\ s \in DOMAIN calls /\ calls[s] = "submit"

\* Faulty: results of the same turn count.
ResearchedNow == Required \subseteq checked \cup found

(* The hooks see the state in which the turn began, not what its other calls *)
(* have found.                                                               *)
Researched == Required \subseteq checked

(* A submission that gets an error back: refused by the hooks, too late, not *)
(* valid, or one that cites an unknown cluster or names an unknown company.  *)
Refused(s) ==
    /\ Submits(s)
    /\ calls' = Without(calls, s) /\ inside' = inside \ {s}
    /\ UNCHANGED <<phase, previous, turns, trace, checked, found, saved, portfolioId, raised,
                   explainer, table, outcome, runs>>

Refuse(s) == s \notin inside /\ ~Researched /\ Refused(s)

\* Faulty: submissions do not wait for each other.
Unlocked == TRUE

(* the lock of submit_portfolio *)
Free == inside = {}

TooLate(s) == s \notin inside /\ Researched /\ Free /\ saved # None /\ Refused(s)
Reject(s) == s \in inside /\ Refused(s)

Enter(s) ==
    /\ Submits(s) /\ s \notin inside /\ Researched
    /\ Free /\ saved = None
    /\ inside' = inside \cup {s}
    /\ UNCHANGED <<phase, previous, turns, trace, checked, calls, found, saved, portfolioId, raised,
                   explainer, table, outcome, runs>>

(* validate_portfolio, as far as it is about companies. *)
Valid(submission) ==
    /\ submission.holdings \cap submission.exits = {}
    /\ submission.exits \subseteq previous
    /\ previous \subseteq submission.holdings \cup submission.exits

(* save_portfolio.  After an exception in another call the agent's state may *)
(* end without the portfolio_id of a call that was still running.            *)
Save(s, submission) ==
    /\ s \in inside /\ Valid(submission)
    /\ portfolios' = Append(portfolios, submission)
    /\ status' = Append(status, "explanation_pending")
    /\ traced' = Append(traced, FALSE)
    /\ reasons' = Append(reasons, {})
    /\ saved' = Len(portfolios')
    /\ portfolioId' \in IF raised THEN {portfolioId, saved'} ELSE {saved'}
    /\ inside' = inside \ {s} /\ calls' = Without(calls, s)
    /\ UNCHANGED <<phase, previous, turns, trace, checked, found, raised, explainer, outcome, runs>>

(* Anything but a ToolError, such as a database that is down: the turn's other *)
(* calls go on until they are done.                                            *)
Raise(s) ==
    /\ phase = "tools" /\ s \in DOMAIN calls
    /\ raised' = TRUE /\ calls' = Without(calls, s) /\ inside' = inside \ {s}
    /\ UNCHANGED <<phase, previous, turns, trace, checked, found, saved, portfolioId, explainer, table,
                   outcome, runs>>

(* Calls that were not started are cancelled. *)
Abort ==
    /\ phase = "tools" /\ raised /\ inside = {}
    /\ Returns("error", portfolioId) /\ UNCHANGED runs

Turn ==
    /\ phase = "tools" /\ DOMAIN calls = {} /\ ~raised
    /\ phase' = "turn" /\ checked' = checked \cup found /\ found' = {}
    /\ UNCHANGED <<previous, turns, trace, calls, inside, saved, portfolioId, raised, explainer, table,
                   outcome, runs>>

-----------------------------------------------------------------------------
SaveTrace ==
    /\ phase = "trace"
    /\ traced' = [traced EXCEPT ![subject] = TRUE]
    /\ phase' = "explain"
    /\ UNCHANGED <<portfolios, status, reasons, agent, explainer, outcome, runs>>

\* Faulty: exits may go without a word.
CoversHoldings(answer) ==
    LET target == portfolios[subject]
    IN  /\ target.holdings \X {"buy", "sell"} \subseteq answer
        /\ answer \subseteq (target.holdings \X {"buy", "sell"}) \cup (target.exits \X {"sell"})

(* covers_the_portfolio: both sides of every holding, the sell side of every *)
(* exit, and nothing else.                                                   *)
Covers(answer) ==
    LET target == portfolios[subject]
    IN  answer = (target.holdings \X {"buy", "sell"}) \cup (target.exits \X {"sell"})

(* explain: an answer that validates is kept for the transaction that stores it. *)
Explain(answer) ==
    /\ phase = "explain" /\ Covers(answer)
    /\ explanations' = answer /\ phase' = "store"
    /\ UNCHANGED <<table, agent, subject, attempt, outcome, runs>>

(* The first answer that is rejected goes back to the LLM. *)
AskAgain ==
    /\ phase = "explain" /\ attempt = 0
    /\ attempt' = 1
    /\ UNCHANGED <<table, phase, agent, subject, explanations, outcome, runs>>

(* save_explanations *)
Store ==
    /\ phase = "store"
    /\ status' = [status EXCEPT ![subject] = "ready"]
    /\ reasons' = [reasons EXCEPT ![subject] = @ \cup explanations]
    /\ Ends(outcome)
    /\ UNCHANGED <<portfolios, traced, runs>>

(* The trace or the explanations are not saved, the provider fails, or the second *)
(* answer is rejected too.                                                        *)
ExplainFails ==
    /\ phase \in {"trace", "explain", "store"}
    /\ phase' = "mark" /\ outcome' = "explanation_failed"
    /\ UNCHANGED <<table, agent, explainer, runs>>

(* mark_explanation_failed *)
Mark ==
    /\ phase = "mark"
    /\ status' = [status EXCEPT ![subject] = "explanation_failed"]
    /\ Ends(outcome)
    /\ UNCHANGED <<portfolios, traced, reasons, runs>>

(* The process is killed, or an exception leaves main. *)
Killed == phase # "ended" /\ Ends("error") /\ UNCHANGED <<table, runs>>

Next ==
    \/ Reexplain \/ Brief \/ StartFails
    \/ Stop \/ Limit \/ Nudge \/ ModelFails
    \/ \E S \in (SUBSET Slots) \ {{}} : \E asked \in [S -> Tools] : Ask(asked)
    \/ \E s \in Slots :
         \/ \E useful \in BOOLEAN : Research(s, useful)
         \/ Refuse(s) \/ TooLate(s) \/ Reject(s) \/ Enter(s) \/ Raise(s)
         \/ \E submission \in Portfolio : Save(s, submission)
    \/ Abort \/ Turn
    \/ SaveTrace \/ AskAgain \/ Store \/ ExplainFails \/ Mark
    \/ \E answer \in SUBSET Sides : Explain(answer)
    \/ Killed

Spec == Init /\ [][Next]_vars

-----------------------------------------------------------------------------
(* Every portfolio accounts for the one before it: what that held is held or  *)
(* exited, and only that is exited.  Two submissions of one run, or one made  *)
(* for an older briefing, would break the chain that the reasons for selling  *)
(* follow (validate_portfolio, submit_portfolio).                             *)
Continues ==
    /\ TypeOK
    /\ \A id \in 2..Latest :
        /\ portfolios[id].exits \subseteq portfolios[id - 1].holdings
        /\ portfolios[id - 1].holdings \subseteq portfolios[id].holdings \cup portfolios[id].exits

(* What portfolio_rebalancer takes for granted of a portfolio that is ready:  *)
(* a sell reason for every target and a buy reason for every holding.         *)
ReadyIsExplained ==
    \A id \in 1..Latest : status[id] = "ready" =>
        /\ \A c \in portfolios[id].holdings \cup portfolios[id].exits : <<c, "sell">> \in reasons[id]
        /\ \A c \in portfolios[id].holdings : <<c, "buy">> \in reasons[id]

(* LEFTOVERS of portfolio_rebalancer: companies it may sell though the latest *)
(* portfolio does not name them.                                              *)
Leftovers ==
    UNION {{c \in portfolios[id].exits : <<c, "sell">> \in reasons[id]} : id \in 1..Latest}

(* A company that users may own since an earlier portfolio was traded can be  *)
(* sold when the latest is traded: it is a target or a leftover.  Only the    *)
(* exits of a portfolio whose trace was lost remain without a reason; those   *)
(* the rebalancer logs as leftover_without_reason.                            *)
NothingStranded ==
    (Latest > 0 /\ status[Latest] = "ready") =>
        \A id \in 1..Latest - 1 : status[id] = "ready" =>
            \A c \in portfolios[id].holdings :
                \/ c \in portfolios[Latest].holdings \cup portfolios[Latest].exits \cup Leftovers
                \/ \E later \in id + 1..Latest : ~traced[later] /\ c \in portfolios[later].exits

(* A run that exits with 0 leaves a portfolio that may be traded, though the  *)
(* agent, the trace and the explanations each may fail (main).                *)
SuccessIsReady == phase = "ended" /\ ExitCode = 0 => Latest > 0 /\ status[Latest] = "ready"

(* What is ready can be traded, and what exits with 0 is ready.               *)
ReadyIsTradable == ReadyIsExplained /\ SuccessIsReady

(* No portfolio is saved unless every required tool has succeeded in an       *)
(* earlier turn, so that the model has read its result: calls of the same     *)
(* turn run at once and do not count (RequireTechnicals, RequireDisclosures). *)
ResearchedFirst ==
    [][Latest' > Latest =>
        \A tool \in Required : \E turn \in 1..turns - 1 : <<turn, tool>> \in trace]_vars
=============================================================================
