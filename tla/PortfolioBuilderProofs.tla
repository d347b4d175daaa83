----------------------- MODULE PortfolioBuilderProofs -----------------------
(***************************************************************************)
(* What holds of the portfolio builder for any companies, required tools,  *)
(* calls per answer, turns and runs, whatever fails or is killed.          *)
(*                                                                         *)
(* The inductive invariant adds to the checked properties what the phases  *)
(* of a run hand to each other: what a submission that has passed the      *)
(* check of saved relies on (SubmitInv), in which turns the tools a run    *)
(* counts have succeeded (ResearchInv), what the explainer works on        *)
(* (ExplainInv), and how the portfolios follow each other (ChainInv).      *)
(***************************************************************************)
EXTENDS PortfolioBuilder, SequenceTheorems, TLAPS

AtWork == phase \in {"turn", "tools"}

\* Nothing of the agent is left when it has returned.
CleanInv ==
    ~AtWork => turns = 0 /\ trace = {} /\ checked = {} /\ found = {} /\ calls = NoCalls
               /\ inside = {} /\ saved = None /\ portfolioId = None /\ previous = {} /\ ~raised

\* One submission at most is between the check of saved and its end; until it
\* is saved the briefing is that of the latest portfolio, which no trace waits
\* to explain.
SubmitInv ==
    /\ AtWork /\ saved # None => saved = Latest
    /\ AtWork /\ saved = None =>
        /\ previous = Held
        /\ Latest > 0 /\ traced[Latest] => status[Latest] = "ready"
    /\ inside # {} => phase = "tools" /\ saved = None /\ Required \subseteq checked
    /\ \A s \in inside : calls[s] = "submit"
    /\ \A s, t \in inside : s = t

\* What the state of the agent counts was found in an earlier turn.
ResearchInv ==
    /\ phase = "turn" => \A tool \in checked : \E turn \in 1..turns : <<turn, tool>> \in trace
    /\ phase = "tools" =>
        /\ turns > 0
        /\ \A tool \in checked : \E turn \in 1..turns - 1 : <<turn, tool>> \in trace
        /\ \A tool \in found : <<turns, tool>> \in trace

\* The portfolio that is explained is the latest.
ExplainInv ==
    /\ phase \in {"trace", "explain", "store", "mark"} => Latest > 0 /\ subject = Latest
    /\ phase = "store" => Covers(explanations)
    /\ phase = "mark" => outcome = "explanation_failed"

\* What a portfolio held is held by the latest, or was exited since; and only
\* the latest portfolio may have a trace without explanations.
ChainInv ==
    /\ \A id \in 1..Latest : \A c \in portfolios[id].holdings :
        \/ c \in portfolios[Latest].holdings
        \/ \E later \in id + 1..Latest : c \in portfolios[later].exits
    /\ \A id \in 1..Latest - 1 : traced[id] => status[id] = "ready"

\* TypeOK in parts.
Column(n, S) == [1..n -> S]
Statuses == {"explanation_pending", "ready", "explanation_failed"}

TableOK ==
    /\ portfolios \in Seq(Portfolio)
    /\ status \in Column(Latest, Statuses)
    /\ traced \in Column(Latest, BOOLEAN)
    /\ reasons \in Column(Latest, SUBSET Sides)

AgentOK ==
    /\ phase \in {"ended", "turn", "tools", "trace", "explain", "store", "mark"}
    /\ previous \subseteq Companies
    /\ turns \in 0..MaxTurns
    /\ trace \subseteq (1..turns) \X Required
    /\ checked \subseteq Required /\ found \subseteq Required
    /\ DOMAIN calls \subseteq Slots /\ \A s \in DOMAIN calls : calls[s] \in Tools
    /\ inside \subseteq DOMAIN calls
    /\ saved \in 0..Latest /\ portfolioId \in {None, saved}
    /\ raised \in BOOLEAN

ExplainerOK ==
    /\ subject \in 0..Latest
    /\ attempt \in 0..1 /\ explanations \subseteq Sides
    /\ outcome \in {"none", "saved", "reexplained", "max_turns", "error",
                    "explanation_failed"}
    /\ runs \in 0..MaxRuns

\* Continues without the types.
Chained ==
    \A id \in 2..Latest :
        /\ portfolios[id].exits \subseteq portfolios[id - 1].holdings
        /\ portfolios[id - 1].holdings \subseteq portfolios[id].holdings \cup portfolios[id].exits

TableInv == TableOK /\ Chained /\ ReadyIsExplained /\ ChainInv

IInv ==
    /\ TableInv /\ AgentOK /\ ExplainerOK
    /\ CleanInv /\ SubmitInv /\ ResearchInv /\ ExplainInv /\ SuccessIsReady

-----------------------------------------------------------------------------
(* Sequences and the table.                                                *)

\* A column with one more row, and one with a row changed.
Extended(g, f, n, S, v) ==
    g \in Column(n + 1, S) /\ (\A i \in 1..n : g[i] = f[i]) /\ g[n + 1] = v

Changed(g, f, n, S, k, v) ==
    g \in Column(n, S) /\ (\A i \in 1..n : i # k => g[i] = f[i]) /\ g[k] = v

\* What Append does to a column.
LEMMA AppendColumn ==
    ASSUME NEW S, NEW n \in Nat, NEW f \in Column(n, S), NEW v \in S
    PROVE  Extended(Append(f, v), f, n, S, v)
<1>1. f \in Seq(S) /\ Len(f) = n
  BY LenProperties DEF Column
<1>2. Append(f, v) \in Seq(S) /\ Len(Append(f, v)) = n + 1
  BY <1>1, AppendProperties
<1>3. \A i \in 1..n : Append(f, v)[i] = f[i]
  BY <1>1, AppendProperties
<1>4. Append(f, v)[n + 1] = v
  BY <1>1, AppendProperties
<1>5. Append(f, v) \in Column(n + 1, S)
  BY <1>2, LenProperties DEF Column
<1>6. QED
  BY <1>3, <1>4, <1>5 DEF Extended

\* What EXCEPT does to one.
LEMMA ChangeColumn ==
    ASSUME NEW S, NEW n \in Nat, NEW f \in Column(n, S), NEW k \in 1..n, NEW v \in S
    PROVE  Changed([f EXCEPT ![k] = v], f, n, S, k, v)
BY DEF Column, Changed

\* The table is what the properties of the portfolios are about.
LEMMA TableUntouched ==
    ASSUME TableInv, UNCHANGED table
    PROVE  TableInv' /\ Latest' = Latest /\ Held' = Held
BY DEF TableInv, TableOK, Chained, ReadyIsExplained, ChainInv, table, Latest, Held

\* The empty answer.
LEMMA NoCallsLeft == DOMAIN NoCalls = {} /\ \A S : {} \subseteq S
BY DEF NoCalls

\* The number of portfolios.
LEMMA LatestIsNat == TableOK => Latest \in Nat
BY DEF TableOK, Latest

\* No run, no portfolio.
LEMMA InitInv == Init => IInv
<1> SUFFICES ASSUME Init PROVE IInv
  OBVIOUS
<1>1. Latest = 0 /\ portfolios \in Seq(Portfolio)
  BY DEF Init, Latest
<1>2. TableInv
  BY <1>1 DEF Init, TableInv, TableOK, Column, Chained, ReadyIsExplained, ChainInv
<1>3. AgentOK /\ ExplainerOK
  <2>1. turns \in 0..MaxTurns /\ attempt \in 0..1 /\ runs \in 0..MaxRuns
    BY BuilderAssumption DEF Init
  <2>2. saved \in 0..Latest /\ subject \in 0..Latest
    BY <1>1 DEF Init, None
  <2>3. QED
    BY <2>1, <2>2, NoCallsLeft DEF Init, AgentOK, ExplainerOK
<1>4. CleanInv /\ SubmitInv /\ ResearchInv /\ ExplainInv /\ SuccessIsReady
  BY DEF Init, CleanInv, SubmitInv, ResearchInv, ExplainInv, SuccessIsReady, AtWork,
         ExitCode, None, NoCalls
<1>5. QED
  BY <1>2, <1>3, <1>4 DEF IInv

-----------------------------------------------------------------------------
(* The ways out of a run.                                                  *)

\* A run that ends without a success leaves nothing to be explained.
LEMMA EndsInv ==
    ASSUME IInv, UNCHANGED table, runs' \in 0..MaxRuns,
           NEW result \in {"none", "max_turns", "error", "explanation_failed"},
           Ends(result)
    PROVE  IInv'
<1>1. TableInv' /\ Latest' = Latest /\ Latest \in Nat
  BY TableUntouched, LatestIsNat DEF IInv, TableInv
<1>2. AgentOK' /\ ExplainerOK'
  <2>1. turns' \in 0..MaxTurns /\ attempt' \in 0..1
    BY BuilderAssumption DEF Ends
  <2>2. saved' \in 0..Latest' /\ subject' \in 0..Latest'
    BY <1>1 DEF Ends, None
  <2>3. QED
    BY <2>1, <2>2, NoCallsLeft DEF Ends, AgentOK, ExplainerOK
<1>3. /\ CleanInv' /\ SubmitInv' /\ ResearchInv' /\ ExplainInv' /\ SuccessIsReady'
  BY DEF Ends, CleanInv, SubmitInv, ResearchInv, ExplainInv, SuccessIsReady, AtWork,
         ExitCode, NoCalls
<1>4. QED
  BY <1>1, <1>2, <1>3 DEF IInv

\* An agent that returns has saved the latest portfolio, or nothing.
LEMMA ReturnsInv ==
    ASSUME IInv, AtWork, UNCHANGED runs, inside = {},
           NEW result \in {"max_turns", "error", "saved"},
           Returns(result, portfolioId),
           result = "saved" => portfolioId # None
    PROVE  IInv'
<1>1. CASE portfolioId = None
  BY <1>1, EndsInv DEF Returns, IInv, ExplainerOK
<1>2. CASE portfolioId # None
  <2>1. TableInv' /\ Latest' = Latest /\ Latest \in Nat
    BY <1>2, TableUntouched, LatestIsNat DEF Returns, IInv, TableInv
  <2>2. portfolioId = Latest /\ Latest > 0
    BY <1>2, <2>1 DEF IInv, AgentOK, SubmitInv, None
  <2>3. AgentOK' /\ ExplainerOK'
    <3>1. turns' \in 0..MaxTurns /\ saved' \in 0..Latest' /\ subject' \in 0..Latest'
      BY <1>2, <2>1, <2>2, BuilderAssumption DEF Returns, None
    <3>2. QED
      BY <1>2, <3>1, NoCallsLeft DEF Returns, IInv, AgentOK, ExplainerOK
  <2>4. CleanInv' /\ SubmitInv' /\ ResearchInv' /\ ExplainInv' /\ SuccessIsReady'
    BY <1>2, <2>1, <2>2 DEF Returns, CleanInv, SubmitInv, ResearchInv, ExplainInv, SuccessIsReady,
       AtWork, NoCalls
  <2>5. QED
    BY <2>1, <2>3, <2>4 DEF IInv
<1>3. QED
  BY <1>1, <1>2

-----------------------------------------------------------------------------
(* The start of a run and the turns of the agent.                          *)

\* A run explains what the latest portfolio lacks, or its agent is briefed with it.
LEMMA StartInv ==
    ASSUME IInv, Reexplain \/ Brief \/ StartFails
    PROVE  IInv'
<1>1. runs' \in 0..MaxRuns /\ TableInv' /\ Latest' = Latest /\ Latest \in Nat /\ Held' = Held
  <2>1. runs' \in 0..MaxRuns
    BY BuilderAssumption DEF Reexplain, Brief, StartFails, Starting, IInv, ExplainerOK
  <2>2. UNCHANGED table
    BY DEF Reexplain, Brief, StartFails
  <2>3. QED
    BY <2>1, <2>2, TableUntouched, LatestIsNat DEF IInv, TableInv
<1>2. CASE Reexplain
  <2>1. AgentOK' /\ ExplainerOK'
    BY <1>1, <1>2 DEF Reexplain, Starting, IInv, AgentOK, ExplainerOK, agent
  <2>2. Latest > 0 /\ phase = "ended"
    BY <1>2 DEF Reexplain, Starting, Unexplained
  <2>3. CleanInv' /\ SubmitInv' /\ ResearchInv' /\ ExplainInv' /\ SuccessIsReady'
    BY <1>1, <1>2, <2>2 DEF Reexplain, IInv, CleanInv, SubmitInv, ResearchInv,
       ExplainInv, SuccessIsReady, AtWork, agent
  <2>4. QED
    BY <1>1, <2>1, <2>3 DEF IInv
<1>3. CASE Brief
  <2>1. phase = "ended" /\ Held \subseteq Companies
    <3>1. Latest > 0 => portfolios[Latest] \in Portfolio
      BY <1>1, ElementOfSeq DEF Latest, IInv, TableInv, TableOK
    <3>2. QED
      BY <1>1, <1>3, <3>1 DEF Brief, Starting, Held, Portfolio
  <2>2. AgentOK' /\ ExplainerOK'
    BY <1>1, <1>3, <2>1 DEF Brief, IInv, AgentOK, ExplainerOK, explainer
  <2>3. CleanInv' /\ SubmitInv'
    BY <1>1, <1>3, <2>1 DEF Brief, Unexplained, IInv, CleanInv, SubmitInv, AtWork, None, table
  <2>4. ResearchInv' /\ ExplainInv' /\ SuccessIsReady'
    BY <1>3, <2>1 DEF Brief, IInv, CleanInv, ResearchInv, ExplainInv, SuccessIsReady, AtWork
  <2>5. QED
    BY <1>1, <2>2, <2>3, <2>4 DEF IInv
<1>4. CASE StartFails
  BY <1>1, <1>4, EndsInv DEF StartFails
<1>5. QED
  BY <1>2, <1>3, <1>4

\* The agent stops, or is stopped.
LEMMA StopInv ==
    ASSUME IInv, Stop \/ Limit \/ ModelFails \/ Abort \/ Killed
    PROVE  IInv'
<1>1. phase = "turn" => inside = {}
  BY DEF IInv, SubmitInv
<1>2. CASE Stop
  BY <1>1, <1>2, ReturnsInv DEF Stop, AtWork
<1>3. CASE Limit
  BY <1>1, <1>3, ReturnsInv DEF Limit, AtWork
<1>4. CASE ModelFails
  BY <1>1, <1>4, ReturnsInv DEF ModelFails, AtWork
<1>5. CASE Abort
  BY <1>5, ReturnsInv DEF Abort, AtWork
<1>6. CASE Killed
  BY <1>6, EndsInv DEF Killed, IInv, ExplainerOK
<1>7. QED
  BY <1>2, <1>3, <1>4, <1>5, <1>6

\* An answer of the model counts as a turn, and what was found before it is earlier.
LEMMA AnswerInv ==
    ASSUME IInv, Nudge \/ \E S \in (SUBSET Slots) \ {{}} : \E asked \in [S -> Tools] : Ask(asked)
    PROVE  IInv'
<1>1. TableInv' /\ Latest' = Latest /\ Latest \in Nat /\ Held' = Held
  <2>1. UNCHANGED table
    BY DEF Nudge, Ask
  <2>2. QED
    BY <2>1, TableUntouched, LatestIsNat DEF IInv, TableInv
<1>2. /\ phase = "turn" /\ inside = {} /\ turns \in Nat
      /\ turns' = turns + 1 /\ turns' \in 0..MaxTurns /\ turns' > 0
  BY BuilderAssumption DEF Nudge, Ask, Answering, Exhausted, IInv, AgentOK, SubmitInv
<1>3. trace \subseteq (1..turns') \X Required
  BY <1>2 DEF IInv, AgentOK
<1>4. \A tool \in checked : \E turn \in 1..turns : <<turn, tool>> \in trace
  BY <1>2 DEF IInv, ResearchInv
<1>5. CASE Nudge
  <2>1. AgentOK' /\ ExplainerOK'
    BY <1>1, <1>2, <1>3, <1>5 DEF Nudge, IInv, AgentOK, ExplainerOK, explainer
  <2>2. ResearchInv'
    BY <1>2, <1>4, <1>5 DEF Nudge, ResearchInv
  <2>3. CleanInv' /\ SubmitInv' /\ ExplainInv' /\ SuccessIsReady'
    BY <1>1, <1>2, <1>5 DEF Nudge, IInv, CleanInv, SubmitInv, ExplainInv, SuccessIsReady,
       AtWork, table
  <2>4. QED
    BY <1>1, <2>1, <2>2, <2>3 DEF IInv
<1>6. ASSUME NEW S \in (SUBSET Slots) \ {{}}, NEW asked \in [S -> Tools], Ask(asked)
      PROVE  IInv'
  <2>1. AgentOK' /\ ExplainerOK'
    BY <1>1, <1>2, <1>3, <1>6 DEF Ask, IInv, AgentOK, ExplainerOK, explainer
  <2>2. ResearchInv'
    BY <1>2, <1>4, <1>6 DEF Ask, ResearchInv
  <2>3. CleanInv' /\ SubmitInv' /\ ExplainInv' /\ SuccessIsReady'
    BY <1>1, <1>2, <1>6 DEF Ask, IInv, CleanInv, SubmitInv, ExplainInv, SuccessIsReady,
       AtWork, table
  <2>4. QED
    BY <1>1, <2>1, <2>2, <2>3 DEF IInv
<1>7. QED
  BY <1>5, <1>6

-----------------------------------------------------------------------------
(* The calls of a turn.                                                    *)

\* A call is taken out of those that run.
LEMMA WithoutCall ==
    ASSUME NEW s, DOMAIN calls \subseteq Slots, \A t \in DOMAIN calls : calls[t] \in Tools
    PROVE  /\ DOMAIN Without(calls, s) = DOMAIN calls \ {s}
           /\ \A t \in DOMAIN Without(calls, s) : Without(calls, s)[t] \in Tools
BY DEF Without

\* A tool's result, a refusal or an exception ends a call and saves nothing.
LEMMA CallInv ==
    ASSUME IInv, NEW s \in Slots,
           \/ \E useful \in BOOLEAN : Research(s, useful)
           \/ Refused(s) \/ Raise(s)
    PROVE  IInv'
<1>1. TableInv' /\ Latest' = Latest /\ Latest \in Nat /\ Held' = Held
  <2>1. UNCHANGED table
    BY DEF Research, Refused, Raise
  <2>2. QED
    BY <2>1, TableUntouched, LatestIsNat DEF IInv, TableInv
<1>2. /\ phase = "tools" /\ phase' = "tools" /\ calls' = Without(calls, s)
      /\ UNCHANGED <<previous, turns, checked, saved, portfolioId, explainer, table, outcome, runs>>
  BY DEF Research, Refused, Raise, Submits
<1>3. inside' \subseteq inside \ {s}
  <2>1. ASSUME NEW useful \in BOOLEAN, Research(s, useful) PROVE s \notin inside
    BY <2>1, BuilderAssumption DEF Research, IInv, SubmitInv
  <2>2. QED
    BY <2>1 DEF Research, Refused, Raise
<1>4. /\ found' \subseteq Required /\ found \subseteq found'
      /\ trace' \subseteq (1..turns') \X Required /\ trace \subseteq trace'
      /\ \A tool \in found' : tool \in found \/ <<turns, tool>> \in trace'
      /\ raised' \in BOOLEAN
  <2>1. turns > 0 /\ turns \in Nat
    BY <1>2, BuilderAssumption DEF IInv, ResearchInv, AgentOK
  <2>2. ASSUME NEW useful \in BOOLEAN, Research(s, useful)
        PROVE  /\ found' = found \cup (IF useful THEN {calls[s]} ELSE {})
               /\ trace' = trace \cup (IF useful THEN {<<turns, calls[s]>>} ELSE {})
               /\ calls[s] \in Required /\ raised' = raised
    BY <2>2 DEF Research
  <2>3. CASE Refused(s) \/ Raise(s)
    BY <1>2, <2>3 DEF Refused, Raise, IInv, AgentOK
  <2>4. QED
    BY <1>2, <2>1, <2>2, <2>3 DEF IInv, AgentOK
<1>5. /\ DOMAIN calls' = DOMAIN calls \ {s} /\ \A t \in DOMAIN calls' : calls'[t] = calls[t]
  BY <1>2 DEF Without
<1>6. AgentOK' /\ ExplainerOK'
  <2>1. \A t \in DOMAIN calls' : calls'[t] \in Tools
    BY <1>5 DEF IInv, AgentOK
  <2>2. DOMAIN calls' \subseteq Slots /\ inside' \subseteq DOMAIN calls'
    BY <1>3, <1>5 DEF IInv, AgentOK
  <2>3. QED
    BY <1>1, <1>2, <1>4, <2>1, <2>2 DEF IInv, AgentOK, ExplainerOK, explainer
<1>7. SubmitInv'
  <2>1. AtWork /\ AtWork'
    BY <1>2 DEF AtWork
  <2>2. \A t \in inside' : calls'[t] = "submit"
    BY <1>3, <1>5 DEF IInv, AgentOK, SubmitInv
  <2>3. QED
    BY <1>1, <1>2, <1>3, <2>1, <2>2 DEF IInv, SubmitInv, table
<1>8. ResearchInv'
  BY <1>2, <1>4 DEF IInv, ResearchInv
<1>9. CleanInv' /\ ExplainInv' /\ SuccessIsReady'
  BY <1>2 DEF CleanInv, ExplainInv, SuccessIsReady, AtWork
<1>10. QED
  BY <1>1, <1>6, <1>7, <1>8, <1>9 DEF IInv

\* A submission passes the check of saved when no other is past it.
LEMMA EnterInv ==
    ASSUME IInv, NEW s \in Slots, Enter(s)
    PROVE  IInv'
<1>1. TableInv' /\ Latest' = Latest /\ Latest \in Nat /\ Held' = Held
  <2>1. UNCHANGED table
    BY DEF Enter
  <2>2. QED
    BY <2>1, TableUntouched, LatestIsNat DEF IInv, TableInv
<1>2. inside = {} /\ inside' = {s} /\ s \in DOMAIN calls /\ calls[s] = "submit" /\ phase = "tools"
  BY DEF Enter, Free, Submits
<1>3. AgentOK' /\ ExplainerOK'
  BY <1>1, <1>2 DEF Enter, IInv, AgentOK, ExplainerOK, explainer
<1>4. SubmitInv'
  BY <1>1, <1>2 DEF Enter, Researched, IInv, SubmitInv, AtWork, table
<1>5. CleanInv' /\ ResearchInv' /\ ExplainInv' /\ SuccessIsReady'
  BY <1>2 DEF Enter, IInv, CleanInv, ResearchInv, ExplainInv, SuccessIsReady, AtWork
<1>6. QED
  BY <1>1, <1>3, <1>4, <1>5 DEF IInv

\* All calls have ended: the next turn sees what they have found.
LEMMA TurnInv ==
    ASSUME IInv, Turn
    PROVE  IInv'
<1>1. TableInv' /\ Latest' = Latest /\ Latest \in Nat /\ Held' = Held
  <2>1. UNCHANGED table
    BY DEF Turn
  <2>2. QED
    BY <2>1, TableUntouched, LatestIsNat DEF IInv, TableInv
<1>2. phase = "tools" /\ phase' = "turn" /\ inside = {} /\ inside' = {}
  BY DEF Turn, IInv, AgentOK
<1>3. AgentOK' /\ ExplainerOK'
  BY <1>1, <1>2 DEF Turn, IInv, AgentOK, ExplainerOK, explainer
<1>4. SubmitInv'
  BY <1>1, <1>2 DEF Turn, IInv, SubmitInv, AtWork, table
<1>5. ResearchInv'
  <2>1. turns > 0 /\ turns \in Nat /\ turns' = turns /\ trace' = trace
    BY <1>2, BuilderAssumption DEF Turn, IInv, AgentOK, ResearchInv
  <2>2. ASSUME NEW tool \in checked \cup found PROVE \E turn \in 1..turns : <<turn, tool>> \in trace
    <3>1. CASE tool \in checked
      <4>1. PICK turn \in 1..turns - 1 : <<turn, tool>> \in trace
        BY <1>2, <3>1 DEF IInv, ResearchInv
      <4>2. QED
        BY <2>1, <4>1
    <3>2. CASE tool \in found
      BY <1>2, <2>1, <3>2 DEF IInv, ResearchInv
    <3>3. QED
      BY <3>1, <3>2
  <2>3. QED
    BY <1>2, <2>1, <2>2 DEF Turn, ResearchInv
<1>6. CleanInv' /\ ExplainInv' /\ SuccessIsReady'
  BY <1>2 DEF CleanInv, ExplainInv, SuccessIsReady, AtWork
<1>7. QED
  BY <1>1, <1>3, <1>4, <1>5, <1>6 DEF IInv

-----------------------------------------------------------------------------
(* The submission that is saved.                                           *)

\* A submission continues the latest portfolio, and is the only one of its run.
LEMMA SaveInv ==
    ASSUME IInv, NEW s \in Slots, NEW submission \in Portfolio, Save(s, submission)
    PROVE  IInv'
<1> DEFINE n == Latest
<1>1. n \in Nat /\ portfolios \in [1..n -> Portfolio] /\ portfolios \in Seq(Portfolio)
  BY LatestIsNat, LenProperties DEF Latest, IInv, TableInv, TableOK
<1>2. /\ portfolios' \in Seq(Portfolio) /\ Latest' = n + 1
      /\ \A i \in 1..n : portfolios'[i] = portfolios[i]
      /\ portfolios'[n + 1] = submission
  BY <1>1, AppendProperties DEF Save, Latest
<1>3. /\ status' \in Column(n + 1, Statuses)
      /\ \A i \in 1..n : status'[i] = status[i]
      /\ status'[n + 1] = "explanation_pending"
  <2>1. status \in Column(n, Statuses) /\ "explanation_pending" \in Statuses
    BY DEF IInv, TableInv, TableOK, Statuses
  <2>2. Extended(status', status, n, Statuses, "explanation_pending")
    BY <1>1, <2>1, AppendColumn DEF Save
  <2>3. QED
    BY <2>2 DEF Extended
<1>4. /\ traced' \in Column(n + 1, BOOLEAN)
      /\ \A i \in 1..n : traced'[i] = traced[i]
      /\ traced'[n + 1] = FALSE
  <2>1. traced \in Column(n, BOOLEAN)
    BY DEF IInv, TableInv, TableOK
  <2>2. Extended(traced', traced, n, BOOLEAN, FALSE)
    BY <1>1, <2>1, AppendColumn DEF Save
  <2>3. QED
    BY <2>2 DEF Extended
<1>5. /\ reasons' \in Column(n + 1, SUBSET Sides)
      /\ \A i \in 1..n : reasons'[i] = reasons[i]
  <2>1. reasons \in Column(n, SUBSET Sides) /\ {} \in SUBSET Sides
    BY DEF IInv, TableInv, TableOK
  <2>2. Extended(reasons', reasons, n, SUBSET Sides, {})
    BY <1>1, <2>1, AppendColumn DEF Save
  <2>3. QED
    BY <2>2 DEF Extended
<1>6. /\ phase = "tools" /\ saved = None /\ portfolioId = None /\ previous = Held
      /\ n > 0 /\ traced[n] => status[n] = "ready"
      /\ inside = {s} /\ inside' = {} /\ calls' = Without(calls, s)
  BY DEF Save, IInv, SubmitInv, AgentOK, AtWork
<1>7. n > 0 =>
        /\ submission.exits \subseteq portfolios[n].holdings
        /\ portfolios[n].holdings \subseteq submission.holdings \cup submission.exits
  BY <1>6 DEF Save, Valid, Held
<1>8. TableOK'
  BY <1>1, <1>2, <1>3, <1>4, <1>5 DEF TableOK
<1>9. Chained'
  <2> SUFFICES ASSUME NEW id \in 2..n + 1
               PROVE  /\ portfolios'[id].exits \subseteq portfolios'[id - 1].holdings
                      /\ portfolios'[id - 1].holdings \subseteq portfolios'[id].holdings \cup portfolios'[id].exits
    BY <1>2 DEF Chained
  <2>1. CASE id = n + 1
    BY <1>1, <1>2, <1>7, <2>1
  <2>2. CASE id \in 2..n
    BY <1>1, <1>2, <2>2 DEF IInv, TableInv, Chained
  <2>3. QED
    BY <1>1, <2>1, <2>2
<1>10. ReadyIsExplained'
  <2> SUFFICES ASSUME NEW id \in 1..n + 1, status'[id] = "ready"
               PROVE  /\ \A c \in portfolios'[id].holdings \cup portfolios'[id].exits : <<c, "sell">> \in reasons'[id]
                      /\ \A c \in portfolios'[id].holdings : <<c, "buy">> \in reasons'[id]
    BY <1>2 DEF ReadyIsExplained
  <2>1. id \in 1..n
    BY <1>1, <1>3
  <2>2. QED
    BY <1>2, <1>3, <1>5, <2>1 DEF IInv, TableInv, ReadyIsExplained
<1>11. ChainInv'
  <2>1. ASSUME NEW id \in 1..n + 1, NEW c \in portfolios'[id].holdings
        PROVE  \/ c \in portfolios'[n + 1].holdings
               \/ \E later \in id + 1..n + 1 : c \in portfolios'[later].exits
    <3>1. CASE id = n + 1
      BY <3>1
    <3>2. CASE id \in 1..n
      <4>1. \/ c \in portfolios[n].holdings
            \/ \E later \in id + 1..n : c \in portfolios[later].exits
        BY <1>2, <3>2 DEF IInv, TableInv, ChainInv
      <4>2. CASE c \in portfolios[n].holdings
        BY <1>1, <1>2, <1>7, <3>2, <4>2
      <4>3. CASE \E later \in id + 1..n : c \in portfolios[later].exits
        BY <1>1, <1>2, <3>2, <4>3
      <4>4. QED
        BY <4>1, <4>2, <4>3
    <3>3. QED
      BY <1>1, <3>1, <3>2
  <2>2. ASSUME NEW id \in 1..n, traced'[id] PROVE status'[id] = "ready"
    BY <1>1, <1>3, <1>4, <1>6, <2>2 DEF IInv, TableInv, ChainInv
  <2>3. n + 1 \in Nat /\ (n + 1) - 1 = n
    BY <1>1
  <2>4. \A id \in 1..Latest' - 1 : traced'[id] => status'[id] = "ready"
    BY <1>2, <2>2, <2>3
  <2>5. \A id \in 1..Latest' : \A c \in portfolios'[id].holdings :
          \/ c \in portfolios'[Latest'].holdings
          \/ \E later \in id + 1..Latest' : c \in portfolios'[later].exits
    BY <1>2, <2>1
  <2>6. QED
    BY <2>4, <2>5 DEF ChainInv
<1>12. AgentOK' /\ ExplainerOK'
  <2>1. saved' = n + 1 /\ portfolioId' \in {None, saved'}
    BY <1>2, <1>6 DEF Save, Latest
  <2>2. DOMAIN calls' \subseteq Slots /\ \A t \in DOMAIN calls' : calls'[t] \in Tools
    BY <1>6, WithoutCall DEF IInv, AgentOK
  <2>3. saved' \in 0..Latest' /\ subject' \in 0..Latest'
    BY <1>1, <1>2, <2>1 DEF Save, IInv, ExplainerOK, explainer
  <2>4. QED
    BY <1>6, <2>1, <2>2, <2>3 DEF Save, IInv, AgentOK, ExplainerOK, explainer
<1>13. SubmitInv'
  <2>1. saved' = Latest' /\ saved' # None
    BY <1>1, <1>2 DEF Save, Latest, None
  <2>2. QED
    BY <1>6, <2>1 DEF SubmitInv, Save
<1>14. CleanInv' /\ ResearchInv' /\ ExplainInv' /\ SuccessIsReady'
  BY <1>6 DEF Save, IInv, CleanInv, ResearchInv, ExplainInv, SuccessIsReady, AtWork
<1>15. QED
  BY <1>8, <1>9, <1>10, <1>11, <1>12, <1>13, <1>14 DEF IInv, TableInv

-----------------------------------------------------------------------------
(* The explanation.                                                        *)

\* The trace is saved for the latest portfolio, which is the one explained.
LEMMA SaveTraceInv ==
    ASSUME IInv, SaveTrace
    PROVE  IInv'
<1>1. Latest \in Nat /\ Latest > 0 /\ subject = Latest /\ Latest' = Latest /\ phase' = "explain"
  BY LatestIsNat DEF SaveTrace, IInv, TableInv, ExplainInv, Latest
<1>2. /\ traced' \in Column(Latest, BOOLEAN)
      /\ \A id \in 1..Latest - 1 : traced'[id] = traced[id]
  <2>1. traced \in Column(Latest, BOOLEAN) /\ Latest \in 1..Latest
    BY <1>1 DEF IInv, TableInv, TableOK
  <2>2. Changed(traced', traced, Latest, BOOLEAN, Latest, TRUE)
    BY <1>1, <2>1, ChangeColumn DEF SaveTrace
  <2>3. QED
    BY <1>1, <2>2 DEF Changed
<1>3. TableInv'
  BY <1>1, <1>2 DEF SaveTrace, IInv, TableInv, TableOK, Chained, ReadyIsExplained, ChainInv
<1>4. AgentOK' /\ ExplainerOK'
  BY <1>1 DEF SaveTrace, IInv, AgentOK, ExplainerOK, agent, explainer
<1>5. CleanInv' /\ SubmitInv' /\ ResearchInv' /\ ExplainInv' /\ SuccessIsReady'
  BY <1>1 DEF SaveTrace, IInv, CleanInv, SubmitInv, ResearchInv, ExplainInv, SuccessIsReady,
     AtWork, agent, explainer
<1>6. QED
  BY <1>3, <1>4, <1>5 DEF IInv

\* An answer that covers the portfolio is kept; a bad one, or a failure, is not.
LEMMA ExplainStepInv ==
    ASSUME IInv, AskAgain \/ ExplainFails \/ \E answer \in SUBSET Sides : Explain(answer)
    PROVE  IInv'
<1>1. TableInv' /\ Latest' = Latest /\ Latest \in Nat /\ Held' = Held
  <2>1. UNCHANGED table
    BY DEF AskAgain, ExplainFails, Explain
  <2>2. QED
    BY <2>1, TableUntouched, LatestIsNat DEF IInv, TableInv
<1>2. Latest > 0 /\ subject = Latest /\ subject' = subject /\ ~AtWork /\ ~AtWork'
  BY DEF AskAgain, ExplainFails, Explain, IInv, ExplainInv, AtWork, explainer
<1>3. AgentOK' /\ ExplainerOK'
  BY <1>1 DEF AskAgain, ExplainFails, Explain, IInv, AgentOK, ExplainerOK, agent, explainer
<1>4. ExplainInv' /\ SuccessIsReady'
  BY <1>1, <1>2 DEF AskAgain, ExplainFails, Explain, IInv, ExplainInv, SuccessIsReady, Covers,
     table, explainer
<1>5. CleanInv' /\ SubmitInv' /\ ResearchInv'
  BY <1>2 DEF AskAgain, ExplainFails, Explain, IInv, CleanInv, SubmitInv, ResearchInv,
     AtWork, agent
<1>6. QED
  BY <1>1, <1>3, <1>4, <1>5 DEF IInv

\* With its explanations stored the portfolio is ready, and with them only.
LEMMA StoreInv ==
    ASSUME IInv, Store \/ Mark
    PROVE  IInv'
<1>1. Latest \in Nat /\ Latest > 0 /\ subject = Latest /\ Latest' = Latest /\ portfolios' = portfolios
  BY LatestIsNat DEF Store, Mark, IInv, TableInv, ExplainInv, Latest
<1>2. /\ status' \in Column(Latest, Statuses)
      /\ \A id \in 1..Latest - 1 : status'[id] = status[id]
      /\ status'[Latest] = IF phase = "store" THEN "ready" ELSE "explanation_failed"
  <2>1. status \in Column(Latest, Statuses) /\ Latest \in 1..Latest
    BY <1>1 DEF IInv, TableInv, TableOK
  <2>2. PICK v \in Statuses : /\ status' = [status EXCEPT ![Latest] = v]
                             /\ v = IF phase = "store" THEN "ready" ELSE "explanation_failed"
    BY <1>1 DEF Store, Mark, Statuses
  <2>3. Changed(status', status, Latest, Statuses, Latest, v)
    BY <1>1, <2>1, <2>2, ChangeColumn
  <2>4. QED
    BY <1>1, <2>2, <2>3 DEF Changed
<1>3. /\ reasons' \in Column(Latest, SUBSET Sides)
      /\ \A id \in 1..Latest : reasons[id] \subseteq reasons'[id]
      /\ phase = "store" => explanations \subseteq reasons'[Latest]
  <2>1. reasons \in Column(Latest, SUBSET Sides) /\ Latest \in 1..Latest
    BY <1>1 DEF IInv, TableInv, TableOK
  <2>2. CASE Mark
    BY <1>1, <2>1, <2>2 DEF Mark
  <2>3. CASE Store
    <3> DEFINE new == reasons[Latest] \cup explanations
    <3>1. new \in SUBSET Sides
      BY <2>1 DEF Column, IInv, ExplainerOK
    <3>2. reasons' = [reasons EXCEPT ![Latest] = new]
      BY <1>1, <2>3 DEF Store
    <3>3. Changed(reasons', reasons, Latest, SUBSET Sides, Latest, new)
      <4> HIDE DEF new
      <4>1. QED
        BY <1>1, <2>1, <3>1, <3>2, ChangeColumn
    <3>4. QED
      BY <1>1, <3>3 DEF Changed
  <2>4. QED
    BY <2>2, <2>3
<1>4. ReadyIsExplained'
  <2> SUFFICES ASSUME NEW id \in 1..Latest, status'[id] = "ready"
               PROVE  /\ \A c \in portfolios[id].holdings \cup portfolios[id].exits : <<c, "sell">> \in reasons'[id]
                      /\ \A c \in portfolios[id].holdings : <<c, "buy">> \in reasons'[id]
    BY <1>1 DEF ReadyIsExplained
  <2>1. CASE id = Latest
    <3>1. phase = "store" /\ Covers(explanations)
      BY <1>2, <2>1 DEF IInv, ExplainInv
    <3>2. QED
      BY <1>1, <1>3, <2>1, <3>1 DEF Covers
  <2>2. CASE id \in 1..Latest - 1
    BY <1>1, <1>2, <1>3, <2>2 DEF IInv, TableInv, ReadyIsExplained
  <2>3. QED
    BY <1>1, <2>1, <2>2
<1>5. TableInv'
  BY <1>1, <1>2, <1>3, <1>4 DEF Store, Mark, IInv, TableInv, TableOK, Chained, ChainInv
<1>6. Ends(outcome) /\ runs' = runs
  BY DEF Store, Mark
<1>7. AgentOK' /\ ExplainerOK'
  <2>1. turns' \in 0..MaxTurns /\ attempt' \in 0..1 /\ outcome' = outcome
    BY <1>6, BuilderAssumption DEF Ends
  <2>2. saved' \in 0..Latest' /\ subject' \in 0..Latest'
    BY <1>1, <1>6 DEF Ends, None
  <2>3. QED
    BY <1>6, <2>1, <2>2, NoCallsLeft DEF Ends, IInv, AgentOK, ExplainerOK
<1>8. SuccessIsReady'
  BY <1>1, <1>2, <1>6 DEF Store, Mark, Ends, IInv, ExplainInv, SuccessIsReady, ExitCode
<1>9. CleanInv' /\ SubmitInv' /\ ResearchInv' /\ ExplainInv'
  BY <1>6 DEF Ends, CleanInv, SubmitInv, ResearchInv, ExplainInv, AtWork
<1>10. QED
  BY <1>5, <1>7, <1>8, <1>9 DEF IInv

-----------------------------------------------------------------------------
\* The invariant is inductive.
LEMMA NextInv == IInv /\ [Next]_vars => IInv'
<1> SUFFICES ASSUME IInv, [Next]_vars PROVE IInv'
  OBVIOUS
<1>1. CASE Next
  <2>1. ASSUME NEW s \in Slots, Refuse(s) \/ TooLate(s) \/ Reject(s) PROVE IInv'
    BY <2>1, CallInv DEF Refuse, TooLate, Reject
  <2>2. QED
    BY <1>1, <2>1, StartInv, StopInv, AnswerInv, CallInv, EnterInv, SaveInv, TurnInv,
       SaveTraceInv, ExplainStepInv, StoreInv DEF Next
<1>2. CASE UNCHANGED vars
  <2>1. TableInv' /\ Latest' = Latest /\ Held' = Held
    BY <1>2, TableUntouched DEF vars, table, IInv
  <2>2. QED
    BY <1>2, <2>1 DEF vars, IInv, AgentOK, ExplainerOK, CleanInv, SubmitInv, ResearchInv,
       ExplainInv, SuccessIsReady, AtWork, ExitCode, Covers
<1>3. QED
  BY <1>1, <1>2

\* It holds throughout.
LEMMA Invariance == Spec => []IInv
BY InitInv, NextInv, PTL DEF Spec

-----------------------------------------------------------------------------
(* The properties.                                                         *)

\* Every portfolio accounts for the one before it, whatever calls of an answer
\* overlap, fail or are cut off (validate_portfolio, submit_portfolio).
THEOREM ContinuesCorrect == Spec => []Continues
<1>1. IInv => Continues
  BY DEF IInv, TableInv, TableOK, AgentOK, ExplainerOK, Chained, Continues, TypeOK, Column, Statuses
<1>2. QED
  BY <1>1, Invariance, PTL

\* A portfolio is ready only with both reasons of every holding and the sell
\* reason of every exit, and a run that exits with 0 leaves a ready one (main).
THEOREM ReadyCorrect == Spec => []ReadyIsTradable
<1>1. IInv => ReadyIsTradable
  BY DEF IInv, TableInv, ReadyIsTradable
<1>2. QED
  BY <1>1, Invariance, PTL

\* A company of an earlier portfolio can be sold when the latest is traded:
\* a portfolio is not succeeded before its trace is explained (load_unexplained).
THEOREM StrandedCorrect == Spec => []NothingStranded
<1>1. IInv => NothingStranded
  <2> SUFFICES ASSUME IInv, Latest > 0, status[Latest] = "ready",
                      NEW id \in 1..Latest - 1, NEW c \in portfolios[id].holdings,
                      \A later \in id + 1..Latest : traced[later] \/ c \notin portfolios[later].exits
               PROVE  c \in portfolios[Latest].holdings \cup portfolios[Latest].exits \cup Leftovers
    BY DEF NothingStranded
  <2>1. Latest \in Nat
    BY LatestIsNat DEF IInv, TableInv
  <2>2. CASE c \in portfolios[Latest].holdings
    BY <2>2
  <2>3. ASSUME NEW later \in id + 1..Latest, c \in portfolios[later].exits
        PROVE  c \in Leftovers
    <3>1. later \in 1..Latest /\ traced[later]
      BY <2>1, <2>3
    <3>2. status[later] = "ready"
      BY <2>1, <3>1 DEF IInv, TableInv, ChainInv
    <3>3. <<c, "sell">> \in reasons[later]
      BY <2>3, <3>1, <3>2 DEF IInv, TableInv, ReadyIsExplained
    <3>4. QED
      BY <2>3, <3>1, <3>3 DEF Leftovers
  <2>4. QED
    BY <2>1, <2>2, <2>3 DEF IInv, TableInv, ChainInv
<1>2. QED
  BY <1>1, Invariance, PTL

\* Nothing is saved before the model has read a result of every required tool
\* (RequireTechnicals, RequireDisclosures).
THEOREM ResearchedCorrect == Spec => ResearchedFirst
<1>1. IInv /\ [Next]_vars =>
        (Latest' > Latest => \A tool \in Required : \E turn \in 1..turns - 1 : <<turn, tool>> \in trace)
  <2> SUFFICES ASSUME IInv, [Next]_vars, Latest' > Latest
               PROVE  \A tool \in Required : \E turn \in 1..turns - 1 : <<turn, tool>> \in trace
    OBVIOUS
  <2>1. Latest \in Nat
    BY LatestIsNat DEF IInv, TableInv
  <2>2. PICK s \in Slots, submission \in Portfolio : Save(s, submission)
    BY <2>1 DEF Next, Latest, vars, table, Reexplain, Brief, StartFails, Stop, Limit, Nudge, ModelFails,
       Returns, Ask, Research, Refuse, TooLate, Reject, Refused, Enter, Raise, Abort, Turn,
       SaveTrace, AskAgain, Store, ExplainFails, Mark, Explain, Killed
  <2>3. phase = "tools" /\ Required \subseteq checked
    BY <2>2 DEF Save, IInv, SubmitInv
  <2>4. QED
    BY <2>3 DEF IInv, ResearchInv
<1>2. QED
  BY <1>1, Invariance, PTL DEF Spec, ResearchedFirst
=============================================================================
