----------------------------- MODULE FilingText -----------------------------
(***************************************************************************)
(* What news_preprocessor computes from a periodic report before it stores *)
(* anything: the fiscal period its title names, and the sections of its    *)
(* documents with their offsets.  No state.                                *)
(***************************************************************************)
EXTENDS Integers, SequencesExt

-----------------------------------------------------------------------------
(* report_period.  A title names the last month of the period; the fiscal  *)
(* year is the one that ends with the first closing month not before it.   *)

\* Faulty: the fiscal year is the year of the title.
CalendarYear(report) == report.year

FiscalYear(report) ==
    IF report.month <= report.closing THEN report.year ELSE report.year + 1

Elapsed(report) == (report.month - report.closing) % 12

\* The kind of the report, "none" where the code raises.
Kind(report) ==
    CASE report.type = "A001" /\ Elapsed(report) = 0 -> "annual"
      [] report.type = "A002" /\ Elapsed(report) = 6 -> "half"
      [] report.type = "A003" /\ Elapsed(report) = 3 -> "q1"
      [] report.type = "A003" /\ Elapsed(report) = 9 -> "q3"
      [] report.type \notin {"A001", "A002", "A003"} -> report.type
      [] OTHER -> "none"

\* What is stored of it: a filing that names no period, a material event for
\* one, has none.
Period(report) ==
    IF report.month = 0 THEN [year |-> 0, kind |-> Kind(report), end |-> <<0, 0>>]
    ELSE [year |-> FiscalYear(report), kind |-> Kind(report), end |-> <<report.year, report.month>>]

\* The reports whose accounts are fetched.
HasAccounts(report) == report.month # 0 /\ Kind(report) \in {"q1", "half", "q3", "annual"}

\* A report the code cannot place: its article fails every day.
Unplaced(report) ==
    \/ Kind(report) = "none"
    \/ report.month = 0 /\ report.type \in {"A001", "A002", "A003"}

-----------------------------------------------------------------------------
(* parse_document: a walk over the leaves of a document in their order.  A *)
(* leaf is a heading, a paragraph, loose text, a table, or empty; its text *)
(* is one symbol, its place in the walk, and 0 is a line break.            *)

Leaves == {"heading", "text", "table", "empty"}

Blank == [buffer |-> <<>>, parts |-> <<>>, offset |-> 0, heading |-> 0, sections |-> <<>>]

\* Lines, or parts, with their separator between them.
Joined(parts, separator) ==
    FoldLeft(LAMBDA all, part : IF all = <<>> THEN part ELSE all \o separator \o part, <<>>, parts)

\* Faulty: the blank line between two parts is not counted.
FlushUncounted(w) ==
    LET value == Joined(w.buffer, <<0>>)
    IN  IF value = <<>> THEN [w EXCEPT !.buffer = <<>>]
        ELSE [w EXCEPT !.buffer = <<>>, !.parts = Append(@, value),
                       !.offset = @ + Len(value),
                       !.sections = Append(@, [heading |-> w.heading, text |-> value,
                                               start |-> w.offset, end |-> w.offset + Len(value)])]

\* flush: what was gathered becomes a part and a section.
Flush(w) ==
    LET value == Joined(w.buffer, <<0>>)
        start == IF w.parts = <<>> THEN w.offset ELSE w.offset + 2
    IN  IF value = <<>> THEN [w EXCEPT !.buffer = <<>>]
        ELSE [w EXCEPT !.buffer = <<>>, !.parts = Append(@, value),
                       !.offset = start + Len(value),
                       !.sections = Append(@, [heading |-> w.heading, text |-> value,
                                               start |-> start, end |-> start + Len(value)])]

\* walk: a heading ends a section and names the next, a table is one of its own.
Walk(w, leaf, place) ==
    CASE leaf = "heading" -> [Flush(w) EXCEPT !.heading = place]
      [] leaf = "table" ->
            LET v == Flush(w)
            IN  Flush([v EXCEPT !.buffer = <<<<place>>>>])
      [] leaf = "text" -> [w EXCEPT !.buffer = Append(@, <<place>>)]
      [] OTHER -> w

ParseDocument(leaves) ==
    LET end == Flush(FoldLeft(LAMBDA w, place : Walk(w, leaves[place], place), Blank,
                              [place \in 1..Len(leaves) |-> place]))
    IN  [body |-> Joined(end.parts, <<0, 0>>), sections |-> end.sections]

=============================================================================
