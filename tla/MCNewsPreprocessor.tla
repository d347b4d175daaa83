------------------------- MODULE MCNewsPreprocessor -------------------------
(* Instances of NewsPreprocessor for TLC.                                  *)
EXTENDS NewsPreprocessor

\* The digits of a number, to write enumerations as sequences.
Digit(n, base, place) == (n \div base^place) % base

Report(type, year, month, closing) ==
    [type |-> type, year |-> year, month |-> month, closing |-> closing]

Short == Report("short", 0, 0, 12)
Event == Report("F001", 0, 0, 12)

Page1 == << <<"heading", "text">> >>

Edition(items, filings, last, budget) ==
    [items |-> items, filings |-> filings, last |-> last, faults |-> budget,
     limit |-> IF budget = 0 THEN 1000 ELSE 1]

Dated(report, date) == [report |-> report, documents |-> Page1, date |-> date]

News(s, sections) ==
    [source |-> s, sections |-> sections, since |-> 1, complete |-> TRUE, economy |-> TRUE,
     digest |-> FALSE, marker |-> TRUE, gone |-> FALSE, newsId |-> TRUE, text |-> TRUE,
     image |-> FALSE]

\* Two filings of one day of which the first collection takes one, one that
\* comes later, one news in two sections; failures.
Collected == Edition(<<News("edaily", {"economy", "stock"})>>,
                    <<Dated(Event, 0), Dated(Short, 0), Dated(Event, Never)>>, 4, 2)

\* The limit takes the whole of the oldest day; a later filing cannot be placed.
Unplaceable == Edition(<<>>, <<Dated(Event, 0), Dated(Report("A002", 2024, 3, 12), Never),
                              Dated(Short, Never)>>, 4, 1)

\* News of every publisher; three failures of the embedding.
Embedded == Edition(<<News("chosun", {""}), News("yonhap", {""}), News("sedaily", {"business"})>>,
                   <<>>, 2, 3)

\* Every page of a publisher, and every reason not to be an entry.
Pages(s, section) ==
    [n \in 1..16 |-> LET bit(place) == Digit(n, 2, place) = 1
        IN  [News(s, {section}) EXCEPT !.text = bit(0), !.image = bit(1), !.complete = bit(2),
                !.economy = bit(3), !.digest = bit(3), !.gone = bit(3) /\ s = "edaily",
                !.newsId = bit(1), !.marker = ~bit(0)]]

Press == Edition(Pages("chosun", "") \o Pages("hankyung", "") \o Pages("maeil", "")
                \o Pages("yonhap", "") \o Pages("sedaily", "market"), <<>>, 1, 0)

Television == Edition(Pages("edaily", "stock"), <<>>, 1, 0)

\* Every document of up to four leaves, and before it a second file.
Parsed ==
    Edition(<<>>, [n \in 1..257 |->
        LET document == [i \in 1..4 |-> << "heading", "text", "table", "empty" >>[Digit(n, 4, i - 1) + 1]]
        IN  [report |-> Event, date |-> 0,
             documents |-> IF n = 257 THEN <<>> ELSE <<document, <<"text", "table">> >>]], 2, 0)

\* Every periodic report of two years of a company that closes in a month.
Periodic(closing) ==
    Edition(<<>>, [n \in 1..24 |->
        Dated(Report(<<"A001", "A002", "A003">>[(n % 3) + 1], 2024 + Digit(n \div 3, 2, 0),
                     3 * (Digit(n \div 6, 4, 0) + 1), closing), 0)], 2, 0)

MCPapers == <<Collected, Unplaceable, Embedded, Press, Television, Parsed,
              Periodic(3), Periodic(6), Periodic(12)>>
=============================================================================
