----------------------------- MODULE MCReadSide -----------------------------
(***************************************************************************)
(* An instance of ReadSide for TLC.                                        *)
(***************************************************************************)
EXTENDS ReadSide, TLC

Company(corp, names) == [corp |-> corp, names |-> names]

\* A name passes to another company, a company gets another stock code, and an
\* answer has nobody we know.
MCServed == <<
    [kospi |-> {1, 2, 9},
     dart |-> (1 :> Company(11, {"a"}) @@ 2 :> Company(12, {"b"})),
     index |-> {1, 9},
     themes |-> ("x" :> {1, 9} @@ "y" :> {2})],
    [kospi |-> {1, 2, 3},
     dart |-> (1 :> Company(11, {"a", "b"}) @@ 3 :> Company(13, {"a"})),
     index |-> {9},
     themes |-> ("x" :> {3, 1})],
    [kospi |-> {3, 4},
     dart |-> (3 :> Company(13, {"c"}) @@ 4 :> Company(11, {"a"})),
     index |-> {3, 4},
     themes |-> ("y" :> {9} @@ "z" :> {})] >>

\* Two articles of one time; two clusters.
MCPublished == <<1, 2, 3, 3>>
MCFiled == <<1, 1, 1, 2>>
\* Chains between four entities; two clusters that state the same give parallel
\* relations, and the merge a loop.
MCStated == {{<<1, 2>>, <<2, 3>>}, {<<1, 4>>, <<4, 3>>, <<2, 4>>}}
MCNamed == [plain |-> {1}, company |-> {3, 4}, blank |-> {}]
MCAlias == <<4, 3>>

Report(kind, year, type, period, day) ==
    [kind |-> kind, year |-> year, type |-> type, period |-> period, day |-> day]

\* An annual report stored without its type and corrected twice; two filings
\* without a period that have nothing to do with each other; a quarterly report
\* stored without its type.
MCFiling == <<
    Report("annual", 1, "", 4, 1), Report("other", 0, "B001", 0, 1), Report("other", 0, "B001", 0, 2),
    Report("annual", 1, "A001", 4, 2), Report("annual", 1, "A001", 4, 3),
    Report("q3", 1, "", 3, 1) >>
MCDistance == << <<1, 3>>, <<2>>, <<2, 1>>, <<1>>, <<2>>, <<2>> >>
=============================================================================
