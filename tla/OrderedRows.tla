---------------------------- MODULE OrderedRows -----------------------------
(***************************************************************************)
(* What a query may answer that ends in ORDER BY and LIMIT.  Rows that the *)
(* order does not tell apart come in any order, and any of them is cut     *)
(* off.                                                                    *)
(***************************************************************************)
EXTENDS Integers, FiniteSetsExt, SequencesExt

\* LIMIT n: so many of S, or all.
Limited(S, n) == {T \in SUBSET S : Cardinality(T) <= n /\ (T = S \/ Cardinality(T) = n)}

\* ORDER BY and LIMIT: none that is left out comes before one that is not.
FirstOf(S, n, Less(_, _)) == {T \in Limited(S, n) : \A x \in T, y \in S \ T : ~Less(y, x)}

\* The rows one after the other.
Ordered(T, Less(_, _)) ==
    {rows \in [1..Cardinality(T) -> T] :
        /\ ToSet(rows) = T
        /\ \A i, j \in DOMAIN rows : i < j => ~Less(rows[j], rows[i])}

=============================================================================
