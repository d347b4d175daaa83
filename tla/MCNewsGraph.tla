---------------------------- MODULE MCNewsGraph ----------------------------
(* An instance of NewsGraph for TLC.  Articles 2 and 5 have enough           *)
(* neighbours to be core, 4 is on the border of both, and 9 connects them    *)
(* when it comes.  The first alias is of a company no article mentions.      *)
EXTENDS NewsGraph

CONSTANTS m, n, corp

Sym(S) == S \cup {<<p[2], p[1]>> : p \in S}
MCNears == {Sym({<<1, 2>>, <<2, 3>>, <<2, 4>>, <<4, 5>>, <<5, 6>>, <<5, 7>>,
                 <<1, 9>>, <<2, 9>>, <<5, 9>>})}
MCBatches == {{4, 5, 6, 7}, {1, 2, 3}, {9}}
MCCompany == [x \in {m, n} |-> corp]
MCMentions == [x \in {1, 2, 3, 4, 5, 6, 7, 9} |-> IF x = 5 THEN {n} ELSE {}]
=============================================================================
