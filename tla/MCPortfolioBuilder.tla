------------------------- MODULE MCPortfolioBuilder -------------------------
(* An instance of PortfolioBuilder for TLC. *)
EXTENDS PortfolioBuilder, TLC

CONSTANTS c1, c2

CompanySymmetry == Permutations({c1, c2})
=============================================================================
