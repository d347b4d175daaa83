------------------------- MODULE MCDisclosureIndex -------------------------
(* Instances of DisclosureIndex for TLC.                                   *)
EXTENDS DisclosureIndex, TLC

CONSTANTS w1, w2, r1, r2, s1, s2, leg

OnlyPlainRuns == {{}}
PlainOrRetry == {{}, {r1}}

\* Workers are interchangeable.
WorkerSymmetry == Permutations(Workers)
=============================================================================
