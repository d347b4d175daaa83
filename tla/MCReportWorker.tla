-------------------------- MODULE MCReportWorker --------------------------
(* Instances of ReportWorker for TLC.                                      *)
EXTENDS ReportWorker

CONSTANTS w1, w2, m1, m2
=============================================================================
