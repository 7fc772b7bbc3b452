--------------------------- MODULE MCReportEndpoint ---------------------------
(* ReportEndpoint with small sets of model values.  No symmetry: the run   *)
(* checks liveness.                                                        *)
EXTENDS ReportEndpoint
===============================================================================
