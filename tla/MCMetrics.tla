------------------------------ MODULE MCMetrics ------------------------------
(***************************************************************************)
(* An instance of MetricsFetcher.tla for TLC.                              *)
(***************************************************************************)
EXTENDS MetricsFetcher

Request(apps, exts, bad, configured) ==
  [apps |-> apps, exts |-> exts, bad |-> bad, configured |-> configured]

\* Fewer and more jobs than workers, more jobs than room on the channel
\* (apps), exporters present, absent, left out by the request or broken.
SmallRequests ==
  { Request(3, 0, 0, FALSE), Request(1, 0, 0, FALSE), Request(2, 0, 0, TRUE),
    Request(2, 1, 1, TRUE),  Request(1, 2, 0, TRUE) }
=============================================================================
