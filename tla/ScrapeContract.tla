--------------------------- MODULE ScrapeContract ---------------------------
(***************************************************************************)
(* What the pool of MetricsFetcher.tla relies on when a worker calls       *)
(* Metric: every scrape is answered, once, with metrics, with a client     *)
(* error or with another failure.  Scraper.tla is shown to implement it.   *)
(***************************************************************************)
CONSTANTS Scrapes, None

VARIABLE answer

Kinds == {"ok", "client_error", "failure"}

Init == answer = [s \in Scrapes |-> None]

Answer(s) ==
  /\ answer[s] = None
  /\ \E k \in Kinds : answer' = [answer EXCEPT ![s] = k]

Next == \E s \in Scrapes : Answer(s)

Spec == Init /\ [][Next]_answer /\ \A s \in Scrapes : WF_answer(Answer(s))
=============================================================================
