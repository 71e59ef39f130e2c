--------------------------- MODULE MetricsFetcher ---------------------------
(***************************************************************************)
(* fetchers/metricsfetcher.go, Metrics, from the job queue on: the handler *)
(* feeds the routes it found (Requests.tla) to a pool of goroutines that   *)
(* scrape them, waits for all of them and merges what they collected.      *)
(*                                                                         *)
(* A request is a record: apps and exts, the numbers of instances and of   *)
(* external exporters to scrape; bad, the number of exporters that could   *)
(* not be turned into a route; configured, whether the configuration has   *)
(* exporters at all (a request may have asked for app metrics only).       *)
(* Job j is an instance when j <= apps, and an exporter otherwise.         *)
(***************************************************************************)
EXTENDS Integers, Sequences, FiniteSets, SequencesExt

CONSTANTS
  Workers,       \* the goroutines of the pool (five in the code)
  RequestKinds,  \* the requests that may arrive
  Families,      \* names of the metrics instances expose
  None           \* no job, no answer, no error

ASSUME WorkersAssumption == IsFiniteSet(Workers)

ASSUME RequestsAssumption ==
  \A r \in RequestKinds :
    /\ r.apps \in Nat \ {0} /\ r.exts \in Nat /\ r.bad \in Nat
    /\ r.configured \in BOOLEAN
    /\ (r.exts + r.bad > 0) => r.configured

VARIABLES
  req,       \* the request being served
  main,      \* the handler: feed, wait, close, merge, merging, returned
  fed,       \* how many jobs were sent
  jobs,      \* the buffered channel
  closed,    \* close(jobs) was called
  wg,        \* the WaitGroup's counter
  state,     \* each worker: range, scrape, answered, done, exited
  job,       \* the job it holds
  headers,   \* whether its copy of the request's headers is still there
  answer,    \* what Metric returned for each job
  unmerged,  \* metricsUnmerged
  errFetch,  \* the job whose client error was stored last
  base,      \* the merged metrics, in the end those of the response
  next       \* the entry of metricsUnmerged that is merged next

vars == <<req, main, fed, jobs, closed, wg, state, job, headers, answer,
          unmerged, errFetch, base, next>>

Total == req.apps + req.exts

IsExporter(j) == j > req.apps

\* The answers of Metric: the families of an instance, a 4xx status
\* (ErrFetch), or any other failure (5xx, connection, timeout, parsing).
Answers ==
  [kind : {"ok"}, families : SUBSET Families]
    \cup [kind : {"client_error", "failure"}, families : {{}}]

ASSUME NoneAssumption == None \notin Nat /\ None \notin Answers

\* Maps from family names to the sources of their samples: job j is source j,
\* the i-th broken exporter is source -i.
Collected(j, a) ==
  IF a.kind = "ok" THEN [f \in a.families |-> <<j>>]
  ELSE [f \in {"promfetcher_scrape_error"} |-> <<j>>]

BadExporter(i) ==
  [f \in {"promfetcher_scrape_external_exporter_error"} |-> <<0 - i>>]

\* Mutant: a family seen before is not extended.
MergeKeepingFirst(b, m) ==
  [k \in DOMAIN b \cup DOMAIN m |-> IF k \in DOMAIN b THEN b[k] ELSE m[k]]

MergeInto(b, m) ==
  [k \in DOMAIN b \cup DOMAIN m |->
     IF k \notin DOMAIN m THEN b[k]
     ELSE IF k \notin DOMAIN b THEN m[k] ELSE b[k] \o m[k]]

-----------------------------------------------------------------------------
Init ==
  /\ req \in RequestKinds
  /\ main = "feed"
  /\ fed = 0
  /\ jobs = << >>
  /\ closed = FALSE
  /\ wg = Total
  /\ state = [w \in Workers |-> "range"]
  /\ job = [w \in Workers |-> None]
  /\ headers = [w \in Workers |-> TRUE]
  /\ answer = [j \in 1 .. Total |-> None]
  /\ unmerged = [i \in 1 .. req.bad |-> BadExporter(i)]
  /\ errFetch = None
  /\ base = << >>
  /\ next = 1

(* The handler *)

\* The channel was made before the exporters were added: room for apps only.
Feed ==
  /\ main = "feed"
  /\ fed < Total
  /\ Len(jobs) < req.apps
  /\ jobs' = Append(jobs, fed + 1)
  /\ fed' = fed + 1
  /\ main' = IF fed' = Total THEN "wait" ELSE "feed"
  /\ UNCHANGED <<req, closed, wg, state, job, headers, answer, unmerged,
                 errFetch, base, next>>

\* Mutant: the handler does not wait.
WaitNot ==
  /\ main = "wait"
  /\ main' = "close"
  /\ UNCHANGED <<req, fed, jobs, closed, wg, state, job, headers, answer,
                 unmerged, errFetch, base, next>>

Wait ==
  /\ main = "wait"
  /\ wg = 0
  /\ main' = "close"
  /\ UNCHANGED <<req, fed, jobs, closed, wg, state, job, headers, answer,
                 unmerged, errFetch, base, next>>

Close ==
  /\ main = "close"
  /\ closed' = TRUE
  /\ main' = "merge"
  /\ UNCHANGED <<req, fed, jobs, wg, state, job, headers, answer, unmerged,
                 errFetch, base, next>>

\* A stored client error hides everything that was collected: the handler
\* returns it with an empty map, and otherwise the merged metrics.
Merge ==
  /\ main = "merge"
  /\ IF errFetch # None \/ unmerged = << >>
     THEN main' = "returned" /\ UNCHANGED <<base, next>>
     ELSE main' = "merging" /\ base' = unmerged[1] /\ next' = 2
  /\ UNCHANGED <<req, fed, jobs, closed, wg, state, job, headers, answer,
                 unmerged, errFetch>>

MergeNext ==
  /\ main = "merging"
  /\ next <= Len(unmerged)
  /\ base' = MergeInto(base, unmerged[next])
  /\ next' = next + 1
  /\ UNCHANGED <<req, main, fed, jobs, closed, wg, state, job, headers, answer,
                 unmerged, errFetch>>

Return ==
  /\ main = "merging"
  /\ next > Len(unmerged)
  /\ main' = "returned"
  /\ UNCHANGED <<req, fed, jobs, closed, wg, state, job, headers, answer,
                 unmerged, errFetch, base, next>>

-----------------------------------------------------------------------------
(* A worker *)

\* Mutant: the headers are those of all workers.
TakeDroppingAllHeaders(w) ==
  /\ state[w] = "range"
  /\ jobs # << >>
  /\ jobs' = Tail(jobs)
  /\ job' = [job EXCEPT ![w] = Head(jobs)]
  /\ headers' = [v \in Workers |-> headers[v] /\ ~ IsExporter(Head(jobs))]
  /\ state' = [state EXCEPT ![w] = "scrape"]
  /\ UNCHANGED <<req, main, fed, closed, wg, answer, unmerged, errFetch, base, next>>

\* The goroutine drops its headers at its first exporter, for good.
Take(w) ==
  /\ state[w] = "range"
  /\ jobs # << >>
  /\ jobs' = Tail(jobs)
  /\ job' = [job EXCEPT ![w] = Head(jobs)]
  /\ headers' = [headers EXCEPT ![w] = @ /\ ~ IsExporter(Head(jobs))]
  /\ state' = [state EXCEPT ![w] = "scrape"]
  /\ UNCHANGED <<req, main, fed, closed, wg, answer, unmerged, errFetch, base, next>>

Scrape(w) ==
  /\ state[w] = "scrape"
  /\ \E a \in Answers : answer' = [answer EXCEPT ![job[w]] = a]
  /\ state' = [state EXCEPT ![w] = "answered"]
  /\ UNCHANGED <<req, main, fed, jobs, closed, wg, job, headers, unmerged,
                 errFetch, base, next>>

\* Mutant: the loop continues without wg.Done.
StoreErrorAndContinue(w) ==
  /\ state[w] = "answered"
  /\ answer[job[w]].kind = "client_error" /\ ~ req.configured
  /\ errFetch' = job[w]
  /\ state' = [state EXCEPT ![w] = "range"]
  /\ job' = [job EXCEPT ![w] = None]
  /\ UNCHANGED <<req, main, fed, jobs, closed, wg, headers, answer, unmerged,
                 base, next>>

\* Under muWrite.  Without exporters a client error is kept for the response;
\* otherwise it is reported as a metric, like any failure.
StoreError(w) ==
  /\ state[w] = "answered"
  /\ answer[job[w]].kind = "client_error" /\ ~ req.configured
  /\ errFetch' = job[w]
  /\ state' = [state EXCEPT ![w] = "done"]
  /\ UNCHANGED <<req, main, fed, jobs, closed, wg, job, headers, answer,
                 unmerged, base, next>>

StoreMetrics(w) ==
  /\ state[w] = "answered"
  /\ answer[job[w]].kind # "client_error" \/ req.configured
  /\ unmerged' = Append(unmerged, Collected(job[w], answer[job[w]]))
  /\ state' = [state EXCEPT ![w] = "done"]
  /\ UNCHANGED <<req, main, fed, jobs, closed, wg, job, headers, answer,
                 errFetch, base, next>>

\* Mutant: wg.Done is called twice.
DoneTwice(w) ==
  /\ state[w] = "done"
  /\ wg' = wg - 2
  /\ state' = [state EXCEPT ![w] = "range"]
  /\ job' = [job EXCEPT ![w] = None]
  /\ UNCHANGED <<req, main, fed, jobs, closed, headers, answer, unmerged,
                 errFetch, base, next>>

Done(w) ==
  /\ state[w] = "done"
  /\ wg' = wg - 1
  /\ state' = [state EXCEPT ![w] = "range"]
  /\ job' = [job EXCEPT ![w] = None]
  /\ UNCHANGED <<req, main, fed, jobs, closed, headers, answer, unmerged,
                 errFetch, base, next>>

Exit(w) ==
  /\ state[w] = "range"
  /\ closed
  /\ jobs = << >>
  /\ state' = [state EXCEPT ![w] = "exited"]
  /\ UNCHANGED <<req, main, fed, jobs, closed, wg, job, headers, answer,
                 unmerged, errFetch, base, next>>

Worker(w) ==
  Take(w) \/ Scrape(w) \/ StoreError(w) \/ StoreMetrics(w) \/ Done(w) \/ Exit(w)

Handler == Feed \/ Wait \/ Close \/ Merge \/ MergeNext \/ Return

Next == Handler \/ \E w \in Workers : Worker(w)

\* Goroutines are scheduled fairly, and a scrape ends: the HTTP client has a
\* timeout of 30 seconds, and the database is assumed to answer the lookup
\* before it, which has none (Scraper.tla, DatabaseAnswers).
Fairness == WF_vars(Handler) /\ \A w \in Workers : WF_vars(Worker(w))

Spec == Init /\ [][Next]_vars /\ Fairness

-----------------------------------------------------------------------------
(* Properties *)

\* Where samples come from, and the names of all families.
Sources == (0 - req.bad .. Total) \ {0}

Names ==
  Families \cup {"promfetcher_scrape_error", "promfetcher_scrape_external_exporter_error"}

\* Type invariant.
TypeOK ==
  /\ req \in RequestKinds
  /\ main \in {"feed", "wait", "close", "merge", "merging", "returned"}
  /\ fed \in 0 .. Total
  /\ jobs \in Seq(1 .. Total)
  /\ wg \in Nat
  /\ state \in [Workers -> {"range", "scrape", "answered", "done", "exited"}]
  /\ job \in [Workers -> (1 .. Total) \cup {None}]
  /\ headers \in [Workers -> BOOLEAN]
  /\ answer \in [1 .. Total -> Answers \cup {None}]
  /\ unmerged \in Seq(UNION {[F -> {<<s>> : s \in Sources}] : F \in SUBSET Names})
  /\ errFetch \in (1 .. Total) \cup {None}
  /\ DOMAIN base \subseteq Names
  /\ base \in [DOMAIN base -> Seq(Sources)]
  /\ next \in 1 .. Len(unmerged) + 1

\* The jobs sent and not yet accounted for: on the channel or at a worker.
Pending == ToSet(jobs) \cup ({job[w] : w \in Workers} \ {None})

\* The WaitGroup counts the jobs that are not finished: those not sent yet,
\* those on the channel and those at a worker, no job being at two places.
\* So Wait returns neither early nor, by a negative counter, with a panic.
WaitGroupExact ==
  /\ wg = (Total - fed) + Len(jobs) + Cardinality({w \in Workers : job[w] # None})
  /\ Cardinality(Pending) = wg - (Total - fed)

\* From the close on nobody but the handler touches metricsUnmerged and
\* errFetch, which it reads without the lock.
NoLateWriter ==
  main \in {"close", "merge", "merging", "returned"} =>
    \A w \in Workers : state[w] \in {"range", "exited"}

\* Credentials go to instances and only to them: a worker that scrapes an
\* instance still has the request's headers, although it drops them for good
\* at its first exporter, and one that scrapes an exporter has none.
HeadersToInstancesOnly ==
  \A w \in Workers : state[w] = "scrape" => (headers[w] <=> ~ IsExporter(job[w]))

\* The families each source has a sample of.
Exposed(s) ==
  IF s < 0 THEN DOMAIN BadExporter(0 - s) ELSE DOMAIN Collected(s, answer[s])

ClientError(j) == answer[j].kind = "client_error" /\ ~ req.configured

\* The response is right whatever the order in which the workers finished:
\* it is an error iff some scrape met a client error while no exporter is
\* configured; otherwise every job was answered, and each family has exactly
\* one sample of each source that has it: of the instances and exporters that
\* exposed it, or, for the two error families, of those that failed.
ResponseRight ==
  main = "returned" =>
    /\ \A j \in 1 .. Total : answer[j] # None
    /\ errFetch # None <=> \E j \in 1 .. Total : ClientError(j)
    /\ errFetch # None => base = << >>
    /\ errFetch = None =>
         /\ DOMAIN base = UNION {Exposed(s) : s \in Sources}
         /\ \A f \in DOMAIN base :
              LET From == {s \in Sources : f \in Exposed(s)}
              IN  ToSet(base[f]) = From /\ Len(base[f]) = Cardinality(From)

\* Every request is answered, and its goroutines end: the handler cannot hang
\* on the full channel or in Wait, and no worker stays on the channel.
EveryRequestEnds ==
  <>(main = "returned" /\ \A w \in Workers : state[w] = "exited")
=============================================================================
