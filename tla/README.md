# Promfetcher: specification and proofs

Promfetcher answers a request for the metrics of a Cloud Foundry application by
scraping every instance of it and merging the results. It learns the instances
from the route messages on NATS. This directory holds TLA+ models of its own
logic, the TLC runs that check them and the TLAPS proofs about each of them: every
invariant that a run finds to hold is also proved, for every value of the
constants. File and line numbers refer to the repository (`models/route.go:196`).

## The system

| Part | State | Operations | Met by |
|---|---|---|---|
| Routing table (`models/route.go`, `models/uris.go`) | a map from URI keys to slices of routes, one package-level RWMutex | RegisterRoute, UnregisterRoute, three lookups | the subscription writes, requests read |
| Routes fetcher (`fetchers/routesfetcher.go`, `mbus/message.go`) | the table, the subscription | handler of `router.*`, Run (start message, subscribe, select) | NATS callbacks, main |
| Metrics fetcher (`fetchers/metricsfetcher.go`) | per request: routes, channel, WaitGroup, results, error | look up, add exporters, five workers, merge | HTTP handlers, one per request |
| Lifecycle (`main.go`, `healthchecks/`) | signal channel, context, health, listener, exit status, the shared `err` | start, signal, drain, shut down | five goroutines |
| External exporters (`config/external_exporters.go`) | none | ToRoute | metrics fetcher |
| Scraper (`scrapers/`, `clients/`) | per scrape: a client, its connection and timeout | Scrape, redirect rule, reading the answer | workers; reads the broker's rows |
| NATS client (`mbus/client.go`) | connection, two hand-over channels | connect, disconnect and reconnect callbacks | Run, by the channel `reconnected` |
| Service broker (`api/broker.go`) | rows of `app_endpoints` | Bind, Unbind, GetBinding | Cloud Controller; scrapers read the rows |
| HTTP API (`api/`) | none | parse a request, answer | clients |
| Configuration, process metrics, user documentation | none that changes, or write-only | start-up, counters, pages | |

They interact in three ways. The NATS goroutine changes the table under the
lock, one URI of a message at a time, while requests look routes up under the
read lock and go on using what they found without it. A request hands routes to
its workers over a channel and collects their results behind a mutex and a
WaitGroup. Run, the signal goroutine, the two servers and main share a signal
channel, a context, a `ready` channel and a variable.

What is hard to test here, each at its line under "hazards" in PROJECT.json:

- sharing of slices between table and requests after the unlock, and the reuse
  of their arrays over long sequences of register and unregister;
- the accounting of the pool: channel capacity, WaitGroup, unlocked reads after
  Wait, results in any order, one failure among several scrapes;
- which goroutine gets a signal, what it may overtake, and what a goroutine
  reads from the shared `err`;
- lost, late and repeated route messages; reconnection; writes to the database
  in two steps, with errors that are dropped;
- what ends a scrape whose instance keeps silent or redirects to itself, and who
  closes its connection on each of the ways out.

What makes each part correct:

- table: under a key, exactly the instances registered and not unregistered
  since, once each, whatever happened to the slices;
- requests: every instance that was there throughout is called, once; the table
  is not disturbed; nothing panics;
- pool: every request ends; the answer does not depend on the order of
  completion; credentials go to instances only;
- NATS client: every connection is announced with a start message, and a closed
  one ends the process;
- broker: a scrape uses the endpoint asked for last, whatever failed or
  overlapped before, and never one that was replaced;
- scraper: every scrape is answered once, with what the response says and not
  with a part of it, and no connection is held for ever;
- lifecycle: a signal ends the process; a drained instance is never healthy
  again; one without its API server ends; a clean exit cuts no request.

## Modules

| Module | Models |
|---|---|
| `Uris` | `Uri.String`, `ToLower`, `RouteKey`, over what the key can tell apart |
| `Routes` | the route values, `Equal`, `NeedUpdate` |
| `RouteTable` | `Routes`: the map, its slices and their backing arrays |
| `RouteRegistry` | abstract specification: sets of instances under keys |
| `RoutesFetcher` | the subscription handler on the table; refinement mapping to `RouteRegistry` |
| `Requests` | concurrent requests on the table, up to the job queue |
| `MetricsFetcher` | the pool, from the job queue to the answer |
| `Lifecycle` | `main`, `HealthCheck`, the signal side of `Run` |
| `NatsLink` | `Connect`, the callbacks of the connection, the reconnection side of `Run` |
| `Broker` | Bind, Unbind, the rows, the scraper's lookup |
| `ScrapeContract` | abstract specification: what the pool expects of a scrape |
| `Scraper` | a scrape with its client, connection, timeout and redirects; refines `ScrapeContract` |
| `MCRoutes`, `MCRequests`, `MCMetrics`, `MCBroker` | instances for TLC |
| `RoutesFetcher_proofs`, `Requests_proofs`, `MetricsFetcher_proofs`, `Lifecycle_proofs`, `NatsLink_proofs`, `Broker_proofs`, `Scraper_proofs` | TLAPS proofs, one module per component |

Definitions marked "Mutant" are wrong on purpose: each replaces the definition
that follows it to show that a property fails when the code has that bug. They
are used by nothing else.

### Table and subscription

`heap` maps backing arrays to sequences; the length of `heap[a]` is the
capacity of array `a`. A map entry is a slice `[arr, len]`, or `NoSlice` when the
map has no such key. `append` writes in place while `len` is below the capacity
and otherwise takes a free array of double capacity, as Go's runtime does below
256 elements. The garbage collector is the operator `Collected`: an array that
no map entry and no request reaches is empty again.

`RegisterRoute` has the three cases of the code (new key, known instance,
append). `UnregisterRoute` swaps the last route into the hole, sets its old slot
to nil and stores the shortened slice under `uri`, which is what line 196 does;
it looked the entry up under `RouteKey(uri)`. Both hold the lock throughout and
are single steps. `RoutesFetcher` takes one URI of a message per step, because
the lock is released between two; `work` is the rest of the message. Any message
may arrive at any time, so losses, repetitions and delays are included. A
message without application and URIs makes the log line read `Uris[0]` and ends
the process (`DropWithoutUris`).

A route is a record of what the code compares: `inst` stands for the fields of
`Equal` other than address and host, `path` for the organisation, space and
application names and ids. `Route.URL`, which two lookups write under the read
lock, is left out: nothing reads it. The TTL is left out for the same reason.

### Requests

A request is a process `p` with one slice, `lent[p]`: a new one from FindById or
FindByOrgSpaceName, the table's own from FindByRouteName. It reads a slot per
step, twice (tags at line 47, jobs at line 117), and appends the exporters in
between (line 82). The two loops in between are two variables: `apps` are the
applications still to visit, in any order as the code ranges over a map, and
`todo` the exporters still to add for the current one. `steady` is history: the addresses that answered the query at
every moment since the lookup; the property `AllInstancesCalled` is about them.
A lookup that finds nothing answers 404 without changing state and has no
action. `Find` tells the three kinds of query apart by their form; the model has
it in the query.

### The pool

`MetricsFetcher` numbers the jobs: instances first, then exporters, which is the
order in which the code feeds them. A worker's step is one of receiving a job,
scraping it, storing the result under the mutex and `wg.Done`. A scrape answers
with metrics, with a 4xx (`ErrFetch`) or with another failure. A family of
metrics is the sequence of the sources its samples come from, so that lost and
doubled samples show: job `j` is source `j`, the `i`-th exporter that could not be
turned into a route is source `-i`. The merge takes one entry of `unmerged` per
step (`Merge`, `MergeNext`); the response is `base`, or the error of `errFetch`.
Parsing and relabelling are part of the scrape.

### Lifecycle

Each goroutine has a program counter. `srvSignal` is the channel of capacity one;
`waiters` are the goroutines blocked on it, first come first served as in Go's
channels. `signal.Notify` gives a signal to the first waiter, else to the
channel, else drops it. `SendSignal`, `Accept`, `Finish`, `PingFails`, the failing
servers and a reconnection are the environment.

`err` is assigned and tested by four goroutines without synchronisation. `own[g]`
is what `g` assigned last. A test reads `own` (the compiler kept the value) or
`err` (it loads it again); `Reloads` says which.

The listener is open from `MakeListener` until `Shutdown` or a failure of Serve,
which closes it before it returns. `HealthyMeansServing` names the two cases in
which health is up without it: a shutdown after SIGINT or SIGTERM, which closes
the listener and leaves the health alone (main.go:134), and a failed Serve whose
goroutine has yet to end the process.

### Connection to NATS

`link` is the connection as the NATS library sees it, `queue` the callbacks the
library has yet to run; it runs them one at a time, in the order of the events,
and `cb` is where the one that is running stands. Each of the two unbuffered
sends of ReconnectedCB is a step of its own that needs its receiver:
`NotDisconnected` a goroutine that logs, `HandOver` Run in its select. `run`
follows main through Connect and then Run through its first start message, its
subscriptions and its select. A message published while the connection is gone
waits in the library (`buffered`) or is refused; the library sends it before it
queues the callback. `Disconnect`, `Reconnect` and `Close` are the library's
(`nats.go`: doReconnect, close), modelled from what the callbacks rely on. A
disconnection handled before the first `Store` is a panic. `silenced` is history:
making the message failed because the machine has no address (`localip`), which
the code logs and does not repeat. Replies to `router.greet` change no state.
The signal side of Run is in `Lifecycle`; here a signal is one step (`Signalled`).

### Service broker

`rows[b]` is the endpoint stored for binding `b`. A Bind is two statements
(lines 113 and 118) and so two steps; a statement fails with no effect or, for
the insert, perhaps with its effect (the connection broke during the commit).
Each handler works on one request; several run at a time, in one process or in
several on one database, and any of them may die between its statements. A
binding belongs to one application (`AppOf`), as its id is the platform's.
`Lookup` is the query of the scraper, which gorm's First orders by the key. What it
finds wins over the request's `metric_path`; an exporter has a path of its own and
is not looked up. A scrape looks up once (`LookUp`) and keeps what it found in
`scrape` until it has built its request. The statement may fail (`LookUpFails`):
scrape.go:56 drops the error of First, no row is found, and the scrape uses the
default path.

`clean` and `visible` are history. A request is clean while no other was in
progress on its application and its ignored statement did not fail. `visible[a]`
is what a lookup that succeeds may return: a beginning request adds what it may leave, and a
clean one that returns takes back everything else. `EndpointIsRegular` says of
each lookup that it returns something of it, or nothing because its own statement
failed. It therefore says that one undisturbed Bind repairs what went wrong
before, and that a scrape never uses a replaced binding; and it allows what the code does in between: a scrape
that falls between delete and insert finds no endpoint, two overlapping Binds
leave two rows, a failed Bind has removed the old endpoint.

Requests refused before the first statement, and all requests without a
database, change nothing and have no action; neither has GetBinding, which reads a row and reports its error.

### Scrapes

Each scrape has its connection, the client's timer and the place it reached; it
begins with the lookup of its endpoint when there is a database and its route has
no path (`LookUp`).
`conn` is `idle` when the transport keeps the connection (`disable_keep_alives:
false`). The body of a response with another status than 200 is not closed
(scrape.go:89): `BadStatusWithBody` leaves connection and timer alone. `Timeout`
is the client's: it closes the connection whether the request waits, reads or has
returned. After a body that was read to its end, which net/http also tries on a
refused redirect, the connection is kept or closed (`BodyEnds`).

`body` is what becomes of a body with status 200: it arrives whole, or the instance
or the network cuts it off, or the timeout fires before its end. The program
learns of it by reading (`EndOfBody`). With a length or chunks (`delimited`) the end
is known. Without, the end of the connection is the end of the body, and a cut
between two lines passes for it: `AnswerFromWholeResponse` makes this exception and
no other. Text that was parsed before an error is dropped with it
(metricsfetcher.go:151); the mutant `ParseErrorIgnored` keeps it.

Redirects to the same host are counted up to `MaxHops` and possible
without end after that. Instances are the environment: `Instance` has no fairness.
The database is, too, but that it answers is assumed (`DatabaseAnswers`).

`ScrapeContract` is what `MetricsFetcher` assumes of the action `Scrape` by giving
workers weak fairness and by its set of answers. `ImplementsContract` discharges
this. The pool's other assumption, that the queue starts with an instance and that
exporters come last, is `QueueFitsPool` in `Requests`. `MetricsFetcher` relies on it
by numbering instances first.

## Runs

| Run | Instance | Shows |
|---|---|---|
| `routes` | 2 hosts, 5 routes of 4 instances, 3 arrays | `FetcherTypeOK`, `TableOK`, `ImplementsRegistry` hold |
| `unregister_path` | a path with upper case, 2 instances | `NoNilEntry` fails: route.go:196 |
| `requests` | 2 hosts, 3 instances on 2 addresses, queries by id and by path, 1 exporter, 1 request at a time | `AllInstancesCalled`, `CalledOnce`, `QueueFitsPool`, `NoForeignRoutes`, `NoCrash` hold, and `ImplementsRegistry` as without requests |
| `shared_read` | 1 host, 3 instances, a query by name | `AllInstancesCalled` fails: route.go:118 |
| `shared_append` | the same with 1 exporter | `NoForeignRoutes` fails: metricsfetcher.go:82 |
| `metrics` | 2 workers, 5 kinds of request of up to 3 jobs | `WaitGroupExact`, `NoLateWriter`, `HeadersToInstancesOnly`, `ResponseRight`, `EveryRequestEnds` hold |
| `lifecycle` | 2 signals of 2 kinds, 2 requests, no reload of `err` | `DrainedStaysUnhealthy`, `HealthyMeansServing`, `SuccessMeansDrained`, `TakenSignalStops` hold |
| `nats` | 3 losses of the connection | `TickersExact`, `AnnouncedWhenSettled`, `EveryConnectionAnnounced`, `ClosedEnds` hold |
| `broker` | 3 bindings of 2 applications, 2 endpoints, 2 requests at a time, 1 scrape | `EndpointIsRegular` holds |
| `scraper` | 2 scrapes, keep-alives on and off, bodies with and without a length | `HeldOnlyAfterBadStatus`, `AnswerFromWholeResponse`, `EveryConnectionReleased`, `ImplementsContract` hold |
| `signal_stops` | 1 signal | `SignalStops` fails: main.go:85 and 93 |
| `shared_err` | as `lifecycle`, with reload | `DrainedMeansSuccess` fails: main.go:134 |

The failing runs state what README.md or a comment says; PROJECT.json quotes the
lines under "findings".

Bounds. Three instances under a key take a slice through capacities 1, 2 and 4,
through reuse of spare capacity after a delete, and through the swap in the
first, a middle and the last slot. One array per slice and one for `append` are
enough; `ArraysAssumption` says so and TLC checks it. One request at a time is
enough for the passing run because a request that owns its slice shares nothing
with another; the slices of the table are shared only in the runs by name, where
one request suffices to fail. Two workers and three jobs give every order of
completion, more jobs than workers, fewer jobs than workers, and more jobs than
room on the channel. Two signals are as many as can matter: one for each of the
two receivers. Two requests in progress are enough for a shutdown that times out
with one finished and one left.

Three losses are enough for a second and a third pair of callbacks to queue up
while the first reconnection still waits for Run.

Two bindings of one application are enough for two rows of it, in either order of
their ids; the third shows that applications do not meet. Two handlers
overlap in every way two requests can, and each goes on to serve further ones, so
that one request overlaps with several and an overlap is followed by an
undisturbed Bind; the proof is for any number of handlers. Scrapes only read, so
one is enough. Handlers and endpoints are interchangeable (symmetry). Scrapes share nothing: two show that one which waits
does not hold up the other's answer.

`EveryConnectionAnnounced` and `ClosedEnds` except the case that Run returned on a
signal. The exception is needed: ReconnectedCB then waits for ever on
`reconnected`, and no later callback runs, ClosedCB included.

`CHECK_DEADLOCK FALSE`: a request ends, and the process ends. That nothing hangs
earlier is `EveryRequestEnds` and `TakenSignalStops`. Symmetry (arrays and
requests) is used in no run with a liveness property; `ImplementsRegistry` is a
safety property, and what it speaks of names neither arrays nor requests.

Fairness. `MetricsFetcher` assumes weak fairness of the handler and of each
worker: goroutines are scheduled, and a scrape ends because the HTTP client has a
timeout of 30 seconds (`clients/backend.go:46`). That covers the scrape from its
request on. The database lookup before it (scrape.go:56) has neither timeout nor
context, so both `MetricsFetcher` and `Scraper` also assume that the database
answers, with rows or an error. `Scraper` has the assumption as a formula of its
own, `DatabaseAnswers`; without it `ImplementsContract` fails, and with it what the
pool relies on. `Lifecycle` assumes it of the
goroutines, and that Shutdown returns after at most 15 seconds; of the
environment (signals, failures, reconnections, requests ending) it assumes
nothing. `NatsLink` assumes it of Connect, of Run, of the callbacks and of each
hand-over that has both its sides: a rendezvous of two goroutines that are both
ready takes place. Of the network and of signals it assumes nothing. `Scraper` assumes that the program sends
its request, that a read on a closed connection returns, and that the client's
timeout and the transport's idle timeout fire; of instances it assumes nothing.
The properties of the table and of the broker are safety properties and need none.

## Proofs

`RoutesFetcher_proofs` proves, for any sets of URIs, messages and arrays that
satisfy the named assumptions of `RouteTable` and `RoutesFetcher`:

- `TypeCorrect`: `FetcherSpec => []FetcherTypeOK`, for any URIs. The inductive
  invariant `FetcherInv` adds `SlicesFit`: UnregisterRoute moves the last entry of
  a slice, which is a slot of the array only if the slice fits.
- `TableSound`: `NormalUris => (FetcherSpec => []TableOK)`.
- `Refinement`: `NormalUris => (FetcherSpec => ImplementsRegistry)`.

`NormalUris` says that every URI in use is its own key. It is needed: without it
the run `unregister_path` is a counterexample.

The argument for the last two. `TableOK` and `TableInv` (the part of `FetcherInv`
about the table) together are inductive. A call edits one entry of the map:
`Edit(u, a, q, n)` says that afterwards the entry of `u` is the first `n` slots of
array `a` with contents `q`, and that of the other arrays only those nobody
reaches may have been collected. Four lemmas find the edit of the four cases
(`RegisterNewKeyEdit`, `UpdateEntryEdit`, `AppendEntryEdit`, `UnregisterRouteEdit`).
When no two entries share an array, an edit is an `Effect` on one entry
(`EditEffect`). Lemmas about sequences alone (`UpdatedSound`, `AppendedSound`,
`DeletedSound`) then say that the new contents are sound and which set they hold,
and `EffectKeepsTable` and `EffectOnRegistry` carry this over to the table and to
the abstract one. `TableInv` allows readers to hold arrays that are not the
table's, so that all of this also serves the requests.

`Requests_proofs` proves, for any number of requests, routes, URIs, arrays and
exporters, under `OwnQueries`: `RequestsTypeCorrect`, `EveryInstanceCalled`,
`NeverCalledTwice`, `QueueAlwaysFitsPool`, `NeverForeignRoutes`; under `OwnQueries` and
`LoggedUris`: `NeverCrashes`; under `OwnQueries` and `NormalUris`:
`TableSoundWithRequests` and `RefinementWithRequests`.

`OwnQueries` says that every query is by application id or by path. It is needed: a
query by name works on the table's own slice, and the runs `shared_read` and
`shared_append` are counterexamples. `LoggedUris` says that a message without
application has a URI for its log line; without it `DropWithoutUris` ends the
process. `RefinementWithRequests` is the composition: the subscription and any
number of such requests, which reach into one heap of arrays, still implement the
abstract table, and no step of a request is a step of it. No property of the
requests themselves needs `NormalUris`.

The inductive invariant is `RequestsInv`: the table's (`TableInv`, and `Table` is
finite, as a lookup enumerates what it finds), no two requests hold one array
(`Apart`), and `RequestOK(p)` for each request. Its core is `ListOK(q, n, need)`: the
first `n` slots of `q` are a list that starts with an instance, has no instance
behind an exporter and none twice, and has one at every address of `need`. A
lookup makes such a list (`FoundList`, from `SetToSeqsEnumerates` and the definition
of `OnePerAddress`), an exporter goes behind it (`ListExtended`), the addresses that
stayed can only become fewer (`WatchShrinks`), and what was called is a beginning
of it. `Lend(p, s)` is all a request does to the heap: it writes to its own array or
to a free one, and leaves arrays to the collector that nobody reaches; `LendKeeps`
says that the table and the other requests do not notice. Every action of a
request is then one lemma, an instance of `StepKeepsInv`; the subscription's steps
come from the lemmas of `RoutesFetcher_proofs` and from `HandlerLeavesLent`.
TLC finds `RequestsInv` invariant in the run `requests` too.

Besides the assumptions of `RoutesFetcher` it uses `ExportersAssumption`: the
exporters are a sequence, and no route of theirs is the nil pointer.

`MetricsFetcher_proofs` proves `PoolTypeCorrect`, `WaitGroupAlwaysExact`,
`NeverLateWriter`, `HeadersAlwaysToInstances` and `ResponseAlwaysRight` for any finite
pool, any request and any families. One inductive invariant, `PoolInv`, serves all:

- `QueueOK`, `WorkersOK`: fed jobs are numbers in order; each is in the channel, at
  one worker, or done;
- `CountOK`: the WaitGroup is the number of jobs not fed, queued or at a busy
  worker; cardinalities of finite sets carry it from step to step;
- `HeadersOK`: a worker that dropped its headers had an exporter, so all that is
  queued behind it are exporters;
- `AnswersOK`, `ErrorOK`, `LedgerOK`: what is stored in `unmerged` and `errFetch` is
  what the finished jobs answered, each once (`Ledger`);
- `MergeOK`: after each entry of `unmerged`, `base` has for each family the sources
  seen so far, each once (`MergedSoFar`). The merge is a loop of steps, so this is
  an invariant and needs no induction over data.

It uses `WorkersAssumption` (the pool is finite), `RequestsAssumption` (a request
has an instance; exporters only when some are configured) and `NoneAssumption`.
That there is an instance, and that instances come first, is what
`QueueAlwaysFitsPool` proves of the module before it.

`Lifecycle_proofs` proves `LifecycleTypeCorrect` and `DrainedAlwaysUnhealthy`
whatever a test of `err` reads, and `HealthyAlwaysServing`, `SuccessAlwaysDrained` and
`DrainedAlwaysSucceeds` under `NoReload`, for any signals and any number of requests,
from `LifecycleAssumption`. `NoReload` says that a goroutine which tests `err` sees
what it assigned last. It is needed: when a test may load the shared variable
again, TLC finds each of the three violated (the run `shared_err` shows the last
one). `QueueInv` is the type invariant and `WaitersOK`: nobody waits twice for
the signal channel, and who waits is blocked. `MainInv` ties main's place to
health, exit status and its own error, and `ListenerInv` the listener to the
places of main and of Serve.

`NatsLink_proofs` proves, for any number of losses (`MaxDrops`), `LinkTypeCorrect`,
`TickersAlwaysExact` and `AlwaysAnnounced`, that is `Spec => []TypeOK`,
`[]TickersExact` and `[]AnnouncedWhenSettled`. Neither of the last two is
inductive: that the receiver is there when ReconnectedCB sends depends on what
is queued behind it. `LinkInv` adds `Alternating` (the queued callbacks alternate,
the first continues what was handled and the last agrees with the connection)
and `AnnouncementDue` (what will still announce a connection that is not
announced). `AlternateAppend` and `AlternateTail` are the facts about sequences,
and `AlternatingStep`, `AnnouncementStep` and `TickersStep` have a case per action.
It assumes `NatsLinkAssumption` only.

`Broker_proofs` proves `BrokerTypeCorrect` and `EndpointAlwaysRegular`, that is
`Spec => []TypeOK` and `Spec => EndpointIsRegular`, for any bindings, endpoints,
handlers and scrapes, from `BrokerAssumption`. `EndpointIsRegular` is about steps:
`LookupVisible` says that in every state with the invariant `Lookup` is visible, and
`ScrapeStepFrame` that a lookup reads that, or nothing when it fails. That it is
visible is not inductive: a return takes visible values back, which is right only
if nobody else is in progress.
`BrokerInv` adds `Exclusive` (a clean request is alone on its application),
`Announced` (what requests in progress may leave is visible) and `Cleared` (a clean
Bind between its statements has no row). `OthersKeep` says what a step of one
handler leaves to the others; `ReturnInv`, `GoOnInv` and `BeginInv` are the three
ways a handler moves, and every action is an instance of one. `MinIsMember` is the
well-foundedness of the naturals, which First's order needs.

`Scraper_proofs` proves `ScraperTypeCorrect`, `HeldOnlyAfterBadStatusAlways`,
`AnswerFromWholeResponseAlways` and `ScrapesAnsweredOnce` for any number of scrapes, from
`ScraperAssumption`. The invariant is local: `StageOK(s)` says what a scrape holds
at each place. `ScrapesAnsweredOnce` is the safety part of `ImplementsContract`:
initial states map to initial states, and steps to steps or stutters.

Only model-checked: all liveness, that is `EveryRequestEnds`, `TakenSignalStops`,
`EveryConnectionAnnounced`, `ClosedEnds`, `EveryConnectionReleased` and the liveness
part of `ImplementsContract` (fairness and ENABLED are beyond TLAPS). The violations
are TLC's by nature.

## Not modelled

Configuration, process metrics and vendored libraries: no state that changes, or
none the program reads. Of the API, parsing and encoding are left out. The pages
of the user documentation are output only; their scripts (`userdocs/assets/js`)
are the Materialize and Prism libraries as published, and a page of calls that
start their plugins. They are third-party user interface code that takes no part
in what Promfetcher does, so nothing here models them.

No property is stated where the repository says nothing of what should happen: a
lost unregister message (the TTL of a route is never used), a message without
URIs that ends the process (routesfetcher.go:216), a disconnection before the
connection was stored (client.go:84), callbacks that wait for a Run which returned
on a signal (client.go:117), a database that never answers (scrape.go:56). The
outcomes are in the models; the last is excluded by `DatabaseAnswers`.

Three disagreements met while modelling these parts are recorded here and have no
run of their own:

- Unbind drops the error of its delete (broker.go:133) and answers success with
  the row still there; the test (api/broker_test.go:118-120) expects it gone.
- A bound endpoint wins over `metric_path` (scrape.go:54-59), which README.md:57 and
  the error text of backend.go:61 present as the way to set an endpoint.
- CheckRedirect follows every redirect to the same host (backend.go:55), without the
  limit its comment states ("just for one hop").

## Plan

Done: every module of the list above, with its runs; proofs of every invariant
and action property that a run finds to hold; the refinements of the table, with
and without requests, and of the scrape's safety. Left:

1. For queries by name, the weaker facts that do hold: what a request may write to
   the table is an exporter behind the last entry of a slice.
2. The pool on top of the contract: `MetricsFetcher`'s `Scrape` as a step of
   `ScrapeContract`, instead of the assumption stated under Scrapes.
