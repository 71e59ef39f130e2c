------------------------------ MODULE Requests ------------------------------
(***************************************************************************)
(* fetchers/metricsfetcher.go, Metrics, up to the job queue: concurrent    *)
(* requests look routes up, add the external exporters and hand the routes *)
(* to their workers, while the subscription goes on changing the table     *)
(* (RoutesFetcher.tla).                                                    *)
(*                                                                         *)
(* A request p works on one slice, lent[p], without a lock.  FindById and  *)
(* FindByOrgSpaceName build that slice; FindByRouteName returns the one in *)
(* the routing table.  Each access to a slot of it is a step of its own.   *)
(*                                                                         *)
(* A query is a record: by, one of "id", "path" and "name"; arg, an app,   *)
(* a path or a Uri; only_app, whether exporters are left out.              *)
(***************************************************************************)
EXTENDS RoutesFetcher, SequencesExt

CONSTANTS
  Queries,   \* the requests that may arrive
  Exporters  \* the configured external exporters, a sequence of names

VARIABLES
  pc,      \* where each request is
  query,   \* what it asks
  pos,     \* the next slot it reads
  tags,    \* mapTagsRoute: app -> path
  apps,    \* the apps whose exporters are not added yet
  todo,    \* the exporters of the current app still to be added
  calls,   \* the routes handed to the workers
  steady   \* addresses that answered the query at every moment since Find

requestVars == <<pc, query, pos, tags, apps, todo, calls, steady>>

allVars == <<fetcherVars, requestVars>>

Running == {"tags", "exporters", "feed"}

RequestInit ==
  /\ Init
  /\ pc     = [p \in Readers |-> "idle"]
  /\ query  = [p \in Readers |-> Nil]
  /\ pos    = [p \in Readers |-> 1]
  /\ tags   = [p \in Readers |-> << >>]
  /\ apps   = [p \in Readers |-> {}]
  /\ todo   = [p \in Readers |-> << >>]
  /\ calls  = [p \in Readers |-> << >>]
  /\ steady = [p \in Readers |-> {}]

-----------------------------------------------------------------------------
(* The slice a request works on *)

\* Capacity of a slice built by n > 0 appends to an empty one: the next power
\* of two, and above 256 elements some capacity of the same range.
BuiltCap(n) ==
  CHOOSE c \in n .. 2 * n - 1 : n > 256 \/ c \in {1, 2, 4, 8, 16, 32, 64, 128, 256}

Built(s) == [i \in 1 .. BuiltCap(Len(s)) |-> IF i <= Len(s) THEN s[i] ELSE Nil]

\* FindByRouteName: the slice of the map itself.
FindAlias(p, s) ==
  /\ s # NoSlice
  /\ s.len > 0
  /\ lent' = [lent EXCEPT ![p] = s]
  /\ UNCHANGED heap

\* Mutant: a lookup hands out a slice of the map.
FindShared(p, found) == \E k \in Keys : FindAlias(p, rts[k])

\* FindById and FindByOrgSpaceName: one route per address, in map order.
FindCopy(p, found) ==
  \E R \in found \ {{}} : \E s \in SetToSeqs(R), a \in Free :
    /\ lent' = [lent EXCEPT ![p] = [arr |-> a, len |-> Len(s)]]
    /\ heap' = [heap EXCEPT ![a] = Built(s)]

\* Mutant: the exporter is put in front of the routes.
PutInFront(p, r) ==
  LET s == lent[p]
  IN  \E a \in Free :
        /\ lent' = [lent EXCEPT ![p] = [arr |-> a, len |-> s.len + 1]]
        /\ heap' = Collected([heap EXCEPT ![a] = <<r>> \o heap[s.arr]],
                             Reachable(rts, lent'))

\* append(routes, exporter), in place when the array has room.
AppendTo(p, r) ==
  LET s == lent[p]
  IN  IF s.len < Len(heap[s.arr])
      THEN /\ heap' = [heap EXCEPT ![s.arr][s.len + 1] = r]
           /\ lent' = [lent EXCEPT ![p].len = @ + 1]
      ELSE \E a \in Free :
             /\ lent' = [lent EXCEPT ![p] = [arr |-> a, len |-> s.len + 1]]
             /\ heap' = Collected([heap EXCEPT ![a] = Grown(heap[s.arr], r)],
                                  Reachable(rts, lent'))

\* Mutant: the slice outlives the request.
ReleaseNothing(p) == UNCHANGED <<heap, lent>>

Release(p) ==
  /\ lent' = [lent EXCEPT ![p] = NoSlice]
  /\ heap' = Collected(heap, Reachable(rts, lent'))

-----------------------------------------------------------------------------
(* The instances a request is expected to reach *)

\* Addresses of the routes the table holds for a query.
Answering(q) ==
  {r.addr : r \in
     CASE q.by = "id"   -> {r \in Table : r.type = "web" /\ r.app = q.arg}
       [] q.by = "path" -> {r \in Table : r.type = "web" /\ r.path = q.arg}
       [] q.by = "name" -> Registered[RouteKey(q.arg)] \ {Nil}}

\* steady is history: it follows the other variables and affects none.
Watch ==
  steady' = [p \in Readers |->
               CASE pc'[p] = "idle" -> {}
                 [] pc[p] = "idle" /\ pc'[p] = "tags" -> Answering(query[p])'
                 [] pc[p] \in Running -> steady[p] \cap Answering(query[p])'
                 [] OTHER -> steady[p]]

\* What every step of a request has in common.
RequestFrame == ~ crashed /\ UNCHANGED <<rts, work>> /\ Watch

-----------------------------------------------------------------------------
(* The steps of a request *)

Find(p, q) ==
  /\ pc[p] = "idle"
  /\ \/ q.by = "id"   /\ FindCopy(p, FindById(q.arg))
     \/ q.by = "path" /\ FindCopy(p, FindByOrgSpaceName(q.arg))
     \/ q.by = "name" /\ FindAlias(p, FindByRouteName(q.arg))
  /\ pc'    = [pc EXCEPT ![p] = "tags"]
  /\ query' = [query EXCEPT ![p] = q]
  /\ UNCHANGED <<pos, tags, apps, todo, calls, crashed>>
  /\ RequestFrame

\* A nil route: the handler panics, which net/http confines to the request.
Panic(p) ==
  /\ pc' = [pc EXCEPT ![p] = "panicked"]
  /\ Release(p)

ReadTags(p) ==
  /\ pc[p] = "tags"
  /\ pos[p] <= lent[p].len
  /\ LET r == Entry(lent[p], pos[p])
     IN  \/ r = Nil /\ Panic(p) /\ UNCHANGED <<pos, tags>>
         \/ /\ r # Nil
            /\ tags' = [tags EXCEPT ![p] =
                          [a \in {r.app} \cup DOMAIN @ |->
                             IF a = r.app THEN r.path ELSE @[a]]]
            /\ pos' = [pos EXCEPT ![p] = @ + 1]
            /\ UNCHANGED <<pc, heap, lent>>
  /\ UNCHANGED <<query, apps, todo, calls, crashed>>
  /\ RequestFrame

\* config.ExternalExporter.ToRoute
ToRoute(ee, app, path) ==
  [inst |-> ee, addr |-> <<ee, 0>>, app |-> app, path |-> path,
   type |-> "external_exporter", tls |-> FALSE]

\* The routes ToRoute can make.
ExporterRoute ==
  {ToRoute(ee, r.app, r.path) : ee \in Range(Exporters), r \in Route}

\* The exporters are a sequence, and none of their routes is the nil pointer.
ASSUME ExportersAssumption ==
  Exporters \in Seq(Range(Exporters)) /\ Nil \notin ExporterRoute

\* The loop over the apps is entered, unless there is nothing to add.
PrepareExporters(p) ==
  /\ pc[p] = "tags"
  /\ pos[p] > lent[p].len
  /\ apps' = [apps EXCEPT ![p] = IF query[p].only_app \/ Exporters = << >> THEN {}
                                 ELSE DOMAIN tags[p]]
  /\ pc' = [pc EXCEPT ![p] = "exporters"]
  /\ UNCHANGED <<heap, lent, query, pos, tags, todo, calls, crashed>>
  /\ RequestFrame

\* The next app, in map order: every exporter is to be added for it.
NextApp(p) ==
  /\ pc[p] = "exporters"
  /\ todo[p] = << >>
  /\ \E app \in apps[p] :
       /\ apps' = [apps EXCEPT ![p] = @ \ {app}]
       /\ todo' = [todo EXCEPT ![p] =
                     [i \in 1 .. Len(Exporters) |->
                        ToRoute(Exporters[i], app, tags[p][app])]]
  /\ UNCHANGED <<heap, lent, pc, query, pos, tags, calls, crashed>>
  /\ RequestFrame

\* ToRoute may fail on a template: the exporter is reported and left out.
AddExporter(p) ==
  /\ pc[p] = "exporters"
  /\ todo[p] # << >>
  /\ \/ AppendTo(p, Head(todo[p]))
     \/ UNCHANGED <<heap, lent>>
  /\ todo' = [todo EXCEPT ![p] = Tail(@)]
  /\ UNCHANGED <<pc, query, pos, tags, apps, calls, crashed>>
  /\ RequestFrame

StartFeed(p) ==
  /\ pc[p] = "exporters"
  /\ apps[p] = {}
  /\ todo[p] = << >>
  /\ pc'  = [pc EXCEPT ![p] = "feed"]
  /\ pos' = [pos EXCEPT ![p] = 1]
  /\ UNCHANGED <<heap, lent, query, tags, apps, todo, calls, crashed>>
  /\ RequestFrame

\* jobs <- route.  The worker that receives nil dereferences it, in a
\* goroutine nobody recovers: the process ends.
Feed(p) ==
  /\ pc[p] = "feed"
  /\ pos[p] <= lent[p].len
  /\ LET r == Entry(lent[p], pos[p])
     IN  \/ r = Nil /\ crashed' = TRUE /\ Panic(p) /\ UNCHANGED <<pos, calls>>
         \/ /\ r # Nil
            /\ calls' = [calls EXCEPT ![p] = Append(@, r)]
            /\ pos' = [pos EXCEPT ![p] = @ + 1]
            /\ UNCHANGED <<pc, heap, lent, crashed>>
  /\ UNCHANGED <<query, tags, apps, todo>>
  /\ RequestFrame

\* wg.Wait and what follows touch the slice no more.
Fed(p) ==
  /\ pc[p] = "feed"
  /\ pos[p] > lent[p].len
  /\ pc' = [pc EXCEPT ![p] = "done"]
  /\ Release(p)
  /\ UNCHANGED <<query, pos, tags, apps, todo, calls, crashed>>
  /\ RequestFrame

\* The response is sent; p stands for the next request.
Return(p) ==
  /\ pc[p] \in {"done", "panicked"}
  /\ pc'    = [pc EXCEPT ![p] = "idle"]
  /\ query' = [query EXCEPT ![p] = Nil]
  /\ pos'   = [pos EXCEPT ![p] = 1]
  /\ tags'  = [tags EXCEPT ![p] = << >>]
  /\ apps'  = [apps EXCEPT ![p] = {}]
  /\ todo'  = [todo EXCEPT ![p] = << >>]
  /\ calls' = [calls EXCEPT ![p] = << >>]
  /\ UNCHANGED <<heap, lent, crashed>>
  /\ RequestFrame

-----------------------------------------------------------------------------
RequestStep(p) ==
  \/ \E q \in Queries : Find(p, q)
  \/ ReadTags(p)
  \/ PrepareExporters(p)
  \/ NextApp(p)
  \/ AddExporter(p)
  \/ StartFeed(p)
  \/ Feed(p)
  \/ Fed(p)
  \/ Return(p)

TableStep ==
  /\ FetcherNext
  /\ UNCHANGED <<pc, query, pos, tags, apps, todo, calls>>
  /\ Watch

RequestNext == TableStep \/ \E p \in Readers : RequestStep(p)

RequestSpec == RequestInit /\ [][RequestNext]_allVars

-----------------------------------------------------------------------------
\* Every query is by application id or by path: its request owns its slice.
OwnQueries == \A q \in Queries : q.by \in {"id", "path"}

\* A message without application has a URI for the line that is logged of it.
LoggedUris ==
  \A m \in Messages : ValidateMessage(m) /\ m.app_id = NoApp => m.uris # << >>

\* Type invariant of the requests and of the table they work on.
RequestTypeOK ==
  /\ TableTypeOK(Route \cup ExporterRoute \cup {Nil})
  /\ pc \in [Readers -> Running \cup {"idle", "done", "panicked"}]
  /\ query \in [Readers -> Queries \cup {Nil}]
  /\ calls \in [Readers -> Seq(Route \cup ExporterRoute)]
  /\ \A p \in Readers : /\ lent[p] # NoSlice <=> pc[p] \in Running
                        /\ pos[p] \in Nat

\* A request calls every instance: an instance that was in the table for the
\* query from the lookup to the end of the request was handed to a worker,
\* however the table changed meanwhile and however the request ended.
AllInstancesCalled ==
  \A p \in Readers : pc[p] \in {"done", "panicked"} =>
    steady[p] \subseteq {r.addr : r \in Range(calls[p])}

\* An instance mapped to several URIs, or registered again under way, is
\* scraped once, so that no metric of it is merged twice.
CalledOnce ==
  \A p \in Readers : \A i, j \in 1 .. Len(calls[p]) :
    /\ calls[p][i].addr = calls[p][j].addr
    /\ calls[p][i].type = "web" /\ calls[p][j].type = "web"
    => i = j

\* The queue is one the pool of MetricsFetcher.tla is made for: it starts with
\* an instance, and no instance comes after an exporter, where a worker that
\* has dropped the request's credentials would call it without them.
QueueFitsPool ==
  \A p \in Readers :
    /\ calls[p] # << >> => calls[p][1].type = "web"
    /\ \A i, j \in 1 .. Len(calls[p]) :
         i < j /\ calls[p][j].type = "web" => calls[p][i].type = "web"
    /\ pc[p] = "done" => calls[p] # << >>

\* The routing table holds routes of messages only: the exporters a request
\* adds to its own list never appear in it.
NoForeignRoutes == Table \subseteq Route

\* No worker is handed a nil route, which would end the process.
NoCrash == ~ crashed
=============================================================================
