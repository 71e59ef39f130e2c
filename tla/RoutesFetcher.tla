--------------------------- MODULE RoutesFetcher ---------------------------
(***************************************************************************)
(* fetchers/routesfetcher.go and mbus/message.go: the router.* subscription *)
(* that feeds the routing table.                                           *)
(*                                                                         *)
(* NATS delivers the messages of a subscription one at a time to one       *)
(* goroutine.  The handler makes one route of a message and registers (or  *)
(* unregisters) it under every URI of the message, taking and releasing    *)
(* the table's lock for each, so a request can look between two of them:   *)
(* work is what is left of the message being handled.                      *)
(*                                                                         *)
(* A message is a record with the fields inst, host, port, tls_port (0     *)
(* when absent), app_id, path, type (see Routes.tla), uris and             *)
(* route_service, one of "" (no route service), "https" and "http".        *)
(* Any message may arrive at any time: this covers messages that are lost, *)
(* repeated or dropped by the pending limit of a slow subscription.        *)
(***************************************************************************)
EXTENDS RouteTable

CONSTANTS
  Messages,  \* the messages that may be published
  NoApp,     \* the empty app_id
  Idle       \* no message is being handled

VARIABLES work, crashed

fetcherVars == <<heap, rts, lent, work, crashed>>

ASSUME MessagesAssumption ==
  \A m \in Messages :
    /\ m.uris \in Seq(Uri)
    /\ m.port \in Nat /\ m.tls_port \in Nat

-----------------------------------------------------------------------------
(* mbus/message.go *)

ValidateMessage(m) == m.route_service # "http"

Port(m) == IF m.tls_port # 0 THEN m.tls_port ELSE m.port

MakeRoute(m) ==
  [inst |-> m.inst, addr |-> <<m.host, Port(m)>>, app |-> m.app_id,
   path |-> m.path, type |-> m.type,              tls |-> m.tls_port # 0]

Route == {MakeRoute(m) : m \in Messages}

ASSUME NilAssumption == Nil \notin Route

ASSUME IdleAssumption ==
  Idle \notin [op : {"register", "unregister"}, route : Route, uris : Seq(Uri)]

-----------------------------------------------------------------------------
Init ==
  /\ TableInit
  /\ work = Idle
  /\ crashed = FALSE

\* The handler is entered.  A message that fails validation, one of no
\* application and one without URIs change nothing and have no action.
Receive(op, m) ==
  /\ ~ crashed
  /\ work = Idle
  /\ ValidateMessage(m)
  /\ m.app_id # NoApp
  /\ m.uris # << >>
  /\ work' = [op |-> op, route |-> MakeRoute(m), uris |-> m.uris]
  /\ UNCHANGED <<heap, rts, lent, crashed>>

\* The log line of a dropped message reads Uris[0] even when there is none:
\* an index out of range in the subscription's goroutine ends the process.
DropWithoutUris(m) ==
  /\ ~ crashed
  /\ work = Idle
  /\ ValidateMessage(m)
  /\ m.app_id = NoApp
  /\ m.uris = << >>
  /\ crashed' = TRUE
  /\ UNCHANGED <<heap, rts, lent, work>>

\* Mutant: the loop runs one URI too far.
AdvancePastEnd ==
  work' = [op |-> work.op, route |-> work.route, uris |-> Tail(work.uris)]

Advance ==
  work' = IF Len(work.uris) = 1 THEN Idle
          ELSE [op |-> work.op, route |-> work.route, uris |-> Tail(work.uris)]

RegisterNext ==
  /\ ~ crashed
  /\ work # Idle
  /\ work.op = "register"
  /\ RegisterRoute(Head(work.uris), work.route)
  /\ Advance
  /\ UNCHANGED crashed

UnregisterNext ==
  /\ ~ crashed
  /\ work # Idle
  /\ work.op = "unregister"
  /\ UnregisterRoute(Head(work.uris), work.route)
  /\ Advance
  /\ UNCHANGED crashed

FetcherNext ==
  \/ \E op \in {"register", "unregister"}, m \in Messages : Receive(op, m)
  \/ \E m \in Messages : DropWithoutUris(m)
  \/ RegisterNext
  \/ UnregisterNext

FetcherSpec == Init /\ [][FetcherNext]_fetcherVars

-----------------------------------------------------------------------------
(* Type correctness.  slots are the values an array may hold.              *)

Work(R) ==
  [op : {"register", "unregister"}, route : R, uris : Seq(Uri) \ {<< >>}]

TableTypeOK(slots) ==
  /\ heap \in [Arrays -> Seq(slots)]
  /\ rts \in [Uri -> Slice \cup {NoSlice}]
  /\ lent \in [Readers -> Slice \cup {NoSlice}]

\* Type invariant: every array holds routes and nils, every map entry is a
\* slice, and the handler is at some URI of some message.
FetcherTypeOK ==
  /\ TableTypeOK(Route \cup {Nil})
  /\ work \in Work(Route) \cup {Idle}
  /\ crashed \in BOOLEAN

-----------------------------------------------------------------------------
(* Safety *)

Keys == {k \in Uri : rts[k] # NoSlice}

SlicesFit == \A k \in Keys : rts[k].len <= Len(heap[rts[k].arr])

NoSharing == \A k, l \in Keys : rts[k].arr = rts[l].arr => k = l

\* No slot of a map entry is nil: UnregisterRoute deletes the element, so
\* that whoever walks the entry meets routes only.
NoNilEntry == \A k \in Keys : \A i \in 1 .. rts[k].len : Entry(rts[k], i) # Nil

OneEntryPerInstance ==
  \A k \in Keys : \A i, j \in 1 .. rts[k].len :
    Equal(Entry(rts[k], i), Entry(rts[k], j)) => i = j

\* The routing table is sound: entries lie within their arrays, no two map
\* entries share an array (an append or a delete under one key would write
\* into the other), no slot is nil, and no instance occurs twice under a key,
\* whatever sequence of (re)registrations and deletions led here.
TableOK == SlicesFit /\ NoSharing /\ NoNilEntry /\ OneEntryPerInstance

\* Every URI in use is the key it is stored under.
NormalUris == \A u \in Uri : RouteKey(u) = u

-----------------------------------------------------------------------------
(* The abstract table it implements *)

Registered == [k \in Uri |-> IF rts[k] = NoSlice THEN {} ELSE Entries(rts[k])]

Registry ==
  INSTANCE RouteRegistry
    WITH Key <- Uri, KeyOf <- RouteKey, reg <- Registered, todo <- work

\* Seen as sets of instances, the slices follow RouteRegistry: each step of the
\* handler registers or unregisters, as the message says, its instance under
\* the key of its next URI and changes nothing else, however the slices were
\* swapped, reused and regrown.
ImplementsRegistry == Registry!Spec
=============================================================================
