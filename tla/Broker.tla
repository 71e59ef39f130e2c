------------------------------- MODULE Broker -------------------------------
(***************************************************************************)
(* api/broker.go, the service broker, and the scraper's use of its table   *)
(* (scrapers/scrape.go): the rows of app_endpoints, one per binding that   *)
(* asked for an endpoint.                                                  *)
(*                                                                         *)
(* Handlers are the requests to the broker served at one time, by one or   *)
(* several processes on one database.  Bind has two statements, which are  *)
(* two steps.  A statement may fail, that of a scrape's lookup included,   *)
(* and a process may die between two.                                      *)
(* Requests refused before the first statement (no database, parameters    *)
(* that are no JSON, an endpoint that is no path) change nothing and have  *)
(* no action.                                                              *)
(***************************************************************************)
EXTENDS Naturals, FiniteSetsExt

CONSTANTS
  Bindings,   \* ids of bindings, numbers in the order of the primary key
  AppOf,      \* the application of each binding
  Endpoints,  \* paths a Bind may ask for
  Handlers,   \* requests to the broker that are served at one time
  Scrapes,    \* scrapes of instances without a path of their own
  None        \* no row, no endpoint asked for

Apps == {AppOf[b] : b \in Bindings}

Writes == Bindings \X Endpoints

ASSUME BrokerAssumption ==
  /\ Bindings \subseteq Nat
  /\ AppOf = [b \in Bindings |-> AppOf[b]]
  /\ None \notin Bindings /\ None \notin Endpoints /\ None \notin Writes

VARIABLES
  rows,       \* the endpoint of each binding, or None: the table
  pc,         \* each handler: idle, delete, create (Bind) or unbind
  binding,    \* the binding its request is about
  endpoint,   \* the endpoint its Bind asks for
  clean,      \* history: no overlap on its application, no failed statement
  visible,    \* history: what may be found for each application
  scrape      \* what each scrape in progress found, or None

vars == <<rows, pc, binding, endpoint, clean, visible, scrape>>

App(h) == AppOf[binding[h]]

\* A row as a scrape sees it.
Row(b) == <<b, rows[b]>>

RowsOf(a) == {b \in Bindings : AppOf[b] = a /\ rows[b] # None}

\* First orders by the primary key.
Lookup(a) == IF RowsOf(a) = {} THEN None ELSE Row(Min(RowsOf(a)))

-----------------------------------------------------------------------------
Init ==
  /\ rows = [b \in Bindings |-> None]
  /\ pc = [h \in Handlers |-> "idle"]
  /\ binding = [h \in Handlers |-> None]
  /\ endpoint = [h \in Handlers |-> None]
  /\ clean = [h \in Handlers |-> TRUE]
  /\ visible = [a \in Apps |-> {None}]
  /\ scrape = [s \in Scrapes |-> None]

\* The other requests in progress on the application of binding b.
Overlapping(h, b) ==
  {g \in Handlers \ {h} : pc[g] # "idle" /\ App(g) = AppOf[b]}

\* A request arrives; it and those it overlaps with disturb each other.
Begin(h, b, e, step) ==
  /\ pc[h] = "idle"
  /\ pc' = [pc EXCEPT ![h] = step]
  /\ binding' = [binding EXCEPT ![h] = b]
  /\ endpoint' = [endpoint EXCEPT ![h] = e]
  /\ clean' = [g \in Handlers |->
                 IF g = h THEN Overlapping(h, b) = {}
                 ELSE clean[g] /\ g \notin Overlapping(h, b)]
  /\ UNCHANGED rows

\* The handler returns and may serve another request.
Return(h) ==
  /\ pc' = [pc EXCEPT ![h] = "idle"]
  /\ binding' = [binding EXCEPT ![h] = None]
  /\ endpoint' = [endpoint EXCEPT ![h] = None]
  /\ clean' = [clean EXCEPT ![h] = TRUE]

\* From now on a scrape for the application of h finds something in found;
\* known only if nothing disturbed the request.
Settle(h, found) ==
  visible' = IF clean[h] THEN [visible EXCEPT ![App(h)] = found] ELSE visible

-----------------------------------------------------------------------------
(* Bind *)

\* What a Bind in progress may leave: what it asks for, or nothing.
Asked(b, e) == {None} \cup (IF e = None THEN {} ELSE {<<b, e>>})

Bind(h, b, e) ==
  /\ Begin(h, b, e, "delete")
  /\ visible' = [visible EXCEPT ![AppOf[b]] = @ \cup Asked(b, e)]

\* Mutant: the row of the binding is deleted, not those of the application.
DeletedOwnRow(h) == [rows EXCEPT ![binding[h]] = None]

DeletedRows(h) ==
  [b \in Bindings |-> IF AppOf[b] = App(h) THEN None ELSE rows[b]]

\* Lines 113 to 116.  Without an endpoint the Bind is complete.
DeleteOld(h) ==
  /\ pc[h] = "delete"
  /\ rows' = DeletedRows(h)
  /\ \/ /\ endpoint[h] = None
        /\ Settle(h, {None})
        /\ Return(h)
     \/ /\ endpoint[h] # None
        /\ pc' = [pc EXCEPT ![h] = "create"]
        /\ UNCHANGED <<binding, endpoint, clean, visible>>

\* The error of the statement is not looked at.
DeleteOldFails(h) ==
  /\ pc[h] = "delete"
  /\ \/ endpoint[h] = None /\ Return(h)
     \/ /\ endpoint[h] # None
        /\ pc' = [pc EXCEPT ![h] = "create"]
        /\ clean' = [clean EXCEPT ![h] = FALSE]
        /\ UNCHANGED <<binding, endpoint>>
  /\ UNCHANGED <<rows, visible>>

\* Mutant: the application is written where the endpoint belongs.
InsertedApp(h) == [rows EXCEPT ![binding[h]] = App(h)]

Inserted(h) == [rows EXCEPT ![binding[h]] = endpoint[h]]

Create(h) ==
  /\ pc[h] = "create"
  /\ rows[binding[h]] = None
  /\ rows' = Inserted(h)
  /\ Settle(h, {<<binding[h], endpoint[h]>>})
  /\ Return(h)

\* The answer is an error: the key exists, or the statement failed.  When the
\* connection broke during the commit the row may be there all the same.
CreateFails(h) ==
  /\ pc[h] = "create"
  /\ \/ UNCHANGED rows
     \/ rows[binding[h]] = None /\ rows' = Inserted(h)
  /\ Settle(h, Asked(binding[h], endpoint[h]))
  /\ Return(h)

-----------------------------------------------------------------------------
(* Unbind *)

WritesOf(b) == {b} \X Endpoints

Unbind(h, b) ==
  /\ Begin(h, b, None, "unbind")
  /\ visible' = [visible EXCEPT ![AppOf[b]] =
                   @ \cup {x \in {None} : visible[AppOf[b]] \cap WritesOf(b) # {}}]

DeletedRow(h) == [rows EXCEPT ![binding[h]] = None]

DeleteBinding(h) ==
  /\ pc[h] = "unbind"
  /\ rows' = DeletedRow(h)
  /\ Settle(h, visible[App(h)] \ WritesOf(binding[h]))
  /\ Return(h)

\* Line 133: a failed statement is answered with success, too.
DeleteBindingFails(h) ==
  /\ pc[h] = "unbind"
  /\ Return(h)
  /\ UNCHANGED <<rows, visible>>

-----------------------------------------------------------------------------
\* The process ends with the request half done (a failed ping of the database,
\* a shutdown that timed out).
Die(h) ==
  /\ pc[h] # "idle"
  /\ Return(h)
  /\ UNCHANGED <<rows, visible>>

BrokerStep(h) ==
  /\ \/ \E b \in Bindings : Unbind(h, b) \/ \E e \in Endpoints \cup {None} : Bind(h, b, e)
     \/ DeleteOld(h) \/ DeleteOldFails(h) \/ Create(h) \/ CreateFails(h)
     \/ DeleteBinding(h) \/ DeleteBindingFails(h)
     \/ Die(h)
  /\ UNCHANGED scrape

-----------------------------------------------------------------------------
(* The scraper *)

Found(s, a, row, failed) ==
  /\ scrape[s] = None
  /\ scrape' = [scrape EXCEPT ![s] = [app |-> a, row |-> row, failed |-> failed]]
  /\ UNCHANGED <<rows, pc, binding, endpoint, clean, visible>>

\* A scrape reads the endpoint of application a, once, and uses what it read
\* whatever requests to the broker do meanwhile.
LookUp(s, a) == Found(s, a, Lookup(a), FALSE)

\* The error of First is not looked at: without a row the scrape uses the
\* default path, as if the application had no endpoint.
LookUpFails(s, a) == Found(s, a, None, TRUE)

ScrapeEnds(s) ==
  /\ scrape[s] # None
  /\ scrape' = [scrape EXCEPT ![s] = None]
  /\ UNCHANGED <<rows, pc, binding, endpoint, clean, visible>>

ScrapeStep(s) ==
  \/ \E a \in Apps : LookUp(s, a) \/ LookUpFails(s, a)
  \/ ScrapeEnds(s)

Next == (\E h \in Handlers : BrokerStep(h)) \/ (\E s \in Scrapes : ScrapeStep(s))

Spec == Init /\ [][Next]_vars

-----------------------------------------------------------------------------
(* Properties *)

\* What a scrape may have read.
Findings == [app : Apps, row : Writes \cup {None}, failed : BOOLEAN]

\* Type invariant.
TypeOK ==
  /\ rows \in [Bindings -> Endpoints \cup {None}]
  /\ pc \in [Handlers -> {"idle", "delete", "create", "unbind"}]
  /\ binding \in [Handlers -> Bindings \cup {None}]
  /\ endpoint \in [Handlers -> Endpoints \cup {None}]
  /\ clean \in [Handlers -> BOOLEAN]
  /\ visible \in [Apps -> SUBSET (Writes \cup {None})]
  /\ scrape \in [Scrapes -> Findings \cup {None}]

\* The table is a regular register for each application, although a Bind is
\* two statements and nothing locks it.  A scrape whose statement succeeds
\* (scrape.go:56) finds what the last undisturbed Bind asked for, or what a
\* request begun since asked for, or nothing if such a request may have removed
\* it.  In particular an undisturbed Bind repairs whatever failures and
\* overlapping requests left before it.  A scrape falls back to the default
\* path only if there may be no row, or if its own statement failed, as First's
\* error is dropped; and in neither case does it use a binding that was
\* replaced.
EndpointIsRegular ==
  [][\A s \in Scrapes :
       scrape'[s] # scrape[s] /\ scrape'[s] # None =>
         \/ scrape'[s].row \in visible[scrape'[s].app]
         \/ scrape'[s].failed /\ scrape'[s].row = None]_vars
=============================================================================
