------------------------------ MODULE Scraper ------------------------------
(***************************************************************************)
(* Scrapes in progress, from the request to the parsed answer:             *)
(* Scraper.Scrape (scrapers/scrape.go), the client it makes for each       *)
(* scrape (clients/backend.go, clients/roundtripper.go) and the part of    *)
(* MetricsFetcher.Metric that reads the answer.                            *)
(*                                                                         *)
(* The client's timeout is a timer that runs from the request until the    *)
(* body is read to its end or closed; when it fires, the connection is     *)
(* closed whatever the program does.  What the instance sends, and when,   *)
(* is the environment's choice; the body of its answer may be cut off at   *)
(* any place.                                                              *)
(***************************************************************************)
EXTENDS Naturals

CONSTANTS
  Scrapes,  \* the scrapes in progress
  MaxHops,  \* redirects counted; further ones happen and are not counted
  None      \* no answer yet

ASSUME ScraperAssumption ==
  /\ MaxHops \in Nat \ {0}
  /\ None \notin {"ok", "client_error", "failure"}

VARIABLES
  keepAlives,  \* the configuration has disable_keep_alives: false
  pc,          \* each scrape: lookup, start, sent, gzip, read, returned
  hops,        \* redirects followed
  conn,        \* its connection: none, open, idle (kept by the transport)
  timer,       \* the client's timeout: off, running
  status,      \* of the last response: none, ok, client_error, other
  delimited,   \* its body has a length or chunks, else it ends by closing
  body,        \* of a response with status 200: none, coming, whole, cut, late
  answer       \* what Metric returned: metrics, client error, failure

reply == <<status, delimited, body>>

vars == <<keepAlives, pc, hops, conn, timer, status, delimited, body, answer>>

\* With a database, a route without a path of its own is looked up first.
Init ==
  /\ keepAlives \in BOOLEAN
  /\ pc \in [Scrapes -> {"lookup", "start"}]
  /\ hops = [s \in Scrapes |-> 0]
  /\ conn = [s \in Scrapes |-> "none"]
  /\ timer = [s \in Scrapes |-> "off"]
  /\ status = [s \in Scrapes |-> "none"]
  /\ delimited = [s \in Scrapes |-> FALSE]
  /\ body = [s \in Scrapes |-> "none"]
  /\ answer = [s \in Scrapes |-> None]

-----------------------------------------------------------------------------
(* How a scrape and its connection end *)

Returns(s, kind) ==
  /\ pc' = [pc EXCEPT ![s] = "returned"]
  /\ answer' = [answer EXCEPT ![s] = kind]

\* The body was read to its end: the transport keeps the connection, if both
\* sides want to, or closes it.  Every client has a transport of its own, which
\* nobody uses again.
BodyEnds(s) ==
  /\ \E c \in {"none"} \cup (IF keepAlives THEN {"idle"} ELSE {}) :
       conn' = [conn EXCEPT ![s] = c]
  /\ timer' = [timer EXCEPT ![s] = "off"]

\* The request failed, or the body was closed before its end.
BodyClosed(s) ==
  /\ conn' = [conn EXCEPT ![s] = "none"]
  /\ timer' = [timer EXCEPT ![s] = "off"]

\* An answer that is of no use is closed; what was read of it may have been
\* all of it.
Abandons(s) ==
  \/ BodyClosed(s)
  \/ body[s] = "whole" /\ conn[s] = "open" /\ BodyEnds(s)

-----------------------------------------------------------------------------
(* The request *)

\* The database answers or reports an error, which is dropped; the rows are
\* Broker.tla's.  No timeout bounds it.
LookUp(s) ==
  /\ pc[s] = "lookup"
  /\ pc' = [pc EXCEPT ![s] = "start"]
  /\ UNCHANGED <<keepAlives, hops, conn, timer, reply, answer>>

\* The address and the endpoint do not make a URL (lines 61 to 64).
NewRequestFails(s) ==
  /\ pc[s] = "start"
  /\ Returns(s, "failure")
  /\ UNCHANGED <<keepAlives, hops, conn, timer, reply>>

Do(s) ==
  /\ pc[s] = "start"
  /\ pc' = [pc EXCEPT ![s] = "sent"]
  /\ conn' = [conn EXCEPT ![s] = "open"]
  /\ timer' = [timer EXCEPT ![s] = "running"]
  /\ UNCHANGED <<keepAlives, hops, reply, answer>>

\* No connection, no TLS, no response.
DoFails(s) ==
  /\ pc[s] = "sent"
  /\ BodyClosed(s)
  /\ Returns(s, "failure")
  /\ UNCHANGED <<keepAlives, hops, reply>>

\* A redirect to the address of the first request is followed, whatever their
\* number; any other ends the request with an error, after net/http has read
\* its body to the end, if it is short, and closed it.
CheckRedirect(s, sameHost) ==
  /\ pc[s] = "sent"
  /\ \/ /\ sameHost
        /\ hops' = [hops EXCEPT ![s] = IF @ < MaxHops THEN @ + 1 ELSE @]
        /\ UNCHANGED <<pc, conn, timer, answer>>
     \/ /\ ~ sameHost
        /\ BodyEnds(s)
        /\ Returns(s, "failure")
        /\ UNCHANGED hops
  /\ UNCHANGED <<keepAlives, reply>>

-----------------------------------------------------------------------------
(* The response *)

\* Mutant: the class of the status is taken for the answer.
BadStatusAsAnswer(s, code) ==
  /\ pc[s] = "sent"
  /\ status' = [status EXCEPT ![s] = code]
  /\ Returns(s, code)
  /\ UNCHANGED <<keepAlives, hops, delimited, body>>

\* Lines 89 to 102: the body is neither read nor closed.
BadStatus(s, code) ==
  /\ pc[s] = "sent"
  /\ status' = [status EXCEPT ![s] = code]
  /\ Returns(s, IF code = "client_error" THEN "client_error" ELSE "failure")
  /\ UNCHANGED <<keepAlives, hops, delimited, body>>

BadStatusWithBody(s, code) == BadStatus(s, code) /\ UNCHANGED <<conn, timer>>

\* Without a body there is nothing to close.
BadStatusNoBody(s, code) == BadStatus(s, code) /\ BodyEnds(s)

Response(s, encoding, framed) ==
  /\ pc[s] = "sent"
  /\ status' = [status EXCEPT ![s] = "ok"]
  /\ delimited' = [delimited EXCEPT ![s] = framed]
  /\ body' = [body EXCEPT ![s] = "coming"]
  /\ pc' = [pc EXCEPT ![s] = IF encoding = "gzip" THEN "gzip" ELSE "read"]
  /\ UNCHANGED <<keepAlives, hops, conn, timer, answer>>

\* The rest of the body arrives, or will never: the instance or the network
\* gave it up.  The program learns of either by reading.
BodyArrives(s, fate) ==
  /\ body[s] = "coming"
  /\ body' = [body EXCEPT ![s] = fate]
  /\ UNCHANGED <<keepAlives, pc, hops, conn, timer, status, delimited, answer>>

\* NewReaderGzip reads the header of the stream.  What has arrived can be read
\* even after the connection is gone.
NewReaderGzip(s) ==
  /\ pc[s] = "gzip"
  /\ pc' = [pc EXCEPT ![s] = "read"]
  /\ UNCHANGED <<keepAlives, hops, conn, timer, reply, answer>>

\* Mutant: the body stays open when the stream is no gzip.
GzipFailsOpen(s) ==
  /\ pc[s] = "gzip"
  /\ Returns(s, "failure")
  /\ UNCHANGED <<keepAlives, hops, conn, timer, reply>>

GzipFails(s) ==
  /\ pc[s] = "gzip"
  /\ Abandons(s)
  /\ Returns(s, "failure")
  /\ UNCHANGED <<keepAlives, hops, reply>>

-----------------------------------------------------------------------------
(* Metric *)

\* Reading reports the end of the body.  When it has neither length nor chunks,
\* the end of the connection is its end, wherever it comes.
EndOfBody(s) == body[s] = "whole" \/ (body[s] = "cut" /\ ~ delimited[s])

\* The text ended and was understood: it ended between two lines, and a gzip
\* stream between two of its members.
Parsed(s) ==
  /\ pc[s] = "read"
  /\ EndOfBody(s)
  /\ IF conn[s] = "open" /\ delimited[s] THEN BodyEnds(s) ELSE BodyClosed(s)
  /\ Returns(s, "ok")
  /\ UNCHANGED <<keepAlives, hops, reply>>

\* Mutant: the error is dropped, and the families parsed so far are returned.
ParseErrorIgnored(s) ==
  /\ pc[s] = "read"
  /\ Abandons(s)
  /\ Returns(s, "ok")
  /\ UNCHANGED <<keepAlives, hops, reply>>

\* A line is no metric, or reading failed; the deferred Close ends the body.
ParseFails(s) ==
  /\ pc[s] = "read"
  /\ Abandons(s)
  /\ Returns(s, "failure")
  /\ UNCHANGED <<keepAlives, hops, reply>>

-----------------------------------------------------------------------------
(* Time *)

\* Mutant: the client has no timeout.
NoTimeout(s) == FALSE /\ UNCHANGED vars

\* Thirty seconds passed.  A request that waits for its response fails; one
\* whose body is being read fails at the next read, unless all of it has arrived;
\* one that returned without closing the body gives the connection up.
Timeout(s) ==
  /\ timer[s] = "running"
  /\ BodyClosed(s)
  /\ IF pc[s] = "sent" THEN Returns(s, "failure") ELSE UNCHANGED <<pc, answer>>
  /\ body' = [body EXCEPT ![s] = IF @ = "coming" THEN "late" ELSE @]
  /\ UNCHANGED <<keepAlives, hops, status, delimited>>

\* Mutant: an idle connection is kept for ever.
IdleForEver(s) == FALSE /\ UNCHANGED vars

\* Without a configured time, after ninety seconds.
IdleTimeout(s) ==
  /\ conn[s] = "idle"
  /\ conn' = [conn EXCEPT ![s] = "none"]
  /\ UNCHANGED <<keepAlives, pc, hops, timer, reply, answer>>

Instance(s) ==
  \/ DoFails(s)
  \/ \E sameHost \in BOOLEAN : CheckRedirect(s, sameHost)
  \/ \E code \in {"client_error", "other"} :
       BadStatusWithBody(s, code) \/ BadStatusNoBody(s, code)
  \/ \E encoding \in {"gzip", "identity"}, framed \in BOOLEAN : Response(s, encoding, framed)
  \/ \E fate \in {"whole", "cut"} : BodyArrives(s, fate)
  \/ NewReaderGzip(s) \/ Parsed(s)

\* The steps the program takes by itself.  Reading fails at once when the
\* connection is gone.
Program(s) ==
  \/ LookUp(s) \/ NewRequestFails(s) \/ Do(s)
  \/ GzipFails(s) \/ ParseFails(s)

Next == \E s \in Scrapes : Instance(s) \/ Program(s) \/ Timeout(s) \/ IdleTimeout(s)

\* An assumption on the database: nothing in the program ends a lookup that
\* is not answered, and the request of the pool would wait with it.
DatabaseAnswers == \A s \in Scrapes : WF_vars(LookUp(s))

\* Of the instance nothing is assumed: it may keep silent, or redirect for
\* ever.  A read on a connection that is gone returns, and timers fire.
ReadFails(s) == (GzipFails(s) \/ ParseFails(s)) /\ conn[s] = "none"

Fairness ==
  \A s \in Scrapes :
    /\ WF_vars(NewRequestFails(s) \/ Do(s))
    /\ WF_vars(ReadFails(s))
    /\ WF_vars(Timeout(s))
    /\ WF_vars(IdleTimeout(s))

Spec == Init /\ [][Next]_vars /\ DatabaseAnswers /\ Fairness

-----------------------------------------------------------------------------
(* Properties *)

\* Type invariant.
TypeOK ==
  /\ keepAlives \in BOOLEAN
  /\ pc \in [Scrapes -> {"lookup", "start", "sent", "gzip", "read", "returned"}]
  /\ hops \in [Scrapes -> 0 .. MaxHops]
  /\ conn \in [Scrapes -> {"none", "open", "idle"}]
  /\ timer \in [Scrapes -> {"off", "running"}]
  /\ status \in [Scrapes -> {"none", "ok", "client_error", "other"}]
  /\ delimited \in [Scrapes -> BOOLEAN]
  /\ body \in [Scrapes -> {"none", "coming", "whole", "cut", "late"}]
  /\ answer \in [Scrapes -> {"ok", "client_error", "failure", None}]

\* A scrape that returned holds its connection only after a response with a
\* status other than 200, whose body nobody closes, and then the client's
\* timer is still running; every other end of a scrape, a broken gzip stream
\* or text among them, has closed the body.
HeldOnlyAfterBadStatus ==
  \A s \in Scrapes :
    pc[s] = "returned" /\ conn[s] = "open" =>
      status[s] \in {"client_error", "other"} /\ timer[s] = "running"

\* Metrics come from a response with status 200 whose body arrived whole, never
\* from what came before the instance or the network cut it off or the client's
\* timeout fired.  The exception is a cut body that ends by closing the
\* connection: the program cannot tell a cut from its end.  A client error is
\* answered exactly when the instance sent one.
AnswerFromWholeResponse ==
  \A s \in Scrapes :
    /\ answer[s] = "ok" =>
         /\ status[s] = "ok"
         /\ body[s] = "whole" \/ (body[s] = "cut" /\ ~ delimited[s])
    /\ (answer[s] = "client_error" <=> status[s] = "client_error")

\* No connection is held for ever, although the body of a response with
\* another status is never closed: in the end the timers release it.
EveryConnectionReleased ==
  \A s \in Scrapes : (pc[s] = "returned") ~> (conn[s] = "none")

Contract == INSTANCE ScrapeContract

\* Whatever the instance does, silence and endless redirects included, every
\* scrape ends, once and with one of the answers the pool of workers expects,
\* if the database answers.
ImplementsContract == Contract!Spec
=============================================================================
