--------------------------- MODULE Scraper_proofs ---------------------------
(***************************************************************************)
(* Proofs about Scraper.tla, for any number of scrapes and of redirects.   *)
(***************************************************************************)
EXTENDS Scraper, TLAPS

\* Where a scrape stands and what it holds there.
StageOK(s) ==
  /\ pc[s] \in {"lookup", "start"} =>
       conn[s] = "none" /\ timer[s] = "off" /\ status[s] = "none" /\ answer[s] = None
       /\ body[s] = "none"
  /\ pc[s] = "sent" =>
       conn[s] = "open" /\ timer[s] = "running" /\ status[s] = "none" /\ answer[s] = None
       /\ body[s] = "none"
  /\ pc[s] \in {"gzip", "read"} =>
       /\ status[s] = "ok" /\ answer[s] = None
       /\ conn[s] # "idle" /\ (conn[s] = "open" <=> timer[s] = "running")
  /\ pc[s] = "returned" =>
       /\ answer[s] # None
       /\ (conn[s] = "open" <=> timer[s] = "running")
       /\ timer[s] = "running" => status[s] \in {"client_error", "other"}
       /\ answer[s] = "ok" => status[s] = "ok" /\ EndOfBody(s)
       /\ (answer[s] = "client_error" <=> status[s] = "client_error")

ScraperInv == TypeOK /\ \A s \in Scrapes : StageOK(s)

LEMMA InitInv == Init => ScraperInv
BY ScraperAssumption DEF Init, ScraperInv, TypeOK, StageOK

Steps(s) == Instance(s) \/ Program(s) \/ Timeout(s) \/ IdleTimeout(s)

\* Every step is one of a single scrape.
LEMMA OthersUnchanged ==
  ASSUME TypeOK, NEW s \in Scrapes, Steps(s)
  PROVE  /\ TypeOK'
         /\ \A t \in Scrapes \ {s} : StageOK(t) => StageOK(t)'
         /\ \A t \in Scrapes \ {s} : answer'[t] = answer[t]
<1> USE ScraperAssumption DEF TypeOK, Returns, BodyEnds, BodyClosed, Abandons, reply
<1>1. TypeOK'
  <2>1. CASE DoFails(s) \/ NewReaderGzip(s) \/ Parsed(s)
    BY <2>1 DEF DoFails, NewReaderGzip, Parsed
  <2>2. ASSUME NEW sameHost \in BOOLEAN, CheckRedirect(s, sameHost) PROVE TypeOK'
    BY <2>2 DEF CheckRedirect
  <2>3. ASSUME NEW code \in {"client_error", "other"},
               BadStatusWithBody(s, code) \/ BadStatusNoBody(s, code)
        PROVE  TypeOK'
    BY <2>3 DEF BadStatusWithBody, BadStatusNoBody, BadStatus
  <2>4. ASSUME NEW encoding \in {"gzip", "identity"}, NEW framed \in BOOLEAN,
               Response(s, encoding, framed)
        PROVE  TypeOK'
    BY <2>4 DEF Response
  <2>7. ASSUME NEW fate \in {"whole", "cut"}, BodyArrives(s, fate) PROVE TypeOK'
    BY <2>7 DEF BodyArrives
  <2>5. CASE Program(s)
    BY <2>5 DEF Program, LookUp, NewRequestFails, Do, GzipFails, ParseFails
  <2>6. CASE Timeout(s) \/ IdleTimeout(s)
    BY <2>6 DEF Timeout, IdleTimeout
  <2> QED
    BY <2>1, <2>2, <2>3, <2>4, <2>5, <2>6, <2>7 DEF Steps, Instance
<1>2. \A t \in Scrapes \ {s} :
        /\ pc'[t] = pc[t] /\ conn'[t] = conn[t] /\ timer'[t] = timer[t]
        /\ status'[t] = status[t] /\ answer'[t] = answer[t]
        /\ delimited'[t] = delimited[t] /\ body'[t] = body[t]
  <2>1. CASE Instance(s)
    BY <2>1 DEF Instance, DoFails, CheckRedirect, BadStatusWithBody, BadStatusNoBody,
       BadStatus, Response, BodyArrives, NewReaderGzip, Parsed
  <2>2. CASE Program(s)
    BY <2>2 DEF Program, LookUp, NewRequestFails, Do, GzipFails, ParseFails
  <2>3. CASE Timeout(s) \/ IdleTimeout(s)
    BY <2>3 DEF Timeout, IdleTimeout
  <2> QED
    BY <2>1, <2>2, <2>3 DEF Steps
<1>3. \A t \in Scrapes \ {s} : StageOK(t) => StageOK(t)'
  BY <1>2 DEF StageOK, EndOfBody
<1> QED
  BY <1>1, <1>2, <1>3

\* The scrape that takes the step.
LEMMA StageStep ==
  ASSUME TypeOK, NEW s \in Scrapes, StageOK(s), Steps(s)
  PROVE  StageOK(s)'
<1> USE ScraperAssumption DEF TypeOK, StageOK, Returns, BodyEnds, BodyClosed, Abandons, reply,
      EndOfBody
<1>1. CASE DoFails(s)
  BY <1>1 DEF DoFails
<1>2. ASSUME NEW sameHost \in BOOLEAN, CheckRedirect(s, sameHost) PROVE StageOK(s)'
  BY <1>2 DEF CheckRedirect
<1>3. ASSUME NEW code \in {"client_error", "other"},
             BadStatusWithBody(s, code) \/ BadStatusNoBody(s, code)
      PROVE  StageOK(s)'
  BY <1>3 DEF BadStatusWithBody, BadStatusNoBody, BadStatus
<1>4. ASSUME NEW encoding \in {"gzip", "identity"}, NEW framed \in BOOLEAN,
             Response(s, encoding, framed)
      PROVE  StageOK(s)'
  BY <1>4 DEF Response
<1>5. CASE NewReaderGzip(s)
  BY <1>5 DEF NewReaderGzip
<1>6. CASE Parsed(s)
  BY <1>6 DEF Parsed
<1>7. CASE LookUp(s) \/ NewRequestFails(s) \/ Do(s)
  BY <1>7 DEF LookUp, NewRequestFails, Do
<1>8. CASE GzipFails(s) \/ ParseFails(s)
  BY <1>8 DEF GzipFails, ParseFails
<1>9. CASE Timeout(s)
  BY <1>9 DEF Timeout
<1>10. CASE IdleTimeout(s)
  BY <1>10 DEF IdleTimeout
<1>11. ASSUME NEW fate \in {"whole", "cut"}, BodyArrives(s, fate) PROVE StageOK(s)'
  BY <1>11 DEF BodyArrives
<1> QED
  BY <1>1, <1>2, <1>3, <1>4, <1>5, <1>6, <1>7, <1>8, <1>9, <1>10, <1>11
  DEF Steps, Instance, Program

\* An answer is given once.
LEMMA AnswerStep ==
  ASSUME TypeOK, NEW s \in Scrapes, StageOK(s), Steps(s), answer'[s] # answer[s]
  PROVE  answer[s] = None /\ answer'[s] \in Contract!Kinds
<1>1. CASE Instance(s)
  BY <1>1 DEF Instance, DoFails, CheckRedirect, BadStatusWithBody, BadStatusNoBody, BadStatus,
     Response, BodyArrives, NewReaderGzip, Parsed, Returns, TypeOK, StageOK, Contract!Kinds
<1>2. CASE Program(s)
  BY <1>2 DEF Program, LookUp, NewRequestFails, Do, GzipFails, ParseFails, Returns,
     TypeOK, StageOK, Contract!Kinds
<1>3. CASE Timeout(s) \/ IdleTimeout(s)
  BY <1>3 DEF Timeout, IdleTimeout, Returns, TypeOK, StageOK, Contract!Kinds
<1> QED
  BY <1>1, <1>2, <1>3 DEF Steps

LEMMA StepInv == ScraperInv /\ [Next]_vars => ScraperInv'
<1> SUFFICES ASSUME ScraperInv, [Next]_vars PROVE ScraperInv'
  OBVIOUS
<1>1. CASE Next
  <2>1. PICK s \in Scrapes : Steps(s)
    BY <1>1 DEF Next, Steps
  <2> QED
    BY <2>1, OthersUnchanged, StageStep DEF ScraperInv
<1>2. CASE UNCHANGED vars
  BY <1>2 DEF vars, ScraperInv, TypeOK, StageOK, EndOfBody
<1> QED
  BY <1>1, <1>2

\* The inductive invariant of a scrape's stages (Scrape and Metric).
THEOREM ScraperInvariant == Spec => []ScraperInv
BY InitInv, StepInv, PTL DEF Spec

\* Type correctness of the scrapes.
THEOREM ScraperTypeCorrect == Spec => []TypeOK
<1>1. ScraperInv => TypeOK
  BY DEF ScraperInv
<1> QED
  BY <1>1, ScraperInvariant, PTL

\* A connection outlives its scrape only after a status other than 200, with
\* the client's timer running (scrape.go:89).
THEOREM HeldOnlyAfterBadStatusAlways == Spec => []HeldOnlyAfterBadStatus
<1>1. ScraperInv => HeldOnlyAfterBadStatus
  BY DEF ScraperInv, StageOK, HeldOnlyAfterBadStatus, TypeOK
<1> QED
  BY <1>1, ScraperInvariant, PTL

\* Metrics come from a body that arrived whole, or whose framing cannot tell a
\* cut from its end; client errors from a response of that status (Scrape,
\* Metric).
THEOREM AnswerFromWholeResponseAlways == Spec => []AnswerFromWholeResponse
<1>1. ScraperInv => AnswerFromWholeResponse
  BY ScraperAssumption
  DEF ScraperInv, StageOK, AnswerFromWholeResponse, TypeOK, EndOfBody
<1> QED
  BY <1>1, ScraperInvariant, PTL

\* The safety part of the contract with the pool (Metric): a scrape is answered
\* at most once, and with one of the answers the workers tell apart.
THEOREM ScrapesAnsweredOnce == Spec => Contract!Init /\ [][Contract!Next]_answer
<1>1. Init => Contract!Init
  BY DEF Init, Contract!Init
<1>2. ScraperInv /\ [Next]_vars => [Contract!Next]_answer
  <2> SUFFICES ASSUME ScraperInv, [Next]_vars, answer' # answer
               PROVE  Contract!Next
    OBVIOUS
  <2>1. PICK s \in Scrapes : Steps(s)
    BY DEF Next, Steps, vars
  <2>2. TypeOK /\ StageOK(s)
    BY DEF ScraperInv
  <2>3. TypeOK' /\ \A t \in Scrapes \ {s} : answer'[t] = answer[t]
    BY <2>1, <2>2, OthersUnchanged
  <2>4. answer' = [answer EXCEPT ![s] = answer'[s]]
    BY <2>2, <2>3 DEF TypeOK
  <2>5. answer'[s] # answer[s]
    BY <2>2, <2>4 DEF TypeOK
  <2>6. answer[s] = None /\ answer'[s] \in Contract!Kinds
    BY <2>1, <2>2, <2>5, AnswerStep
  <2> QED
    BY <2>4, <2>6 DEF Contract!Next, Contract!Answer
<1> QED
  BY <1>1, <1>2, ScraperInvariant, PTL DEF Spec
=============================================================================
