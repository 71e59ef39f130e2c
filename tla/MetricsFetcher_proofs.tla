------------------------ MODULE MetricsFetcher_proofs ------------------------
(***************************************************************************)
(* Proofs about MetricsFetcher.tla, for any number of workers, any         *)
(* requests and any names of families.                                     *)
(***************************************************************************)
EXTENDS MetricsFetcher, SequenceTheorems, FiniteSetTheorems, TLAPS

-----------------------------------------------------------------------------
(* The inductive invariant *)

Busy == {w \in Workers : job[w] # None}

\* The jobs a worker has received so far are 1 .. fed - Len(jobs); those on the
\* channel follow in order.
QueueOK ==
  /\ Len(jobs) <= fed
  /\ \A i \in 1 .. Len(jobs) : jobs[i] = fed - Len(jobs) + i

\* The handler feeds until every job is sent; from the close on all are done.
HandlerOK ==
  /\ main = "feed" <=> fed < Total
  /\ main \in {"close", "merge", "merging", "returned"} => wg = 0

WorkersOK ==
  /\ \A w \in Workers : job[w] = None <=> state[w] \in {"range", "exited"}
  /\ \A w \in Busy : job[w] <= fed - Len(jobs)
  /\ \A v, w \in Busy : job[v] = job[w] => v = w

CountOK == wg = (Total - fed) + Len(jobs) + Cardinality(Busy)

\* A worker without headers has met an exporter, so that only exporters are left.
HeadersOK ==
  /\ HeadersToInstancesOnly
  /\ \A w \in Workers : ~ headers[w] => fed - Len(jobs) > req.apps

\* A job has its answer from the end of its scrape on.
AnswersOK ==
  /\ \A j \in 1 .. Total : answer[j] # None => j <= fed - Len(jobs)
  /\ \A w \in Busy : answer[job[w]] = None <=> state[w] = "scrape"
  /\ \A j \in 1 .. fed - Len(jobs) : answer[j] = None => \E w \in Workers : job[w] = j

\* The jobs whose worker has left the critical section.
Stored(j) ==
  /\ answer[j] # None
  /\ \A w \in Workers : job[w] = j => state[w] # "answered"

ErrorOK ==
  errFetch # None <=> \E j \in 1 .. Total : Stored(j) /\ ClientError(j)

\* src[i] is the source of entry i: a broken exporter or a stored job, each once.
Ledger(src) ==
  /\ \A i, k \in 1 .. Len(unmerged) : src[i] = src[k] => i = k
  /\ \A s \in Sources :
       (\E i \in 1 .. Len(unmerged) : src[i] = s)
         <=> (s > 0 => Stored(s) /\ ~ ClientError(s))
  /\ \A i \in 1 .. Len(unmerged) :
       unmerged[i] = [f \in Exposed(src[i]) |-> <<src[i]>>]

\* The sequence q holds the members of the set M, each once.
Lists(q, M) ==
  /\ \A m, n \in 1 .. Len(q) : q[m] = q[n] => m = n
  /\ \A n \in 1 .. Len(q) : q[n] \in M
  /\ \A s \in M : \E n \in 1 .. Len(q) : q[n] = s

\* The sources among the first n that have family f.
Having(src, n, f) ==
  {s \in Sources : \E i \in 1 .. n : src[i] = s /\ f \in Exposed(s)}

\* base holds the samples of the entries before next, each once.
MergedSoFar(src) ==
  \A f \in Names :
    /\ f \in DOMAIN base <=> Having(src, next - 1, f) # {}
    /\ f \in DOMAIN base => Lists(base[f], Having(src, next - 1, f))

LedgerOK ==
  \E src \in [1 .. Len(unmerged) -> Sources] :
    /\ Ledger(src)
    /\ errFetch = None => MergedSoFar(src)

\* The merge: it starts with the first entry, ends with the last, and does not
\* start when there is an error to return.
MergeOK ==
  /\ main \notin {"merging", "returned"} => next = 1 /\ base = << >>
  /\ errFetch # None => next = 1 /\ base = << >>
  /\ main = "merging" => errFetch = None
  /\ main = "returned" /\ errFetch = None => next = Len(unmerged) + 1

PoolInv ==
  /\ TypeOK
  /\ QueueOK
  /\ HandlerOK
  /\ WorkersOK
  /\ CountOK
  /\ HeadersOK
  /\ AnswersOK
  /\ ErrorOK
  /\ LedgerOK
  /\ MergeOK

-----------------------------------------------------------------------------
(* Facts every step needs *)

LEMMA Sizes ==
  ASSUME req \in RequestKinds
  PROVE  /\ req.apps \in Nat \ {0} /\ req.exts \in Nat /\ req.bad \in Nat
         /\ Total \in Nat \ {0} /\ req.apps <= Total
         /\ req.exts + req.bad > 0 => req.configured
         /\ req.configured \in BOOLEAN
BY RequestsAssumption DEF Total

LEMMA NoneIsApart == None \notin Nat /\ None \notin Answers
BY NoneAssumption

\* What the channel holds.
LEMMA HeadOfJobs ==
  ASSUME TypeOK, QueueOK, jobs # << >>
  PROVE  /\ Len(jobs) \in Nat \ {0} /\ fed \in Nat
         /\ Head(jobs) = fed - Len(jobs) + 1
         /\ Head(jobs) \in 1 .. Total
         /\ Tail(jobs) \in Seq(1 .. Total)
         /\ Len(Tail(jobs)) = Len(jobs) - 1
         /\ \A i \in 1 .. Len(Tail(jobs)) : Tail(jobs)[i] = jobs[i + 1]
<1>1. jobs \in Seq(1 .. Total) /\ fed \in Nat
  BY Sizes DEF TypeOK
<1>2. Len(jobs) \in Nat \ {0}
  BY <1>1
<1>3. Head(jobs) = jobs[1] /\ jobs[1] = fed - Len(jobs) + 1
  BY <1>1, <1>2 DEF QueueOK
<1>4. Head(jobs) \in 1 .. Total
  BY <1>1, HeadTailProperties
<1>5. /\ Tail(jobs) \in Seq(1 .. Total)
      /\ Len(Tail(jobs)) = Len(jobs) - 1
      /\ \A i \in 1 .. Len(Tail(jobs)) : Tail(jobs)[i] = jobs[i + 1]
  BY <1>1, HeadTailProperties
<1> QED
  BY <1>1, <1>2, <1>3, <1>4, <1>5

\* The request does not change, nor what is computed from it.
LEMMA SameRequest ==
  ASSUME [Next]_vars
  PROVE  /\ req' = req /\ Total' = Total /\ Sources' = Sources
         /\ \A j : IsExporter(j)' = IsExporter(j)
<1>1. req' = req
  BY DEF Next, Handler, Worker, Feed, Wait, Close, Merge, MergeNext, Return, Take,
         Scrape, StoreError, StoreMetrics, Done, Exit, vars
<1> QED
  BY <1>1 DEF Total, Sources, IsExporter

\* A worker that holds a job; its job and its answer have their types.
LEMMA AtWork ==
  ASSUME TypeOK, WorkersOK, AnswersOK, NEW w \in Workers,
         state[w] \in {"scrape", "answered", "done"}
  PROVE  /\ w \in Busy /\ job[w] \in 1 .. Total
         /\ state[w] # "scrape" => answer[job[w]] \in Answers
<1>1. job[w] # None /\ job[w] \in 1 .. Total
  BY DEF WorkersOK, TypeOK
<1>2. w \in Busy
  BY <1>1 DEF Busy
<1>3. state[w] # "scrape" => answer[job[w]] # None
  BY <1>2 DEF AnswersOK
<1> QED
  BY <1>1, <1>2, <1>3 DEF TypeOK

LEMMA BusyIsFinite == IsFiniteSet(Busy) /\ Cardinality(Busy) \in Nat
<1>1. IsFiniteSet(Busy)
  BY WorkersAssumption, FS_Subset DEF Busy
<1> QED
  BY <1>1, FS_CardinalityType

\* The WaitGroup counts a worker that holds a job.
LEMMA CountsWorker ==
  ASSUME TypeOK, QueueOK, WorkersOK, CountOK, NEW w \in Workers,
         state[w] \in {"scrape", "answered", "done"}
  PROVE  wg \in Nat \ {0}
<1>1. w \in Busy
  BY DEF WorkersOK, Busy
<1>2. Cardinality(Busy) # 0
  BY <1>1, BusyIsFinite, FS_EmptySet
<1>3. Total \in Nat /\ fed \in 0 .. Total /\ Len(jobs) \in Nat
  BY Sizes DEF TypeOK
<1> QED
  BY <1>2, <1>3, BusyIsFinite DEF CountOK

\* What a worker adds to metricsUnmerged.
LEMMA CollectedType ==
  ASSUME TypeOK, NEW j \in 1 .. Total, NEW a \in Answers
  PROVE  /\ j \in Sources
         /\ DOMAIN Collected(j, a) \in SUBSET Names
         /\ Collected(j, a) = [f \in DOMAIN Collected(j, a) |-> <<j>>]
         /\ Collected(j, a) \in [DOMAIN Collected(j, a) -> {<<s>> : s \in Sources}]
<1>1. j \in Sources
  BY Sizes DEF TypeOK, Sources
<1>2. DOMAIN Collected(j, a) \in SUBSET Names
  BY DEF Collected, Names, Answers
<1>3. Collected(j, a) = [f \in DOMAIN Collected(j, a) |-> <<j>>]
  BY DEF Collected
<1> QED
  BY <1>1, <1>2, <1>3

LEMMA EntryType ==
  ASSUME NEW S, NEW F, NEW e \in [F -> {<<s>> : s \in S}]
  PROVE  DOMAIN e = F /\ e \in [DOMAIN e -> Seq(S)]
<1>1. ASSUME NEW f \in F PROVE e[f] \in Seq(S)
  <2>1. PICK s \in S : e[f] = <<s>>
    BY Zenon
  <2> QED
    BY <2>1
<1> QED
  BY <1>1

LEMMA MergeIntoType ==
  ASSUME NEW S, NEW F, NEW b, NEW m,
         DOMAIN b \subseteq F, b \in [DOMAIN b -> Seq(S)],
         DOMAIN m \subseteq F, m \in [DOMAIN m -> Seq(S)]
  PROVE  /\ DOMAIN MergeInto(b, m) = DOMAIN b \cup DOMAIN m
         /\ MergeInto(b, m) \in [DOMAIN b \cup DOMAIN m -> Seq(S)]
<1> DEFINE D == DOMAIN b \cup DOMAIN m
           V(k) == IF k \notin DOMAIN m THEN b[k]
                   ELSE IF k \notin DOMAIN b THEN m[k] ELSE b[k] \o m[k]
<1>1. ASSUME NEW k \in D PROVE V(k) \in Seq(S)
  <2>1. k \in DOMAIN b => b[k] \in Seq(S)
    OBVIOUS
  <2>2. k \in DOMAIN m => m[k] \in Seq(S)
    OBVIOUS
  <2> QED
    BY <1>1, <2>1, <2>2, ConcatProperties
<1>2. MergeInto(b, m) = [k \in D |-> V(k)]
  BY DEF MergeInto
<1>3. MergeInto(b, m) \in [D -> Seq(S)]
  <2> HIDE DEF V, D
  <2> QED
    BY <1>1, <1>2
<1> QED
  BY <1>2, <1>3

LEMMA TypeInit == Init => TypeOK
<1> SUFFICES ASSUME Init PROVE TypeOK
  OBVIOUS
<1> USE DEF Init
<1>1. /\ req.apps \in Nat \ {0} /\ req.exts \in Nat /\ req.bad \in Nat
      /\ Total \in Nat \ {0}
  BY Sizes
<1>2. ASSUME NEW i \in 1 .. req.bad
      PROVE  BadExporter(i) \in UNION {[F -> {<<s>> : s \in Sources}] : F \in SUBSET Names}
  <2>1. 0 - i \in Sources
    BY <1>1, <1>2 DEF Sources
  <2>2. BadExporter(i) \in [{"promfetcher_scrape_external_exporter_error"}
                              -> {<<s>> : s \in Sources}]
    BY <2>1 DEF BadExporter
  <2> QED
    BY <2>2 DEF Names
<1>3. unmerged \in Seq(UNION {[F -> {<<s>> : s \in Sources}] : F \in SUBSET Names})
  <2> DEFINE E == UNION {[F -> {<<s>> : s \in Sources}] : F \in SUBSET Names}
  <2>1. \A i \in 1 .. req.bad : BadExporter(i) \in E
    BY <1>2
  <2> HIDE DEF E
  <2>2. unmerged \in [1 .. req.bad -> E]
    BY <2>1
  <2>3. unmerged \in Seq(E)
    BY <1>1, <2>2, SeqDef
  <2> QED
    BY <2>3 DEF E
<1>4. next \in 1 .. Len(unmerged) + 1
  BY <1>1
<1>5. DOMAIN base \subseteq Names /\ base \in [DOMAIN base -> Seq(Sources)]
  OBVIOUS
<1> QED
  BY <1>1, <1>3, <1>4, <1>5 DEF TypeOK

LEMMA TypeStep ==
  ASSUME PoolInv, [Next]_vars
  PROVE  TypeOK'
<1>0. TypeOK /\ QueueOK /\ WorkersOK /\ CountOK /\ AnswersOK /\ MergeOK
  BY DEF PoolInv
<1>s. /\ req.apps \in Nat \ {0} /\ req.exts \in Nat /\ req.bad \in Nat
      /\ Total \in Nat \ {0}
  BY <1>0, Sizes DEF TypeOK
<1>r. req' = req /\ Total' = Total /\ Sources' = Sources
  BY SameRequest
<1>1. CASE Feed
  <2>1. jobs' \in Seq(1 .. Total) /\ fed' \in 0 .. Total
    BY <1>0, <1>1, <1>s DEF Feed, TypeOK
  <2> QED
    BY <1>0, <1>1, <1>r, <2>1 DEF Feed, TypeOK
<1>2. CASE Wait \/ Close \/ Return \/ UNCHANGED vars
  BY <1>0, <1>2, <1>r DEF Wait, Close, Return, TypeOK, vars
<1>3. CASE Merge
  <2>1. CASE errFetch # None \/ unmerged = << >>
    BY <1>0, <1>3, <1>r, <2>1 DEF Merge, TypeOK
  <2>2. CASE ~ (errFetch # None \/ unmerged = << >>)
    <3>1. /\ main' = "merging" /\ base' = unmerged[1] /\ next' = 2
          /\ UNCHANGED <<fed, jobs, closed, wg, state, job, headers, answer, unmerged, errFetch>>
      BY <1>3, <2>2 DEF Merge
    <3>2. /\ Len(unmerged) \in Nat \ {0}
          /\ unmerged[1] \in UNION {[F -> {<<s>> : s \in Sources}] : F \in SUBSET Names}
      BY <1>0, <2>2 DEF TypeOK
    <3>3. PICK F \in SUBSET Names : unmerged[1] \in [F -> {<<s>> : s \in Sources}]
      BY <3>2
    <3>4. DOMAIN base' \subseteq Names /\ base' \in [DOMAIN base' -> Seq(Sources)]
      BY <3>1, <3>3, EntryType
    <3>5. next' \in 1 .. Len(unmerged) + 1
      BY <3>1, <3>2
    <3> QED
      BY <1>0, <1>r, <3>1, <3>4, <3>5 DEF TypeOK
  <2> QED
    BY <2>1, <2>2
<1>4. CASE MergeNext
  <2>0. unmerged[next] \in UNION {[F -> {<<s>> : s \in Sources}] : F \in SUBSET Names}
    <3>1. next \in 1 .. Len(unmerged)
      BY <1>0, <1>4 DEF MergeNext, TypeOK
    <3>2. unmerged \in Seq(UNION {[F -> {<<s>> : s \in Sources}] : F \in SUBSET Names})
      BY <1>0 DEF TypeOK
    <3> QED
      BY <3>1, <3>2, ElementOfSeq, Zenon
  <2>1. PICK F \in SUBSET Names : unmerged[next] \in [F -> {<<s>> : s \in Sources}]
    BY <2>0
  <2>2. /\ DOMAIN unmerged[next] \subseteq Names
        /\ unmerged[next] \in [DOMAIN unmerged[next] -> Seq(Sources)]
    BY <2>1, EntryType
  <2>a. DOMAIN base \subseteq Names /\ base \in [DOMAIN base -> Seq(Sources)]
    BY <1>0 DEF TypeOK
  <2>b. base' = MergeInto(base, unmerged[next])
    BY <1>4 DEF MergeNext
  <2>c. /\ DOMAIN MergeInto(base, unmerged[next]) = DOMAIN base \cup DOMAIN unmerged[next]
        /\ MergeInto(base, unmerged[next])
             \in [DOMAIN base \cup DOMAIN unmerged[next] -> Seq(Sources)]
    BY <2>2, <2>a, MergeIntoType
  <2>3. DOMAIN base' \subseteq Names /\ base' \in [DOMAIN base' -> Seq(Sources)]
    BY <2>2, <2>a, <2>b, <2>c
  <2>4. next' \in 1 .. Len(unmerged) + 1
    BY <1>0, <1>4 DEF TypeOK, MergeNext
  <2> QED
    BY <1>0, <1>4, <1>r, <2>3, <2>4 DEF TypeOK, MergeNext
<1>5. ASSUME NEW w \in Workers, Take(w) PROVE TypeOK'
  <2>1. Head(jobs) \in 1 .. Total /\ Tail(jobs) \in Seq(1 .. Total)
    BY <1>0, <1>5, HeadOfJobs DEF Take
  <2>2. headers' \in [Workers -> BOOLEAN]
    BY <1>0, <1>5 DEF TypeOK, Take
  <2>3. /\ job' \in [Workers -> (1 .. Total) \cup {None}]
        /\ state' \in [Workers -> {"range", "scrape", "answered", "done", "exited"}]
    BY <1>0, <1>5, <2>1 DEF TypeOK, Take
  <2> QED
    BY <1>0, <1>5, <1>r, <2>1, <2>2, <2>3 DEF TypeOK, Take
<1>6. ASSUME NEW w \in Workers, Scrape(w) \/ StoreError(w) \/ Exit(w) PROVE TypeOK'
  <2>1. CASE Scrape(w)
    <3>1. PICK a \in Answers : answer' = [answer EXCEPT ![job[w]] = a]
      BY <2>1 DEF Scrape
    <3>2. answer' \in [1 .. Total -> Answers \cup {None}]
      BY <1>0, <3>1 DEF TypeOK
    <3> QED
      BY <1>0, <1>r, <2>1, <3>2 DEF TypeOK, Scrape
  <2>2. CASE StoreError(w)
    <3>1. job[w] \in 1 .. Total
      BY <1>0, <2>2, AtWork DEF StoreError
    <3> QED
      BY <1>0, <1>r, <2>2, <3>1 DEF TypeOK, StoreError
  <2>3. CASE Exit(w)
    BY <1>0, <1>r, <2>3 DEF TypeOK, Exit
  <2> QED
    BY <1>6, <2>1, <2>2, <2>3
<1>7. ASSUME NEW w \in Workers, StoreMetrics(w) PROVE TypeOK'
  <2>1. job[w] \in 1 .. Total /\ answer[job[w]] \in Answers
    BY <1>0, <1>7, AtWork DEF StoreMetrics
  <2>2. Collected(job[w], answer[job[w]])
          \in UNION {[F -> {<<s>> : s \in Sources}] : F \in SUBSET Names}
    BY <1>0, <2>1, CollectedType
  <2>3. /\ unmerged' \in Seq(UNION {[F -> {<<s>> : s \in Sources}] : F \in SUBSET Names})
        /\ Len(unmerged') = Len(unmerged) + 1
    BY <1>0, <1>7, <2>2 DEF TypeOK, StoreMetrics
  <2>4. next' \in 1 .. Len(unmerged') + 1
    BY <1>0, <1>7, <2>3 DEF TypeOK, StoreMetrics
  <2> QED
    BY <1>0, <1>7, <1>r, <2>3, <2>4 DEF TypeOK, StoreMetrics
<1>8. ASSUME NEW w \in Workers, Done(w) PROVE TypeOK'
  <2>1. wg \in Nat \ {0}
    BY <1>0, <1>8, CountsWorker DEF Done
  <2>2. wg' \in Nat
    BY <1>8, <2>1 DEF Done
  <2> QED
    BY <1>0, <1>8, <1>r, <2>2 DEF TypeOK, Done
<1> QED
  BY <1>1, <1>2, <1>3, <1>4, <1>5, <1>6, <1>7, <1>8 DEF Next, Handler, Worker

-----------------------------------------------------------------------------
(* The channel, the workers and the WaitGroup *)

\* Which jobs are on the channel and which were received, after each step.
LEMMA FeedEffect ==
  ASSUME TypeOK, QueueOK, Feed
  PROVE  /\ fed \in Nat /\ fed' = fed + 1 /\ Len(jobs) \in Nat
         /\ Len(jobs') = Len(jobs) + 1
         /\ fed' - Len(jobs') = fed - Len(jobs)
         /\ QueueOK'
<1>1. /\ jobs \in Seq(1 .. Total) /\ fed \in Nat /\ fed + 1 \in 1 .. Total
      /\ Len(jobs) \in Nat /\ Len(jobs) <= fed
  BY Sizes DEF TypeOK, QueueOK, Feed
<1>2. /\ jobs' \in Seq(1 .. Total)
      /\ Len(jobs') = Len(jobs) + 1
      /\ \A i \in 1 .. Len(jobs) : jobs'[i] = jobs[i]
      /\ jobs'[Len(jobs) + 1] = fed + 1
  BY <1>1, AppendProperties DEF Feed
<1>3. fed' = fed + 1
  BY DEF Feed
<1>4. ASSUME NEW i \in 1 .. Len(jobs') PROVE jobs'[i] = fed' - Len(jobs') + i
  <2>1. CASE i \in 1 .. Len(jobs)
    BY <1>1, <1>2, <1>3, <2>1 DEF QueueOK
  <2>2. CASE i = Len(jobs) + 1
    BY <1>1, <1>2, <1>3, <2>2
  <2> QED
    BY <1>1, <1>2, <2>1, <2>2
<1> QED
  BY <1>1, <1>2, <1>3, <1>4 DEF QueueOK

LEMMA TakeEffect ==
  ASSUME TypeOK, QueueOK, NEW w \in Workers, Take(w)
  PROVE  /\ fed \in Nat /\ fed' = fed /\ Len(jobs) \in Nat \ {0}
         /\ Len(jobs') = Len(jobs) - 1
         /\ fed' - Len(jobs') = fed - Len(jobs) + 1
         /\ job'[w] = fed - Len(jobs) + 1 /\ job'[w] \in 1 .. Total
         /\ \A v \in Workers : v # w => job'[v] = job[v]
         /\ QueueOK'
<1>1. /\ Len(jobs) \in Nat \ {0} /\ fed \in Nat
      /\ Head(jobs) = fed - Len(jobs) + 1 /\ Head(jobs) \in 1 .. Total
      /\ Tail(jobs) \in Seq(1 .. Total)
      /\ Len(Tail(jobs)) = Len(jobs) - 1
      /\ \A i \in 1 .. Len(Tail(jobs)) : Tail(jobs)[i] = jobs[i + 1]
  BY HeadOfJobs DEF Take
<1>2. fed' = fed /\ jobs' = Tail(jobs)
  BY DEF Take
<1>3. job'[w] = Head(jobs) /\ \A v \in Workers : v # w => job'[v] = job[v]
  BY DEF Take, TypeOK
<1>4. ASSUME NEW i \in 1 .. Len(jobs') PROVE jobs'[i] = fed' - Len(jobs') + i
  <2>1. jobs'[i] = jobs[i + 1] /\ i + 1 \in 1 .. Len(jobs)
    BY <1>1, <1>2
  <2> QED
    BY <1>1, <1>2, <2>1 DEF QueueOK
<1>5. Len(jobs) <= fed
  BY DEF QueueOK
<1> QED
  BY <1>1, <1>2, <1>3, <1>4, <1>5 DEF QueueOK

\* The steps that leave the channel alone, and those that leave all jobs alone.
SameJobs == UNCHANGED <<fed, jobs, job>>

LEMMA StepCases ==
  ASSUME [Next]_vars
  PROVE  \/ Feed
         \/ \E w \in Workers : Take(w)
         \/ \E w \in Workers : Done(w)
         \/ SameJobs
BY DEF Next, Handler, Worker, vars, SameJobs, Wait, Close, Merge, MergeNext, Return,
       Scrape, StoreError, StoreMetrics, Exit

LEMMA QueueStep ==
  ASSUME TypeOK, QueueOK, [Next]_vars
  PROVE  QueueOK'
<1>1. ASSUME NEW w \in Workers, Done(w) PROVE QueueOK'
  BY <1>1 DEF Done, QueueOK
<1>2. CASE SameJobs
  BY <1>2 DEF SameJobs, QueueOK
<1> QED
  BY <1>1, <1>2, FeedEffect, TakeEffect, StepCases

LEMMA HandlerStep ==
  ASSUME PoolInv, [Next]_vars
  PROVE  HandlerOK'
<1>0. TypeOK /\ QueueOK /\ HandlerOK /\ WorkersOK /\ CountOK
  BY DEF PoolInv
<1>r. req' = req /\ Total' = Total /\ Total \in Nat \ {0} /\ fed \in 0 .. Total
  BY <1>0, SameRequest, Sizes DEF TypeOK
<1>1. CASE Feed
  BY <1>0, <1>1, <1>r DEF Feed, HandlerOK
<1>2. CASE Wait \/ Close \/ Merge \/ MergeNext \/ Return
  BY <1>0, <1>2, <1>r DEF Wait, Close, Merge, MergeNext, Return, HandlerOK
<1>3. ASSUME NEW w \in Workers, Done(w) PROVE HandlerOK'
  <2>1. wg # 0
    BY <1>0, <1>3, CountsWorker DEF Done
  <2> QED
    BY <1>0, <1>3, <1>r, <2>1 DEF Done, HandlerOK
<1>4. CASE UNCHANGED <<main, fed, wg>>
  BY <1>0, <1>4, <1>r DEF HandlerOK
<1> QED
  BY <1>1, <1>2, <1>3, <1>4
     DEF Next, Handler, Worker, Take, Scrape, StoreError, StoreMetrics, Exit, vars

LEMMA WorkersStep ==
  ASSUME PoolInv, [Next]_vars
  PROVE  WorkersOK'
<1>0. TypeOK /\ QueueOK /\ WorkersOK
  BY DEF PoolInv
<1>t. fed \in Nat /\ Len(jobs) \in Nat
  BY <1>0, Sizes DEF TypeOK
<1>n. \A j \in 1 .. Total : j # None
  BY NoneIsApart, <1>0, Sizes DEF TypeOK
<1>j. \A w \in Busy : job[w] \in 1 .. Total
  BY <1>0 DEF TypeOK, Busy
<1>1. CASE Feed
  <2>1. fed' - Len(jobs') = fed - Len(jobs)
    BY <1>0, <1>1, FeedEffect
  <2>2. UNCHANGED <<job, state>> /\ Busy' = Busy
    BY <1>1 DEF Feed, Busy
  <2> QED
    BY <1>0, <2>1, <2>2 DEF WorkersOK
<1>2. ASSUME NEW w \in Workers, Take(w) PROVE WorkersOK'
  <2>1. /\ fed' - Len(jobs') = fed - Len(jobs) + 1
        /\ job'[w] = fed - Len(jobs) + 1 /\ job'[w] \in 1 .. Total
        /\ \A v \in Workers : v # w => job'[v] = job[v]
    BY <1>0, <1>2, TakeEffect
  <2>2. /\ state'[w] = "scrape"
        /\ \A v \in Workers : v # w => state'[v] = state[v]
    BY <1>0, <1>2 DEF Take, TypeOK
  <2>3. Busy' = Busy \cup {w}
    BY <1>n, <2>1 DEF Busy
  <2>4. \A v \in Busy : v # w => job'[v] = job[v] /\ job[v] <= fed - Len(jobs)
    BY <1>0, <2>1 DEF WorkersOK, Busy
  <2>5. \A v \in Busy' : job'[v] <= fed' - Len(jobs')
    BY <1>t, <1>j, <2>1, <2>3, <2>4
  <2>6. \A u, v \in Busy' : job'[u] = job'[v] => u = v
    <3> SUFFICES ASSUME NEW u \in Busy', NEW v \in Busy', job'[u] = job'[v], u # v
                 PROVE  FALSE
      OBVIOUS
    <3>1. CASE u = w
      BY <1>t, <1>j, <2>1, <2>3, <2>4, <3>1
    <3>2. CASE v = w
      BY <1>t, <1>j, <2>1, <2>3, <2>4, <3>2
    <3>3. CASE u # w /\ v # w
      BY <1>0, <2>3, <2>4, <3>3 DEF WorkersOK
    <3> QED
      BY <3>1, <3>2, <3>3
  <2>7. \A v \in Workers : job'[v] = None <=> state'[v] \in {"range", "exited"}
    BY <1>0, <1>n, <2>1, <2>2 DEF WorkersOK
  <2> QED
    BY <2>5, <2>6, <2>7 DEF WorkersOK
<1>3. ASSUME NEW w \in Workers, Done(w) PROVE WorkersOK'
  <2>1. /\ job'[w] = None /\ state'[w] = "range"
        /\ \A v \in Workers : v # w => job'[v] = job[v] /\ state'[v] = state[v]
        /\ UNCHANGED <<fed, jobs>>
    BY <1>0, <1>3 DEF Done, TypeOK
  <2>2. \A v \in Busy' : v \in Busy /\ job'[v] = job[v]
    BY <2>1 DEF Busy
  <2> QED
    BY <1>0, <2>1, <2>2 DEF WorkersOK
<1>4. CASE SameJobs
  <2>1. Busy' = Busy
    BY <1>4 DEF SameJobs, Busy
  <2>2. \A w \in Workers :
          (state'[w] \in {"range", "exited"}) <=> (state[w] \in {"range", "exited"})
    <3>1. ASSUME NEW w \in Workers, Scrape(w) \/ StoreError(w) \/ StoreMetrics(w) \/ Exit(w)
          PROVE  \A v \in Workers :
                   (state'[v] \in {"range", "exited"}) <=> (state[v] \in {"range", "exited"})
      BY <1>0, <3>1 DEF Scrape, StoreError, StoreMetrics, Exit, TypeOK
    <3>2. ASSUME NEW w \in Workers, Take(w) \/ Done(w) PROVE FALSE
      <4>1. job'[w] # job[w]
        BY <1>0, <1>n, <3>2, TakeEffect, AtWork DEF Done, Take, WorkersOK, TypeOK
      <4> QED
        BY <1>4, <4>1 DEF SameJobs
    <3>3. CASE UNCHANGED state
      BY <3>3
    <3> QED
      BY <3>1, <3>2, <3>3 DEF Next, Handler, Worker, Feed, Wait, Close, Merge, MergeNext,
         Return, vars
  <2> QED
    BY <1>0, <1>4, <2>1, <2>2 DEF SameJobs, WorkersOK
<1> QED
  BY <1>1, <1>2, <1>3, <1>4, StepCases

LEMMA CountStep ==
  ASSUME PoolInv, [Next]_vars
  PROVE  CountOK'
<1>0. TypeOK /\ QueueOK /\ WorkersOK /\ CountOK
  BY DEF PoolInv
<1>t. fed \in Nat /\ Len(jobs) \in Nat /\ Total \in Nat /\ Total' = Total
  BY <1>0, Sizes, SameRequest DEF TypeOK
<1>n. \A j \in 1 .. Total : j # None
  BY NoneIsApart, <1>t
<1>1. CASE Feed
  <2>1. wg' = wg /\ Busy' = Busy
    BY <1>1 DEF Feed, Busy
  <2> QED
    BY <1>0, <1>1, <1>t, <2>1, FeedEffect, BusyIsFinite DEF CountOK
<1>2. ASSUME NEW w \in Workers, Take(w) PROVE CountOK'
  <2>1. /\ fed' = fed /\ Len(jobs') = Len(jobs) - 1 /\ job'[w] \in 1 .. Total
        /\ \A v \in Workers : v # w => job'[v] = job[v]
    BY <1>0, <1>2, TakeEffect
  <2>2. w \notin Busy
    BY <1>0, <1>2 DEF Take, WorkersOK, Busy
  <2>3. Busy' = Busy \cup {w}
    BY <1>n, <2>1 DEF Busy
  <2>4. Cardinality(Busy') = Cardinality(Busy) + 1
    BY <2>2, <2>3, BusyIsFinite, FS_AddElement
  <2>5. wg' = wg
    BY <1>2 DEF Take
  <2> QED
    BY <1>0, <1>t, <2>1, <2>4, <2>5, BusyIsFinite DEF CountOK
<1>3. ASSUME NEW w \in Workers, Done(w) PROVE CountOK'
  <2>1. w \in Busy
    BY <1>0, <1>3 DEF Done, WorkersOK, Busy
  <2>2. Busy' = Busy \ {w}
    BY <1>0, <1>3 DEF Done, TypeOK, Busy
  <2>3. Cardinality(Busy') = Cardinality(Busy) - 1
    BY <2>1, <2>2, BusyIsFinite, FS_RemoveElement
  <2>4. wg' = wg - 1 /\ UNCHANGED <<fed, jobs>>
    BY <1>3 DEF Done
  <2> QED
    BY <1>0, <1>t, <2>3, <2>4, BusyIsFinite DEF CountOK
<1>4. CASE SameJobs /\ UNCHANGED wg
  BY <1>0, <1>4, <1>t DEF SameJobs, CountOK, Busy
<1> QED
  BY <1>1, <1>2, <1>3, <1>4 DEF Next, Handler, Worker, vars, SameJobs, Wait, Close, Merge,
     MergeNext, Return, Scrape, StoreError, StoreMetrics, Exit

-----------------------------------------------------------------------------
(* Headers and answers *)

LEMMA HeadersStep ==
  ASSUME PoolInv, [Next]_vars
  PROVE  HeadersOK'
<1>0. TypeOK /\ QueueOK /\ WorkersOK /\ AnswersOK /\ HeadersOK
  BY DEF PoolInv
<1>r. /\ req' = req /\ req.apps \in Nat /\ fed \in Nat /\ Len(jobs) \in Nat
      /\ Total \in Nat
  BY <1>0, SameRequest, Sizes DEF TypeOK
<1>1. CASE Feed
  <2>1. fed' - Len(jobs') = fed - Len(jobs)
    BY <1>0, <1>1, FeedEffect
  <2> QED
    BY <1>0, <1>1, <1>r, <2>1 DEF Feed, HeadersOK,
       HeadersToInstancesOnly, IsExporter
<1>2. ASSUME NEW w \in Workers, Take(w) PROVE HeadersOK'
  <2>1. /\ fed' - Len(jobs') = fed - Len(jobs) + 1
        /\ job'[w] = fed - Len(jobs) + 1
        /\ \A v \in Workers : v # w => job'[v] = job[v]
    BY <1>0, <1>2, TakeEffect
  <2>2. Head(jobs) = fed - Len(jobs) + 1
    BY <1>0, <1>2, HeadOfJobs DEF Take
  <2>3. /\ headers'[w] <=> headers[w] /\ ~ IsExporter(Head(jobs))
        /\ \A v \in Workers : v # w => headers'[v] = headers[v] /\ state'[v] = state[v]
    BY <1>0, <1>2 DEF Take, TypeOK
  <2>4. headers'[w] <=> ~ (job'[w] > req.apps)
    BY <1>0, <1>r, <2>1, <2>2, <2>3 DEF HeadersOK, HeadersToInstancesOnly, IsExporter
  <2>5. ~ headers'[w] => fed' - Len(jobs') > req.apps
    BY <1>r, <2>1, <2>4
  <2>6. ASSUME NEW v \in Workers, v # w, ~ headers'[v]
        PROVE  fed' - Len(jobs') > req.apps
    <3>1. ~ headers[v]
      BY <2>3, <2>6
    <3> QED
      BY <1>0, <1>r, <2>1, <3>1 DEF HeadersOK
  <2>7. ASSUME NEW v \in Workers, state'[v] = "scrape"
        PROVE  headers'[v] <=> ~ (job'[v] > req.apps)
    BY <1>0, <2>1, <2>3, <2>4, <2>7 DEF HeadersOK, HeadersToInstancesOnly, IsExporter
  <2> QED
    BY <1>r, <2>5, <2>6, <2>7 DEF HeadersOK, HeadersToInstancesOnly, IsExporter
<1>3. ASSUME NEW w \in Workers, Scrape(w) \/ StoreError(w) \/ StoreMetrics(w) \/ Done(w) \/ Exit(w)
      PROVE  HeadersOK'
  <2>1. UNCHANGED <<headers, fed, jobs>>
    BY <1>3 DEF Scrape, StoreError, StoreMetrics, Done, Exit
  <2>2. \A v \in Workers : state'[v] = "scrape" => state[v] = "scrape" /\ job'[v] = job[v]
    BY <1>0, <1>3 DEF Scrape, StoreError, StoreMetrics, Done, Exit, TypeOK
  <2> QED
    BY <1>0, <1>r, <2>1, <2>2 DEF HeadersOK, HeadersToInstancesOnly, IsExporter
<1>4. CASE UNCHANGED <<headers, fed, jobs, state, job>>
  BY <1>0, <1>4, <1>r DEF HeadersOK, HeadersToInstancesOnly, IsExporter
<1> QED
  BY <1>1, <1>2, <1>3, <1>4
     DEF Next, Handler, Worker, Wait, Close, Merge, MergeNext, Return, vars

LEMMA AnswersStep ==
  ASSUME PoolInv, [Next]_vars
  PROVE  AnswersOK'
<1>0. TypeOK /\ QueueOK /\ WorkersOK /\ AnswersOK
  BY DEF PoolInv
<1>t. /\ fed \in Nat /\ Len(jobs) \in Nat /\ Len(jobs) <= fed
      /\ Total \in Nat /\ Total' = Total /\ fed <= Total
  BY <1>0, Sizes, SameRequest DEF TypeOK, QueueOK
<1>n. \A j \in 1 .. Total : j # None
  BY NoneIsApart, <1>t
<1>j. \A w \in Busy : job[w] \in 1 .. Total
  BY <1>0 DEF TypeOK, Busy
<1>1. CASE Feed
  <2>1. fed' - Len(jobs') = fed - Len(jobs)
    BY <1>0, <1>1, FeedEffect
  <2>2. UNCHANGED <<job, state, answer>> /\ Busy' = Busy
    BY <1>1 DEF Feed, Busy
  <2> QED
    BY <1>0, <1>t, <2>1, <2>2 DEF AnswersOK
<1>2. ASSUME NEW w \in Workers, Take(w) PROVE AnswersOK'
  <2>1. /\ fed' - Len(jobs') = fed - Len(jobs) + 1
        /\ job'[w] = fed - Len(jobs) + 1 /\ job'[w] \in 1 .. Total
        /\ \A v \in Workers : v # w => job'[v] = job[v]
    BY <1>0, <1>2, TakeEffect
  <2>2. /\ state'[w] = "scrape" /\ answer' = answer /\ state[w] = "range"
        /\ \A v \in Workers : v # w => state'[v] = state[v]
    BY <1>0, <1>2 DEF Take, TypeOK
  <2>3. job[w] = None
    BY <1>0, <2>2 DEF WorkersOK
  <2>4. \A v \in Busy' : v # w => v \in Busy /\ job'[v] = job[v]
    BY <2>1 DEF Busy
  <2>5. \A j \in 1 .. Total : answer'[j] # None => j <= fed' - Len(jobs')
    BY <1>0, <1>t, <2>1, <2>2 DEF AnswersOK
  <2>6. answer[job'[w]] = None
    BY <1>0, <1>t, <2>1 DEF AnswersOK
  <2>7. \A v \in Busy' : answer'[job'[v]] = None <=> state'[v] = "scrape"
    <3> SUFFICES ASSUME NEW v \in Busy'
                 PROVE  answer'[job'[v]] = None <=> state'[v] = "scrape"
      OBVIOUS
    <3>1. CASE v = w
      BY <2>2, <2>6, <3>1
    <3>2. CASE v # w
      <4>1. v \in Busy /\ job'[v] = job[v] /\ state'[v] = state[v]
        BY <2>2, <2>4, <3>2 DEF Busy
      <4>2. answer[job[v]] = None <=> state[v] = "scrape"
        BY <1>0, <4>1 DEF AnswersOK
      <4> QED
        BY <2>2, <4>1, <4>2
    <3> QED
      BY <3>1, <3>2
  <2>8. ASSUME NEW j \in 1 .. fed' - Len(jobs'), answer'[j] = None
        PROVE  \E v \in Workers : job'[v] = j
    <3>1. CASE j = job'[w]
      BY <3>1
    <3>2. CASE j # job'[w]
      <4>1. j \in 1 .. fed - Len(jobs)
        BY <1>t, <2>1, <3>2
      <4>2. PICK v \in Workers : job[v] = j
        BY <1>0, <2>2, <2>8, <4>1 DEF AnswersOK
      <4>3. j # None
        BY <1>t, <4>1, <1>n
      <4> QED
        BY <2>1, <2>3, <4>2, <4>3
    <3> QED
      BY <3>1, <3>2
  <2> QED
    BY <1>t, <2>5, <2>7, <2>8 DEF AnswersOK
<1>3. ASSUME NEW w \in Workers, Scrape(w) PROVE AnswersOK'
  <2>1. w \in Busy /\ job[w] \in 1 .. Total
    BY <1>0, <1>3, AtWork DEF Scrape
  <2>2. PICK a \in Answers : answer' = [answer EXCEPT ![job[w]] = a]
    BY <1>3 DEF Scrape
  <2>3. /\ UNCHANGED <<fed, jobs, job>> /\ Busy' = Busy /\ state[w] = "scrape"
        /\ state'[w] = "answered"
        /\ \A v \in Workers : v # w => state'[v] = state[v]
    BY <1>0, <1>3 DEF Scrape, Busy, TypeOK
  <2>4. /\ answer'[job[w]] # None
        /\ \A j \in 1 .. Total : j # job[w] => answer'[j] = answer[j]
    BY <1>0, <2>1, <2>2, NoneIsApart DEF TypeOK
  <2>5. job[w] <= fed - Len(jobs)
    BY <1>0, <2>1 DEF WorkersOK
  <2>6. \A j \in 1 .. Total : answer'[j] # None => j <= fed' - Len(jobs')
    BY <1>0, <2>3, <2>4, <2>5 DEF AnswersOK
  <2>7. \A v \in Busy' : answer'[job'[v]] = None <=> state'[v] = "scrape"
    <3> SUFFICES ASSUME NEW v \in Busy
                 PROVE  answer'[job[v]] = None <=> state'[v] = "scrape"
      BY <2>3
    <3>1. CASE v = w
      BY <2>3, <2>4, <3>1
    <3>2. CASE v # w
      BY <1>0, <1>j, <2>1, <2>3, <2>4, <3>2 DEF AnswersOK, WorkersOK, Busy
    <3> QED
      BY <3>1, <3>2
  <2>8. \A j \in 1 .. fed' - Len(jobs') :
          answer'[j] = None => \E v \in Workers : job'[v] = j
    BY <1>0, <1>t, <2>3, <2>4 DEF AnswersOK
  <2> QED
    BY <1>t, <2>6, <2>7, <2>8 DEF AnswersOK
<1>4. ASSUME NEW w \in Workers, StoreError(w) \/ StoreMetrics(w) \/ Exit(w)
      PROVE  AnswersOK'
  <2>1. /\ UNCHANGED <<fed, jobs, job, answer>> /\ Busy' = Busy
        /\ \A v \in Workers : (state'[v] = "scrape") <=> (state[v] = "scrape")
    BY <1>0, <1>4 DEF StoreError, StoreMetrics, Exit, Busy, TypeOK
  <2> QED
    BY <1>0, <1>t, <2>1 DEF AnswersOK, Busy
<1>5. ASSUME NEW w \in Workers, Done(w) PROVE AnswersOK'
  <2>1. /\ UNCHANGED <<fed, jobs, answer>> /\ job'[w] = None
        /\ \A v \in Workers : v # w => job'[v] = job[v] /\ state'[v] = state[v]
    BY <1>0, <1>5 DEF Done, TypeOK
  <2>2. answer[job[w]] # None
    BY <1>0, <1>5, AtWork, NoneIsApart DEF Done
  <2>3. \A v \in Busy' : v # w /\ v \in Busy
    BY <2>1 DEF Busy
  <2> QED
    <3>1. \A j \in 1 .. Total : answer'[j] # None => j <= fed' - Len(jobs')
      BY <1>0, <2>1 DEF AnswersOK
    <3>2. ASSUME NEW v \in Busy'
          PROVE  answer'[job'[v]] = None <=> state'[v] = "scrape"
      <4>1. answer[job[v]] = None <=> state[v] = "scrape"
        BY <1>0, <2>3 DEF AnswersOK
      <4> QED
        BY <2>1, <2>3, <4>1 DEF Busy
    <3>3. ASSUME NEW j \in 1 .. fed' - Len(jobs'), answer'[j] = None
          PROVE  \E v \in Workers : job'[v] = j
      <4>1. PICK v \in Workers : job[v] = j
        BY <1>0, <2>1, <3>3 DEF AnswersOK
      <4>2. v # w
        BY <2>1, <2>2, <3>3, <4>1
      <4> QED
        BY <2>1, <4>1, <4>2
    <3> QED
      BY <1>t, <3>1, <3>2, <3>3 DEF AnswersOK
<1>6. CASE UNCHANGED <<fed, jobs, job, state, answer>>
  BY <1>0, <1>6, <1>t DEF AnswersOK, Busy
<1> QED
  BY <1>1, <1>2, <1>3, <1>4, <1>5, <1>6
     DEF Next, Handler, Worker, Wait, Close, Merge, MergeNext, Return, vars

-----------------------------------------------------------------------------
(* What is stored *)

\* Only the critical section stores a job ...
LEMMA StoredSame ==
  ASSUME PoolInv, [Next]_vars,
         ~ \E w \in Workers : StoreError(w) \/ StoreMetrics(w)
  PROVE  \A j \in 1 .. Total :
           /\ Stored(j)' <=> Stored(j)
           /\ Stored(j) => answer'[j] = answer[j]
<1>0. TypeOK /\ QueueOK /\ WorkersOK /\ AnswersOK
  BY DEF PoolInv
<1>t. fed \in Nat /\ Len(jobs) \in Nat
  BY <1>0, Sizes DEF TypeOK
<1>n. \A j \in 1 .. Total : j # None
  BY NoneIsApart, <1>0, Sizes DEF TypeOK
<1> SUFFICES ASSUME NEW j \in 1 .. Total
             PROVE  (Stored(j)' <=> Stored(j)) /\ (Stored(j) => answer'[j] = answer[j])
  OBVIOUS
<1>1. ASSUME NEW w \in Workers, Take(w)
      PROVE  (Stored(j)' <=> Stored(j)) /\ answer' = answer
  <2>1. /\ state'[w] = "scrape" /\ answer' = answer /\ state[w] = "range"
        /\ \A v \in Workers : v # w => state'[v] = state[v] /\ job'[v] = job[v]
    BY <1>0, <1>1 DEF Take, TypeOK
  <2> QED
    BY <2>1 DEF Stored
<1>2. ASSUME NEW w \in Workers, Scrape(w)
      PROVE  (Stored(j)' <=> Stored(j)) /\ (Stored(j) => answer'[j] = answer[j])
  <2>1. w \in Busy /\ job[w] \in 1 .. Total
    BY <1>0, <1>2, AtWork DEF Scrape
  <2>2. answer[job[w]] = None
    BY <1>0, <1>2, <2>1 DEF Scrape, AnswersOK
  <2>3. /\ state'[w] = "answered" /\ job' = job
        /\ \A v \in Workers : v # w => state'[v] = state[v]
        /\ j # job[w] => answer'[j] = answer[j]
    BY <1>0, <1>2 DEF Scrape, TypeOK
  <2>4. CASE j = job[w]
    BY <2>2, <2>3, <2>4 DEF Stored
  <2>5. CASE j # job[w]
    BY <2>3, <2>5 DEF Stored
  <2> QED
    BY <2>4, <2>5
<1>3. ASSUME NEW w \in Workers, Done(w) \/ Exit(w)
      PROVE  (Stored(j)' <=> Stored(j)) /\ answer' = answer
  <2>1. /\ state[w] # "answered" /\ state'[w] # "answered" /\ answer' = answer
        /\ \A v \in Workers : v # w => state'[v] = state[v] /\ job'[v] = job[v]
    BY <1>0, <1>3 DEF Done, Exit, TypeOK
  <2> QED
    BY <2>1 DEF Stored
<1>4. CASE UNCHANGED <<answer, state, job>>
  BY <1>4 DEF Stored
<1> QED
  BY <1>1, <1>2, <1>3, <1>4
     DEF Next, Handler, Worker, Feed, Wait, Close, Merge, MergeNext, Return, vars

\* ... and it stores the job of the worker in it, which was not stored yet.
LEMMA StoredMore ==
  ASSUME PoolInv, NEW w \in Workers, StoreError(w) \/ StoreMetrics(w)
  PROVE  /\ job[w] \in 1 .. Total /\ answer[job[w]] \in Answers
         /\ ~ Stored(job[w]) /\ answer' = answer /\ wg # 0
         /\ \A j \in 1 .. Total : Stored(j)' <=> Stored(j) \/ j = job[w]
<1>0. TypeOK /\ QueueOK /\ WorkersOK /\ CountOK /\ AnswersOK
  BY DEF PoolInv
<1>1. state[w] = "answered" /\ answer' = answer /\ job' = job
  BY DEF StoreError, StoreMetrics
<1>2. w \in Busy /\ job[w] \in 1 .. Total /\ answer[job[w]] \in Answers /\ wg # 0
  BY <1>0, <1>1, AtWork, CountsWorker
<1>3. ~ Stored(job[w])
  BY <1>1 DEF Stored
<1>4. state'[w] = "done" /\ \A v \in Workers : v # w => state'[v] = state[v]
  BY <1>0 DEF StoreError, StoreMetrics, TypeOK
<1>n. \A j \in 1 .. Total : j # None
  BY NoneIsApart, <1>0, Sizes DEF TypeOK
<1>5. ASSUME NEW j \in 1 .. Total PROVE Stored(j)' <=> Stored(j) \/ j = job[w]
  <2>1. CASE j = job[w]
    <3>1. \A v \in Workers : job[v] = j => v = w
      BY <1>0, <1>2, <1>n, <2>1 DEF WorkersOK, Busy
    <3>2. answer[j] # None
      BY <1>2, <2>1, NoneIsApart
    <3> QED
      BY <1>1, <1>4, <2>1, <3>1, <3>2 DEF Stored
  <2>2. CASE j # job[w]
    BY <1>1, <1>4, <2>2 DEF Stored
  <2> QED
    BY <2>1, <2>2
<1> QED
  BY <1>1, <1>2, <1>3, <1>5

\* A source that is stored exposes what it did.
LEMMA StoredStays ==
  ASSUME PoolInv, [Next]_vars, NEW s \in Sources, s > 0 => Stored(s)
  PROVE  /\ Exposed(s)' = Exposed(s)
         /\ s > 0 => ClientError(s)' = ClientError(s)
<1>0. TypeOK /\ Total \in Nat /\ req.bad \in Nat /\ req' = req
  BY Sizes, SameRequest DEF PoolInv, TypeOK
<1>1. CASE s < 0
  BY <1>0, <1>1 DEF Exposed, BadExporter, Sources
<1>2. CASE s \in 1 .. Total
  <2>1. answer'[s] = answer[s]
    BY <1>0, <1>2, StoredSame, StoredMore
  <2> QED
    BY <1>0, <1>2, <2>1 DEF Exposed, ClientError
<1> QED
  BY <1>0, <1>1, <1>2 DEF Sources

LEMMA ErrorStep ==
  ASSUME PoolInv, [Next]_vars
  PROVE  ErrorOK'
<1>0. TypeOK /\ ErrorOK /\ Total' = Total /\ req' = req
  BY SameRequest DEF PoolInv
<1>n. \A j \in 1 .. Total : j # None
  BY NoneIsApart, <1>0, Sizes DEF TypeOK
<1>1. ASSUME NEW w \in Workers, StoreError(w) PROVE ErrorOK'
  <2>1. PICK i \in 1 .. Total : i = job[w]
    BY <1>1, StoredMore
  <2>2. Stored(i)' /\ answer' = answer
    BY <1>1, <2>1, StoredMore
  <2>3. errFetch' = i /\ ClientError(i)
    BY <1>1, <2>1 DEF StoreError, ClientError
  <2>4. ClientError(i)'
    BY <1>0, <2>2, <2>3 DEF ClientError
  <2> QED
    BY <1>0, <1>n, <2>2, <2>3, <2>4 DEF ErrorOK
<1>2. ASSUME NEW w \in Workers, StoreMetrics(w) PROVE ErrorOK'
  <2>1. /\ job[w] \in 1 .. Total /\ answer' = answer
        /\ \A j \in 1 .. Total : Stored(j)' <=> Stored(j) \/ j = job[w]
    BY <1>2, StoredMore
  <2>2. errFetch' = errFetch /\ ~ ClientError(job[w])
    BY <1>2 DEF StoreMetrics, ClientError
  <2>3. \A j \in 1 .. Total : ClientError(j)' <=> ClientError(j)
    BY <1>0, <2>1 DEF ClientError
  <2> QED
    BY <1>0, <2>1, <2>2, <2>3 DEF ErrorOK
<1>3. CASE ~ \E w \in Workers : StoreError(w) \/ StoreMetrics(w)
  <2>1. \A j \in 1 .. Total :
          /\ Stored(j)' <=> Stored(j)
          /\ Stored(j) => answer'[j] = answer[j]
    BY <1>3, StoredSame
  <2>2. errFetch' = errFetch
    BY <1>3 DEF Next, Handler, Worker, Feed, Wait, Close, Merge, MergeNext, Return, Take,
         Scrape, Done, Exit, vars
  <2>3. \A j \in 1 .. Total : Stored(j) => (ClientError(j)' <=> ClientError(j))
    BY <1>0, <2>1 DEF ClientError
  <2> QED
    BY <1>0, <2>1, <2>2, <2>3 DEF ErrorOK
<1> QED
  BY <1>1, <1>2, <1>3

LEMMA MergeStep ==
  ASSUME PoolInv, [Next]_vars
  PROVE  MergeOK'
<1>0. TypeOK /\ HandlerOK /\ MergeOK
  BY DEF PoolInv
<1>t. Len(unmerged) \in Nat /\ next \in 1 .. Len(unmerged) + 1
  BY <1>0 DEF TypeOK
<1>1. ASSUME NEW w \in Workers, StoreError(w) \/ StoreMetrics(w) PROVE MergeOK'
  <2>1. main \notin {"close", "merge", "merging", "returned"}
    BY <1>0, <1>1, StoredMore DEF HandlerOK
  <2>2. main' = main /\ next' = next /\ base' = base
    BY <1>1 DEF StoreError, StoreMetrics
  <2> QED
    BY <1>0, <2>1, <2>2 DEF MergeOK, TypeOK
<1>2. CASE Merge
  <2>1. CASE errFetch # None \/ unmerged = << >>
    BY <1>0, <1>2, <1>t, <2>1 DEF Merge, MergeOK
  <2>2. CASE ~ (errFetch # None \/ unmerged = << >>)
    BY <1>0, <1>2, <1>t, <2>2 DEF Merge, MergeOK
  <2> QED
    BY <2>1, <2>2
<1>3. CASE MergeNext \/ Return
  BY <1>0, <1>3, <1>t DEF MergeNext, Return, MergeOK
<1>4. CASE Feed \/ Wait \/ Close
  BY <1>0, <1>4, <1>t DEF Feed, Wait, Close, MergeOK
<1>5. CASE UNCHANGED <<main, unmerged, errFetch, base, next>>
  BY <1>0, <1>5 DEF MergeOK
<1> QED
  BY <1>1, <1>2, <1>3, <1>4, <1>5 DEF Next, Handler, Worker, Take, Scrape, Done, Exit, vars

-----------------------------------------------------------------------------
(* The ledger *)

LEMMA SourceCases ==
  ASSUME TypeOK, NEW s \in Sources
  PROVE  /\ s \in Int /\ (s < 0 \/ s > 0)
         /\ s > 0 => s \in 1 .. Total
BY Sizes DEF TypeOK, Sources

\* Every entry has a source, which is stored.
LEMMA EntrySource ==
  ASSUME TypeOK, NEW src \in [1 .. Len(unmerged) -> Sources], Ledger(src),
         NEW i \in 1 .. Len(unmerged)
  PROVE  /\ src[i] \in Sources
         /\ src[i] > 0 => Stored(src[i]) /\ ~ ClientError(src[i])
BY DEF Ledger

LEMMA LedgerSame ==
  ASSUME PoolInv, [Next]_vars, unmerged' = unmerged,
         ~ \E w \in Workers : StoreMetrics(w),
         NEW src \in [1 .. Len(unmerged) -> Sources], Ledger(src)
  PROVE  Ledger(src)'
<1>0. TypeOK /\ Sources' = Sources
  BY SameRequest DEF PoolInv
<1>1. ASSUME NEW s \in Sources, s > 0
      PROVE  (Stored(s) /\ ~ ClientError(s))' <=> (Stored(s) /\ ~ ClientError(s))
  <2>1. s \in 1 .. Total
    BY <1>0, <1>1, SourceCases
  <2>2. Stored(s) => (ClientError(s)' <=> ClientError(s))
    BY <1>1, StoredStays
  <2>3. CASE ~ \E w \in Workers : StoreError(w) \/ StoreMetrics(w)
    <3>1. Stored(s)' <=> Stored(s)
      BY <2>1, <2>3, StoredSame
    <3> QED
      BY <2>2, <3>1
  <2>4. ASSUME NEW w \in Workers, StoreError(w)
        PROVE  (Stored(s) /\ ~ ClientError(s))' <=> (Stored(s) /\ ~ ClientError(s))
    <3>1. /\ answer' = answer /\ req' = req
          /\ Stored(s)' <=> Stored(s) \/ s = job[w]
      BY <2>1, <2>4, StoredMore DEF StoreError
    <3>2. ClientError(job[w])
      BY <2>4 DEF StoreError, ClientError
    <3>3. ClientError(s)' <=> ClientError(s)
      BY <3>1 DEF ClientError
    <3> QED
      BY <3>1, <3>2, <3>3
  <2> QED
    BY <2>3, <2>4
<1>2. \A i \in 1 .. Len(unmerged) : Exposed(src[i])' = Exposed(src[i])
  BY <1>0, EntrySource, StoredStays
<1>3. \A s \in Sources :
        (\E i \in 1 .. Len(unmerged) : src[i] = s)
          <=> (s > 0 => Stored(s)' /\ ~ ClientError(s)')
  BY <1>1 DEF Ledger
<1>4. \A i \in 1 .. Len(unmerged) :
        unmerged[i] = [f \in Exposed(src[i])' |-> <<src[i]>>]
  BY <1>2 DEF Ledger
<1> QED
  BY <1>0, <1>3, <1>4 DEF Ledger

LEMMA LedgerAppend ==
  ASSUME PoolInv, [Next]_vars, NEW w \in Workers, StoreMetrics(w), LedgerOK
  PROVE  \E src \in [1 .. Len(unmerged') -> Sources'] : Ledger(src)'
<1>0. TypeOK /\ Sources' = Sources
  BY SameRequest DEF PoolInv
<1>1. PICK src \in [1 .. Len(unmerged) -> Sources] : Ledger(src)
  BY DEF LedgerOK
<1>2. /\ job[w] \in 1 .. Total /\ answer[job[w]] \in Answers
      /\ ~ Stored(job[w]) /\ answer' = answer
      /\ \A j \in 1 .. Total : Stored(j)' <=> Stored(j) \/ j = job[w]
  BY StoredMore
<1>3. PICK j \in 1 .. Total : j = job[w]
  BY <1>2
<1>4. /\ Total \in Nat \ {0} /\ j \in Sources /\ j > 0
      /\ Collected(j, answer[j]) = [f \in DOMAIN Collected(j, answer[j]) |-> <<j>>]
  <2>1. req \in RequestKinds /\ j \in 1 .. Total /\ answer[j] \in Answers
    BY <1>0, <1>2, <1>3 DEF TypeOK
  <2>2. Total \in Nat \ {0} /\ j > 0
    BY <2>1, Sizes
  <2> QED
    BY <1>0, <2>1, <2>2, CollectedType
<1>5. unmerged' = Append(unmerged, Collected(j, answer[j])) /\ req' = req /\ ~ ClientError(j)
  BY <1>3 DEF StoreMetrics, ClientError
<1>6. Collected(j, answer[j]) = [f \in Exposed(j)' |-> <<j>>]
  BY <1>2, <1>4 DEF Exposed
<1>7. /\ Len(unmerged) \in Nat /\ Len(unmerged') = Len(unmerged) + 1
      /\ \A i \in 1 .. Len(unmerged) : unmerged'[i] = unmerged[i]
      /\ unmerged'[Len(unmerged) + 1] = Collected(j, answer[j])
  BY <1>0, <1>5, AppendProperties DEF TypeOK
<1>n. PICK n \in Nat : n = Len(unmerged)
  BY <1>7
<1>8. PICK new \in [1 .. n + 1 -> Sources] :
        new[n + 1] = j /\ \A i \in 1 .. n : new[i] = src[i]
  <2> DEFINE g == [i \in 1 .. n + 1 |-> IF i = n + 1 THEN j ELSE src[i]]
  <2>1. g \in [1 .. n + 1 -> Sources]
    BY <1>4, <1>n
  <2>2. g[n + 1] = j /\ \A i \in 1 .. n : g[i] = src[i]
    BY <1>n
  <2> HIDE DEF g
  <2> QED
    BY <2>1, <2>2
<1>9. new[n + 1] = j /\ \A i \in 1 .. n : new[i] = src[i] /\ src[i] # j
  <2>1. \A i \in 1 .. n : src[i] # j
    BY <1>1, <1>0, <1>2, <1>3, <1>4, <1>n, EntrySource
  <2> QED
    BY <1>8, <2>1
<1>10. \A i, k \in 1 .. n + 1 : new[i] = new[k] => i = k
  BY <1>1, <1>n, <1>9 DEF Ledger
<1>11. ASSUME NEW s \in Sources
       PROVE  (\E i \in 1 .. n + 1 : new[i] = s)
                <=> (s > 0 => Stored(s)' /\ ~ ClientError(s)')
  <2>1. (\E i \in 1 .. n + 1 : new[i] = s) <=> (s = j \/ \E i \in 1 .. n : src[i] = s)
    BY <1>9
  <2>2. (\E i \in 1 .. n : src[i] = s) <=> (s > 0 => Stored(s) /\ ~ ClientError(s))
    BY <1>1, <1>n DEF Ledger
  <2>3. s > 0 => (Stored(s)' <=> Stored(s) \/ s = j)
    BY <1>0, <1>2, <1>3, SourceCases
  <2>4. ClientError(s)' <=> ClientError(s)
    BY <1>2, <1>5 DEF ClientError
  <2> QED
    BY <1>4, <1>5, <2>1, <2>2, <2>3, <2>4
<1>12. ASSUME NEW i \in 1 .. n + 1
       PROVE  unmerged'[i] = [f \in Exposed(new[i])' |-> <<new[i]>>]
  <2>1. CASE i = n + 1
    <3>1. unmerged'[i] = Collected(j, answer[j]) /\ new[i] = j
      BY <1>7, <1>n, <1>9, <2>1
    <3> QED
      BY <1>6, <3>1
  <2>2. CASE i \in 1 .. n
    <3>1. Exposed(src[i])' = Exposed(src[i])
      BY <1>0, <1>1, <1>n, <2>2, EntrySource, StoredStays
    <3>2. unmerged[i] = [f \in Exposed(src[i]) |-> <<src[i]>>]
      BY <1>1, <1>n, <2>2 DEF Ledger
    <3> QED
      BY <1>7, <1>n, <1>9, <2>2, <3>1, <3>2
  <2> QED
    BY <2>1, <2>2
<1>13. Ledger(new)'
  BY <1>0, <1>7, <1>n, <1>10, <1>11, <1>12 DEF Ledger
<1> QED
  BY <1>0, <1>7, <1>n, <1>8, <1>13

-----------------------------------------------------------------------------
(* The merge *)

LEMMA ListsOne == ASSUME NEW s PROVE Lists(<<s>>, {s})
BY DEF Lists

LEMMA ListsMore ==
  ASSUME NEW S, NEW q \in Seq(S), NEW s \in S, NEW M, Lists(q, M), s \notin M
  PROVE  Lists(q \o <<s>>, M \cup {s})
<1> DEFINE r == q \o <<s>>
<1>1. /\ Len(q) \in Nat /\ Len(r) = Len(q) + 1
      /\ \A n \in 1 .. Len(q) : r[n] = q[n]
      /\ r[Len(q) + 1] = s
  OBVIOUS
<1>2. \A n \in 1 .. Len(q) : q[n] # s
  BY DEF Lists
<1> HIDE DEF r
<1>3. \A m, n \in 1 .. Len(r) : r[m] = r[n] => m = n
  BY <1>1, <1>2 DEF Lists
<1>4. ASSUME NEW x PROVE x \in M \cup {s} <=> \E n \in 1 .. Len(r) : r[n] = x
  <2>1. x \in M <=> \E n \in 1 .. Len(q) : q[n] = x
    BY DEF Lists
  <2> QED
    BY <1>1, <2>1
<1>5. Lists(r, M \cup {s})
  BY <1>3, <1>4 DEF Lists
<1> QED
  BY <1>5 DEF r

\* The number of samples is that of their sources.
LEMMA ListsCount ==
  ASSUME NEW S, NEW q \in Seq(S), NEW M, Lists(q, M)
  PROVE  M = ToSet(q) /\ Cardinality(M) = Len(q)
<1>1. Len(q) \in Nat /\ q \in [1 .. Len(q) -> S]
  OBVIOUS
<1>2. \A n \in 1 .. Len(q) : q[n] \in M
  BY DEF Lists
<1>3. q \in [1 .. Len(q) -> M]
  BY <1>1, <1>2
<1>4. q \in Bijection(1 .. Len(q), M)
  BY <1>3 DEF Lists, Bijection, Injection, Surjection, IsInjective
<1>5. IsFiniteSet(1 .. Len(q)) /\ Cardinality(1 .. Len(q)) = Len(q)
  <2>1. PICK n \in Nat : n = Len(q)
    BY <1>1
  <2>2. IsFiniteSet(1 .. n) /\ Cardinality(1 .. n) = n
    BY FS_Interval
  <2> QED
    BY <2>1, <2>2
<1>6. Cardinality(M) = Len(q)
  BY <1>4, <1>5, FS_Bijection DEF ExistsBijection
<1>7. M = ToSet(q)
  BY <1>1 DEF Lists, ToSet
<1> QED
  BY <1>6, <1>7

LEMMA ExposedNames ==
  ASSUME TypeOK, NEW s \in Sources, s > 0 => Stored(s)
  PROVE  Exposed(s) \subseteq Names
<1>1. CASE s < 0
  BY <1>1 DEF Exposed, BadExporter, Names
<1>2. CASE s \in 1 .. Total
  <2>1. answer[s] \in Answers /\ ~ (s < 0)
    BY <1>2, Sizes DEF Stored, TypeOK
  <2> QED
    BY <1>2, <2>1, CollectedType DEF Exposed
<1> QED
  BY <1>1, <1>2, SourceCases

\* What the entries before n have does not change, for they are stored.
LEMMA HavingStays ==
  ASSUME PoolInv, [Next]_vars, NEW src \in [1 .. Len(unmerged) -> Sources], Ledger(src),
         NEW n \in Nat, n <= Len(unmerged)
  PROVE  \A f \in Names : Having(src, n, f)' = Having(src, n, f)
<1>0. TypeOK /\ Sources' = Sources /\ Len(unmerged) \in Nat
  BY SameRequest DEF PoolInv, TypeOK
<1>1. \A i \in 1 .. n : Exposed(src[i])' = Exposed(src[i])
  BY <1>0, EntrySource, StoredStays
<1> QED
  BY <1>0, <1>1 DEF Having

\* One more entry: its source joins those of the families it has.
LEMMA HavingNext ==
  ASSUME TypeOK, NEW src \in [1 .. Len(unmerged) -> Sources], Ledger(src),
         NEW n \in 1 .. Len(unmerged), NEW f
  PROVE  /\ src[n] \notin Having(src, n - 1, f)
         /\ Having(src, n, f) =
              IF f \in Exposed(src[n]) THEN Having(src, n - 1, f) \cup {src[n]}
              ELSE Having(src, n - 1, f)
<1>1. Len(unmerged) \in Nat /\ n \in Nat \ {0}
  BY DEF TypeOK
<1>2. \A i \in 1 .. n - 1 : src[i] # src[n]
  BY <1>1 DEF Ledger
<1>3. \A i : i \in 1 .. n <=> i \in 1 .. n - 1 \/ i = n
  BY <1>1
<1>4. src[n] \in Sources
  OBVIOUS
<1> QED
  BY <1>2, <1>3, <1>4 DEF Having

\* Entry n is merged.
LEMMA MergeEntry ==
  ASSUME TypeOK, NEW src \in [1 .. Len(unmerged) -> Sources], Ledger(src),
         NEW n \in 1 .. Len(unmerged), n = next, MergedSoFar(src),
         NEW f \in Names
  PROVE  LET b == MergeInto(base, unmerged[n])
         IN  /\ f \in DOMAIN b <=> Having(src, n, f) # {}
             /\ f \in DOMAIN b => Lists(b[f], Having(src, n, f))
<1> DEFINE b == MergeInto(base, unmerged[n])
           e == Exposed(src[n])
           H == Having(src, n - 1, f)
<1>1. DOMAIN unmerged[n] = e /\ (f \in e => unmerged[n][f] = <<src[n]>>)
  <2>1. unmerged[n] = [g \in e |-> <<src[n]>>]
    BY DEF Ledger
  <2> QED
    BY <2>1
<1>2. /\ src[n] \in Sources /\ src[n] \notin H
      /\ Having(src, n, f) = IF f \in e THEN H \cup {src[n]} ELSE H
  BY HavingNext
<1>3. /\ f \in DOMAIN base <=> H # {}
      /\ f \in DOMAIN base => Lists(base[f], H) /\ base[f] \in Seq(Sources)
  BY DEF MergedSoFar, TypeOK
<1>4. /\ DOMAIN b = DOMAIN base \cup e
      /\ f \in DOMAIN base /\ f \notin e => b[f] = base[f]
      /\ f \notin DOMAIN base /\ f \in e => b[f] = <<src[n]>>
      /\ f \in DOMAIN base /\ f \in e => b[f] = base[f] \o <<src[n]>>
  <2> DEFINE m == unmerged[n]
  <2>1. /\ DOMAIN b = DOMAIN base \cup DOMAIN m
        /\ f \in DOMAIN base /\ f \notin DOMAIN m => b[f] = base[f]
        /\ f \notin DOMAIN base /\ f \in DOMAIN m => b[f] = m[f]
        /\ f \in DOMAIN base /\ f \in DOMAIN m => b[f] = base[f] \o m[f]
    BY DEF MergeInto
  <2> HIDE DEF b
  <2> QED
    BY <1>1, <2>1
<1> HIDE DEF b, e, H
<1>5. f \in DOMAIN b <=> Having(src, n, f) # {}
  BY <1>2, <1>3, <1>4
<1>6. ASSUME f \in DOMAIN base /\ f \notin e
      PROVE  Lists(b[f], Having(src, n, f))
  BY <1>2, <1>3, <1>4, <1>6
<1>7. ASSUME f \notin DOMAIN base /\ f \in e
      PROVE  Lists(b[f], Having(src, n, f))
  <2>1. Having(src, n, f) = {src[n]}
    BY <1>2, <1>3, <1>7
  <2> QED
    BY <1>4, <1>7, <2>1, ListsOne
<1>8. ASSUME f \in DOMAIN base /\ f \in e
      PROVE  Lists(b[f], Having(src, n, f))
  <2> DEFINE q == base[f]
  <2>1. q \in Seq(Sources) /\ Lists(q, H)
    BY <1>3, <1>8
  <2> HIDE DEF q
  <2>2. Lists(q \o <<src[n]>>, H \cup {src[n]})
    BY <1>2, <2>1, ListsMore
  <2> QED
    BY <1>2, <1>4, <1>8, <2>2 DEF q
<1>9. f \in DOMAIN b => Lists(b[f], Having(src, n, f))
  BY <1>4, <1>6, <1>7, <1>8
<1> QED
  BY <1>5, <1>9 DEF b

LEMMA MergedStep ==
  ASSUME PoolInv, [Next]_vars, unmerged' = unmerged, errFetch' = errFetch,
         NEW src \in [1 .. Len(unmerged) -> Sources], Ledger(src),
         errFetch = None, MergedSoFar(src)
  PROVE  MergedSoFar(src)'
<1>0. /\ TypeOK /\ MergeOK /\ Names' = Names /\ Len(unmerged) \in Nat
      /\ next \in 1 .. Len(unmerged) + 1
  BY DEF PoolInv, TypeOK, Names
<1>1. ASSUME NEW n \in 1 .. Len(unmerged), n = next,
             base' = MergeInto(base, unmerged[n]), next' = n + 1
      PROVE  MergedSoFar(src)'
  <2>1. next' - 1 = n
    BY <1>1
  <2>2. \A f \in Names : Having(src, n, f)' = Having(src, n, f)
    BY <1>0, HavingStays
  <2>3. ASSUME NEW f \in Names
        PROVE  /\ f \in DOMAIN base' <=> Having(src, n, f) # {}
               /\ f \in DOMAIN base' => Lists(base'[f], Having(src, n, f))
    BY <1>0, <1>1, MergeEntry
  <2> QED
    BY <1>0, <2>1, <2>2, <2>3 DEF MergedSoFar
<1>2. CASE MergeNext
  BY <1>0, <1>1, <1>2 DEF MergeNext
<1>3. CASE Merge /\ unmerged # << >>
  <2>1. next = 1 /\ base = << >> /\ 1 \in 1 .. Len(unmerged)
    BY <1>0, <1>3 DEF Merge, MergeOK, TypeOK
  <2>2. base' = unmerged[1] /\ next' = 2
    BY <1>3 DEF Merge
  <2>3. unmerged[1] = [f \in Exposed(src[1]) |-> <<src[1]>>]
    BY <2>1 DEF Ledger
  <2>4. MergeInto(base, unmerged[1]) = unmerged[1]
    BY <2>1, <2>3 DEF MergeInto
  <2> QED
    BY <1>1, <2>1, <2>2, <2>4
<1>4. CASE UNCHANGED <<base, next>>
  <2>1. \A f \in Names : Having(src, next - 1, f)' = Having(src, next - 1, f)
    <3>1. PICK n \in Nat : n = next - 1 /\ n <= Len(unmerged)
      BY <1>0
    <3>2. \A f \in Names : Having(src, n, f)' = Having(src, n, f)
      BY <3>1, HavingStays
    <3>3. next' - 1 = n
      BY <1>4, <3>1
    <3> QED
      BY <3>1, <3>2, <3>3 DEF Having
  <2> QED
    BY <1>0, <1>4, <2>1 DEF MergedSoFar, Lists
<1> QED
  BY <1>2, <1>3, <1>4 DEF Next, Handler, Worker, Feed, Wait, Close, Merge, Return, Take,
     Scrape, StoreError, StoreMetrics, Done, Exit, vars

LEMMA LedgerStep ==
  ASSUME PoolInv, [Next]_vars
  PROVE  LedgerOK'
<1>0. /\ TypeOK /\ HandlerOK /\ MergeOK /\ LedgerOK
      /\ Sources' = Sources
  BY SameRequest DEF PoolInv
<1>1. ASSUME NEW w \in Workers, StoreError(w) \/ StoreMetrics(w)
      PROVE  \A src : MergedSoFar(src)'
  <2>1. main \notin {"merging", "returned"}
    BY <1>0, <1>1, StoredMore DEF HandlerOK
  <2>2. next' = 1 /\ base' = << >>
    BY <1>0, <1>1, <2>1 DEF StoreError, StoreMetrics, MergeOK
  <2>3. next' - 1 = 0 /\ DOMAIN base' = {}
    BY <2>2
  <2>4. \A src, f : Having(src, next - 1, f)' = {}
    BY <2>3 DEF Having
  <2> QED
    BY <2>3, <2>4 DEF MergedSoFar
<1>2. CASE \E w \in Workers : StoreMetrics(w)
  BY <1>0, <1>1, <1>2, LedgerAppend DEF LedgerOK
<1>3. CASE ~ \E w \in Workers : StoreMetrics(w)
  <2>1. PICK src \in [1 .. Len(unmerged) -> Sources] :
          Ledger(src) /\ (errFetch = None => MergedSoFar(src))
    BY <1>0 DEF LedgerOK
  <2>2. unmerged' = unmerged
    BY <1>3 DEF Next, Handler, Worker, Feed, Wait, Close, Merge, MergeNext, Return, Take,
       Scrape, StoreError, Done, Exit, vars
  <2>3. Ledger(src)'
    BY <1>3, <2>1, <2>2, LedgerSame
  <2>4. errFetch' = errFetch \/ \E w \in Workers : StoreError(w)
    BY <1>3 DEF Next, Handler, Worker, Feed, Wait, Close, Merge, MergeNext, Return, Take,
       Scrape, StoreError, Done, Exit, vars
  <2>5. errFetch' = None => MergedSoFar(src)'
    BY <1>1, <2>1, <2>2, <2>4, MergedStep
  <2> QED
    BY <1>0, <2>1, <2>2, <2>3, <2>5 DEF LedgerOK
<1> QED
  BY <1>2, <1>3

-----------------------------------------------------------------------------
(* The theorems *)

LEMMA PoolInvInit == Init => PoolInv
<1> SUFFICES ASSUME Init PROVE PoolInv
  OBVIOUS
<1>0. TypeOK
  BY TypeInit
<1> USE DEF Init
<1>1. /\ req.apps \in Nat \ {0} /\ req.exts \in Nat /\ req.bad \in Nat
      /\ Total \in Nat \ {0}
  BY Sizes
<1>2. Busy = {}
  BY DEF Busy
<1>3. QueueOK /\ HandlerOK /\ WorkersOK /\ HeadersOK
  BY <1>1, <1>2 DEF QueueOK, HandlerOK, WorkersOK, HeadersOK, HeadersToInstancesOnly
<1>4. CountOK
  BY <1>1, <1>2, FS_EmptySet DEF CountOK
<1>5. AnswersOK /\ MergeOK
  BY <1>1, <1>2 DEF AnswersOK, MergeOK
<1>6. \A j \in 1 .. Total : ~ Stored(j)
  BY DEF Stored
<1>7. ErrorOK
  BY <1>6 DEF ErrorOK
<1>8. LedgerOK
  <2>1. PICK n \in Nat : n = req.bad
    BY <1>1
  <2> DEFINE src == [i \in 1 .. n |-> 0 - i]
  <2>2. Len(unmerged) = n /\ \A i \in 1 .. n : unmerged[i] = BadExporter(i)
    BY <2>1
  <2>3. src \in [1 .. n -> Sources]
    BY <1>1, <2>1 DEF Sources
  <2>4. \A i \in 1 .. n : unmerged[i] = [f \in Exposed(src[i]) |-> <<src[i]>>]
    <3> SUFFICES ASSUME NEW i \in 1 .. n
                 PROVE  BadExporter(i) = [f \in Exposed(0 - i) |-> <<0 - i>>]
      BY <2>2
    <3>1. 0 - i < 0 /\ 0 - (0 - i) = i
      BY <2>1
    <3>2. Exposed(0 - i) = DOMAIN BadExporter(i)
      BY <3>1 DEF Exposed
    <3> QED
      BY <3>2 DEF BadExporter
  <2>5. \A s \in Sources : (\E i \in 1 .. n : src[i] = s) <=> s < 0
    <3> SUFFICES ASSUME NEW s \in Sources PROVE (\E i \in 1 .. n : src[i] = s) <=> s < 0
      OBVIOUS
    <3>1. s \in Int /\ s # 0 /\ 0 - n <= s
      BY <1>1, <2>1 DEF Sources
    <3>2. ASSUME s < 0 PROVE \E i \in 1 .. n : src[i] = s
      <4>1. 0 - s \in 1 .. n /\ 0 - (0 - s) = s
        BY <3>1, <3>2
      <4> QED
        BY <4>1
    <3> QED
      BY <3>1, <3>2
  <2>6. \A s \in Sources : s < 0 <=> (s > 0 => Stored(s) /\ ~ ClientError(s))
    BY <1>0, <1>6, SourceCases
  <2>7. Ledger(src)
    <3>1. \A i, k \in 1 .. n : src[i] = src[k] => i = k
      BY <2>1
    <3> HIDE DEF src
    <3> QED
      BY <2>2, <2>4, <2>5, <2>6, <3>1 DEF Ledger
  <2>8. MergedSoFar(src)
    <3>1. next - 1 = 0 /\ DOMAIN base = {}
      OBVIOUS
    <3>2. \A f : Having(src, next - 1, f) = {}
      BY <3>1 DEF Having
    <3> QED
      BY <3>1, <3>2 DEF MergedSoFar
  <2> QED
    BY <2>2, <2>3, <2>7, <2>8 DEF LedgerOK
<1> QED
  BY <1>0, <1>3, <1>4, <1>5, <1>7, <1>8 DEF PoolInv

LEMMA PoolInvNext == PoolInv /\ [Next]_vars => PoolInv'
<1> SUFFICES ASSUME PoolInv, [Next]_vars PROVE PoolInv'
  OBVIOUS
<1>1. QueueOK'
  BY QueueStep DEF PoolInv
<1> QED
  BY <1>1, TypeStep, HandlerStep, WorkersStep, CountStep, HeadersStep, AnswersStep,
     ErrorStep, LedgerStep, MergeStep DEF PoolInv

LEMMA PoolInvAlways == Spec => []PoolInv
BY PoolInvInit, PoolInvNext, PTL DEF Spec

\* Nobody is at work when the counter is zero, and every job is stored.
LEMMA AllStored ==
  ASSUME PoolInv, main \in {"close", "merge", "merging", "returned"}
  PROVE  /\ Busy = {}
         /\ \A j \in 1 .. Total : Stored(j)
<1>0. TypeOK /\ QueueOK /\ HandlerOK /\ WorkersOK /\ CountOK /\ AnswersOK
  BY DEF PoolInv
<1>t. Total \in Nat /\ fed \in 0 .. Total /\ Len(jobs) \in Nat
  BY <1>0, Sizes DEF TypeOK
<1>1. wg = 0
  BY <1>0 DEF HandlerOK
<1>2. fed = Total /\ Len(jobs) = 0 /\ Cardinality(Busy) = 0
  BY <1>0, <1>1, <1>t, BusyIsFinite DEF CountOK
<1>3. Busy = {}
  BY <1>2, BusyIsFinite, FS_EmptySet
<1>4. \A w \in Workers : job[w] = None
  BY <1>3 DEF Busy
<1>5. ASSUME NEW j \in 1 .. Total PROVE Stored(j)
  <2>1. j # None
    BY <1>t, NoneIsApart
  <2>2. answer[j] # None
    BY <1>0, <1>t, <1>2, <1>4, <2>1 DEF AnswersOK
  <2> QED
    BY <1>4, <2>1, <2>2 DEF Stored
<1> QED
  BY <1>3, <1>5

\* The types, for any workers and requests; that the counter is a natural number
\* and that every answer belongs to a job depends on the whole invariant.
THEOREM PoolTypeCorrect == Spec => []TypeOK
<1>1. PoolInv => TypeOK
  BY DEF PoolInv
<1> QED
  BY <1>1, PoolInvAlways, PTL

\* The WaitGroup counts exactly the jobs that are not finished (wg.Add, wg.Done on
\* both ways through the loop, wg.Wait).
THEOREM WaitGroupAlwaysExact == Spec => []WaitGroupExact
<1>1. ASSUME PoolInv PROVE WaitGroupExact
  <2>0. TypeOK /\ QueueOK /\ WorkersOK /\ CountOK
    BY <1>1 DEF PoolInv
  <2>t. /\ Total \in Nat /\ fed \in 0 .. Total /\ Len(jobs) \in Nat /\ Len(jobs) <= fed
        /\ jobs \in Seq(1 .. Total)
    BY <2>0, Sizes DEF TypeOK, QueueOK
  <2> DEFINE atWork == {job[w] : w \in Workers} \ {None}
             waiting == fed - Len(jobs) + 1 .. fed
             work == [w \in Busy |-> job[w]]
  <2>1. ToSet(jobs) = waiting
    <3>1. \A i \in 1 .. Len(jobs) : jobs[i] = fed - Len(jobs) + i
      BY <2>0 DEF QueueOK
    <3>2. ToSet(jobs) = {jobs[i] : i \in 1 .. Len(jobs)}
      BY <2>t DEF ToSet
    <3>3. ASSUME NEW x \in waiting PROVE x \in ToSet(jobs)
      <4> DEFINE i == x - (fed - Len(jobs))
      <4>1. i \in 1 .. Len(jobs) /\ fed - Len(jobs) + i = x
        BY <2>t
      <4>2. jobs[i] = x
        BY <3>1, <4>1
      <4> QED
        BY <3>2, <4>1, <4>2
    <3>4. ASSUME NEW x \in ToSet(jobs) PROVE x \in waiting
      BY <2>t, <3>1, <3>2
    <3> QED
      BY <3>3, <3>4
  <2>2. IsFiniteSet(waiting) /\ Cardinality(waiting) = Len(jobs)
    <3> DEFINE a == fed - Len(jobs) + 1
    <3>1. a \in Int /\ fed \in Int /\ fed - a + 1 = Len(jobs) /\ (a > fed => Len(jobs) = 0)
      BY <2>t
    <3> HIDE DEF a
    <3>2. IsFiniteSet(a .. fed) /\ Cardinality(a .. fed) = Len(jobs)
      BY <3>1, FS_Interval
    <3> QED
      BY <3>2 DEF a
  <2>3. work \in Bijection(Busy, atWork)
    <3>1. work \in [Busy -> atWork]
      BY DEF Busy
    <3>2. \A v, w \in Busy : work[v] = work[w] => v = w
      BY <2>0 DEF WorkersOK
    <3>3. \A j \in atWork : \E w \in Busy : work[w] = j
      BY DEF Busy
    <3> QED
      BY <3>1, <3>2, <3>3 DEF Bijection, Injection, Surjection, IsInjective
  <2>4. IsFiniteSet(atWork) /\ Cardinality(atWork) = Cardinality(Busy)
    BY <2>3, BusyIsFinite, FS_Bijection DEF ExistsBijection
  <2>5. waiting \cap atWork = {}
    <3>1. \A w \in Busy : job[w] \in 1 .. Total /\ job[w] <= fed - Len(jobs)
      BY <2>0 DEF WorkersOK, TypeOK, Busy
    <3>2. \A j \in atWork : j \in Nat /\ j <= fed - Len(jobs)
      BY <2>t, <3>1 DEF Busy
    <3> QED
      BY <2>t, <3>2
  <2>6. Pending = waiting \cup atWork
    BY <2>1 DEF Pending
  <2>7. Cardinality(Pending) = Len(jobs) + Cardinality(Busy)
    <3>1. Cardinality(waiting \cap atWork) = 0
      BY <2>5, FS_EmptySet
    <3> HIDE DEF waiting, atWork
    <3>2. Cardinality(waiting \cup atWork) =
            Cardinality(waiting) + Cardinality(atWork) - Cardinality(waiting \cap atWork)
      BY <2>2, <2>4, FS_Union
    <3> QED
      BY <2>t, <2>2, <2>4, <2>6, <3>1, <3>2, BusyIsFinite
  <2> QED
    BY <2>0, <2>t, <2>7, BusyIsFinite DEF WaitGroupExact, CountOK, Busy
<1> QED
  BY <1>1, PoolInvAlways, PTL

\* From close(jobs) on no worker touches metricsUnmerged or errFetch, which the
\* handler reads without the lock.
THEOREM NeverLateWriter == Spec => []NoLateWriter
<1>1. ASSUME PoolInv PROVE NoLateWriter
  <2>1. \A w \in Workers : w \notin Busy => state[w] \in {"range", "exited"}
    BY <1>1 DEF PoolInv, WorkersOK, Busy
  <2> QED
    BY <1>1, <2>1, AllStored DEF NoLateWriter
<1> QED
  BY <1>1, PoolInvAlways, PTL

\* Credentials go to instances, to all of them and to nobody else, although a
\* worker drops its headers for good at its first exporter.
THEOREM HeadersAlwaysToInstances == Spec => []HeadersToInstancesOnly
<1>1. PoolInv => HeadersToInstancesOnly
  BY DEF PoolInv, HeadersOK
<1> QED
  BY <1>1, PoolInvAlways, PTL

\* What Metrics returns is right, in whatever order the workers stored it.
THEOREM ResponseAlwaysRight == Spec => []ResponseRight
<1>1. ASSUME PoolInv, main = "returned" PROVE ResponseRight
  <2>0. TypeOK /\ ErrorOK /\ MergeOK /\ LedgerOK
    BY <1>1 DEF PoolInv
  <2>1. \A j \in 1 .. Total : Stored(j) /\ answer[j] # None
    BY <1>1, AllStored DEF Stored
  <2>2. errFetch # None <=> \E j \in 1 .. Total : ClientError(j)
    BY <2>0, <2>1 DEF ErrorOK
  <2>3. errFetch # None => base = << >>
    BY <2>0 DEF MergeOK
  <2>4. ASSUME errFetch = None
        PROVE  /\ DOMAIN base = UNION {Exposed(s) : s \in Sources}
               /\ \A f \in DOMAIN base :
                    LET From == {s \in Sources : f \in Exposed(s)}
                    IN  ToSet(base[f]) = From /\ Len(base[f]) = Cardinality(From)
    <3>1. PICK src \in [1 .. Len(unmerged) -> Sources] : Ledger(src) /\ MergedSoFar(src)
      BY <2>0, <2>4 DEF LedgerOK
    <3>2. next - 1 = Len(unmerged)
      BY <1>1, <2>0, <2>4 DEF MergeOK, TypeOK
    <3>3. \A s \in Sources : s > 0 => Stored(s) /\ ~ ClientError(s)
      BY <2>0, <2>1, <2>2, <2>4, SourceCases
    <3>4. \A s \in Sources : \E i \in 1 .. Len(unmerged) : src[i] = s
      BY <3>1, <3>3 DEF Ledger
    <3>5. \A f : Having(src, next - 1, f) = {s \in Sources : f \in Exposed(s)}
      BY <3>2, <3>4 DEF Having
    <3>6. \A s \in Sources : Exposed(s) \subseteq Names
      BY <2>0, <3>3, ExposedNames
    <3>7. DOMAIN base \subseteq Names
      BY <2>0 DEF TypeOK
    <3>8. \A f \in Names : f \in DOMAIN base <=> \E s \in Sources : f \in Exposed(s)
      BY <3>1, <3>5 DEF MergedSoFar
    <3>9. ASSUME NEW f \in DOMAIN base
          PROVE  LET From == {s \in Sources : f \in Exposed(s)}
                 IN  ToSet(base[f]) = From /\ Len(base[f]) = Cardinality(From)
      <4> DEFINE From == {s \in Sources : f \in Exposed(s)}
      <4>1. Lists(base[f], From) /\ base[f] \in Seq(Sources)
        BY <2>0, <3>1, <3>5, <3>7 DEF MergedSoFar, TypeOK
      <4> HIDE DEF From
      <4>2. ToSet(base[f]) = From /\ Len(base[f]) = Cardinality(From)
        BY <4>1, ListsCount
      <4> QED
        BY <4>2 DEF From
    <3> QED
      BY <3>6, <3>7, <3>8, <3>9
  <2> QED
    BY <2>1, <2>2, <2>3, <2>4 DEF ResponseRight
<1>2. PoolInv => ResponseRight
  BY <1>1 DEF ResponseRight
<1> QED
  BY <1>2, PoolInvAlways, PTL
=============================================================================
