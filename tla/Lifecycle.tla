----------------------------- MODULE Lifecycle -----------------------------
(***************************************************************************)
(* main.go, from signal.Notify on, with healthchecks/healthcheck.go and    *)
(* the signal handling of RoutesFetcher.Run: how the process starts,       *)
(* reports its health, and stops.                                          *)
(*                                                                         *)
(* Five goroutines: main, run (the routes fetcher), sig (the one that      *)
(* cancels the server's context), serve (the API server) and hc (the       *)
(* health check server).  Both run and sig receive from srvSignal.         *)
(*                                                                         *)
(* All but sig assign the variable err of main() and test it in their next *)
(* statement, without synchronisation.  own[g] is what g assigned last;    *)
(* the test reads that, or, in a build that loads the variable again, what *)
(* is in err by then.  Reloads says which builds are considered.           *)
(***************************************************************************)
EXTENDS Naturals, Sequences, SequencesExt

CONSTANTS
  Signals,      \* kinds of signals: SIGTERM, SIGINT, SIGQUIT, SIGUSR1
  MaxSignals,   \* bound on the signals sent
  MaxActive,    \* bound on the requests in progress
  Reloads,      \* TRUE: the test of err may load it again; FALSE: it may not
  None

ASSUME LifecycleAssumption ==
  /\ None \notin Signals /\ None \notin {0, 1}
  /\ MaxSignals \in Nat /\ MaxActive \in Nat
  /\ Reloads \in (SUBSET BOOLEAN) \ {{}}

VARIABLES
  main, run, sig, serve, hc,  \* where each goroutine is
  err, own,   \* the shared error, and each goroutine's last assignment to it
  srvSignal,  \* the channel of signals, of capacity one
  waiters,    \* the goroutines blocked on it, in the order they came
  sent,       \* signals sent so far
  got,        \* the signal sig received
  ready,      \* Run closed the channel ready
  cancelled,  \* srvCtx was cancelled
  health,     \* HealthCheck.health
  listener,   \* none, open, closed
  active,     \* requests in progress
  exit        \* exit status of the process

goroutines == <<main, run, sig, serve, hc>>
errors     == <<err, own>>
signals    == <<srvSignal, waiters, sent, got>>
phases     == <<ready, cancelled, health>>
server     == <<listener, active>>

vars == <<goroutines, errors, signals, phases, server, exit>>

Errors == {"nil", "run", "listen", "accept", "health", "closed", "timeout"}

Init ==
  /\ main = "listen" /\ run = "starting" /\ sig = "receive"
  /\ serve = "off" /\ hc = "off"
  /\ err = "nil"
  /\ own = [g \in {"main", "run", "serve", "hc"} |-> "nil"]
  /\ srvSignal = << >> /\ waiters = << >> /\ sent = 0 /\ got = None
  /\ ready = FALSE /\ cancelled = FALSE
  /\ health = "Initializing"
  /\ listener = "none" /\ active = 0
  /\ exit = None

Assign(g, e) == err' = e /\ own' = [own EXCEPT ![g] = e]

\* What the test that follows the assignment may read.
Tested(g) ==
  {own[g] : r \in Reloads \cap {FALSE}} \cup {err : r \in Reloads \cap {TRUE}}

\* Mutant: Degraded is not final.
SetHealthAnyway(s) == health' = s

SetHealth(s) == health' = IF health = "Degraded" THEN health ELSE s

-----------------------------------------------------------------------------
(* The environment *)

\* Mutant: the channel has no bound.
EnqueueAll(s) == srvSignal' = Append(srvSignal, s)

Enqueue(s) == srvSignal' = IF srvSignal = << >> THEN <<s>> ELSE srvSignal

\* signal.Notify never blocks: the signal goes to the goroutine that has been
\* waiting longest, else into the channel, and is dropped when that is full.
SendSignal(s) ==
  /\ exit = None
  /\ sent < MaxSignals
  /\ sent' = sent + 1
  /\ \/ /\ waiters # << >>
        /\ waiters' = Tail(waiters)
        /\ IF Head(waiters) = "run"
           THEN run' = "signalled" /\ UNCHANGED <<sig, got>>
           ELSE sig' = "got" /\ got' = s /\ UNCHANGED run
        /\ UNCHANGED srvSignal
     \/ /\ waiters = << >>
        /\ Enqueue(s)
        /\ UNCHANGED <<waiters, run, sig, got>>
  /\ UNCHANGED <<main, serve, hc, errors, phases, server, exit>>

Accept ==
  /\ exit = None
  /\ serve = "serving" /\ listener = "open"
  /\ active < MaxActive
  /\ active' = active + 1
  /\ UNCHANGED <<goroutines, errors, signals, phases, listener, exit>>

Finish ==
  /\ exit = None
  /\ active > 0
  /\ active' = active - 1
  /\ UNCHANGED <<goroutines, errors, signals, phases, listener, exit>>

\* checkDbConnection: a failed ping is fatal.
PingFails ==
  /\ exit = None
  /\ exit' = 1
  /\ UNCHANGED <<goroutines, errors, signals, phases, server>>

-----------------------------------------------------------------------------
(* run: RoutesFetcher.Run and the test of its result *)

\* The start message and the two subscriptions: ready is closed, or Run fails.
RunStarts ==
  /\ exit = None
  /\ run = "starting"
  /\ \/ run' = "select" /\ ready' = TRUE /\ UNCHANGED <<err, own>>
     \/ run' = "test" /\ Assign("run", "run") /\ UNCHANGED ready
  /\ UNCHANGED <<main, sig, serve, hc, signals, cancelled, health, server,
                 exit>>

\* The select: it finds a signal on the channel, or blocks.
RunSelects ==
  /\ exit = None
  /\ run = "select"
  /\ \/ /\ srvSignal # << >> /\ srvSignal' = << >>
        /\ run' = "signalled"
        /\ UNCHANGED waiters
     \/ /\ srvSignal = << >> /\ waiters' = Append(waiters, "run")
        /\ run' = "blocked"
        /\ UNCHANGED srvSignal
  /\ UNCHANGED <<main, sig, serve, hc, errors, sent, got, phases, server,
                 exit>>

\* NATS reconnected: the start message is sent again and Run selects anew.
RunReconnected ==
  /\ exit = None
  /\ run = "blocked"
  /\ run' = "select"
  /\ \E i \in DOMAIN waiters :
       waiters[i] = "run" /\ waiters' = RemoveAt(waiters, i)
  /\ UNCHANGED <<main, sig, serve, hc, errors, srvSignal, sent, got, phases,
                 server, exit>>

RunReturns ==
  /\ exit = None
  /\ run = "signalled"
  /\ run' = "test"
  /\ Assign("run", "nil")
  /\ UNCHANGED <<main, sig, serve, hc, signals, phases, server, exit>>

RunTest ==
  /\ exit = None
  /\ run = "test"
  /\ run' = "ended"
  /\ \E e \in Tested("run") : exit' = IF e # "nil" THEN 1 ELSE None
  /\ UNCHANGED <<main, sig, serve, hc, errors, signals, phases, server>>

(* sig *)

SigReceives ==
  /\ exit = None
  /\ sig = "receive"
  /\ \/ /\ srvSignal # << >> /\ srvSignal' = << >>
        /\ sig' = "got" /\ got' = Head(srvSignal)
        /\ UNCHANGED waiters
     \/ /\ srvSignal = << >> /\ waiters' = Append(waiters, "sig")
        /\ sig' = "blocked"
        /\ UNCHANGED <<srvSignal, got>>
  /\ UNCHANGED <<main, run, serve, hc, errors, sent, phases, server, exit>>

SigSetsHealth ==
  /\ exit = None
  /\ sig = "got"
  /\ IF got = "SIGUSR1" THEN SetHealth("Degraded") ELSE UNCHANGED health
  /\ sig' = "cancel"
  /\ UNCHANGED <<main, run, serve, hc, errors, signals, ready, cancelled,
                 server, exit>>

\* Mutant: the context is not cancelled.
SigForgetsToCancel ==
  /\ exit = None
  /\ sig = "cancel"
  /\ sig' = "ended"
  /\ UNCHANGED <<main, run, serve, hc, errors, signals, phases, server, exit>>

SigCancels ==
  /\ exit = None
  /\ sig = "cancel"
  /\ cancelled' = TRUE
  /\ sig' = "ended"
  /\ UNCHANGED <<main, run, serve, hc, errors, signals, ready, health, server,
                 exit>>

-----------------------------------------------------------------------------
(* main *)

MakeListener ==
  /\ exit = None
  /\ main = "listen"
  /\ \/ Assign("main", "nil") /\ listener' = "open"
     \/ Assign("main", "listen") /\ UNCHANGED listener
  /\ main' = "test listen"
  /\ UNCHANGED <<run, sig, serve, hc, signals, phases, active, exit>>

\* serve and hc are started.
ListenTest ==
  /\ exit = None
  /\ main = "test listen"
  /\ \E e \in Tested("main") :
       IF e # "nil" THEN exit' = 1 /\ UNCHANGED <<main, serve, hc>>
       ELSE /\ main' = "wait ready" /\ serve' = "serving" /\ hc' = "serving"
            /\ UNCHANGED exit
  /\ UNCHANGED <<run, sig, errors, signals, phases, server>>

\* Mutant: main does not wait for ready.
ReadyAtOnce ==
  /\ exit = None
  /\ main = "wait ready"
  /\ SetHealth("Healthy")
  /\ main' = "wait done"
  /\ UNCHANGED <<run, sig, serve, hc, errors, signals, ready, cancelled,
                 server, exit>>

Ready ==
  /\ exit = None
  /\ main = "wait ready"
  /\ ready
  /\ SetHealth("Healthy")
  /\ main' = "wait done"
  /\ UNCHANGED <<run, sig, serve, hc, errors, signals, ready, cancelled,
                 server, exit>>

\* Shutdown closes the listener and waits for the requests in progress.
Shutdown ==
  /\ exit = None
  /\ main = "wait done"
  /\ cancelled
  /\ listener' = "closed"
  /\ main' = "shutdown"
  /\ UNCHANGED <<run, sig, serve, hc, errors, signals, phases, active, exit>>

\* Mutant: the error of Shutdown is dropped.
ShutdownIgnoresTimeout ==
  /\ exit = None
  /\ main = "shutdown"
  /\ Assign("main", "nil")
  /\ main' = "test shutdown"
  /\ UNCHANGED <<run, sig, serve, hc, signals, phases, server, exit>>

\* It returns once they ended, or after 15 seconds.
ShutdownReturns ==
  /\ exit = None
  /\ main = "shutdown"
  /\ \/ active = 0 /\ Assign("main", "nil")
     \/ active > 0 /\ Assign("main", "timeout")
  /\ main' = "test shutdown"
  /\ UNCHANGED <<run, sig, serve, hc, signals, phases, server, exit>>

ShutdownTest ==
  /\ exit = None
  /\ main = "test shutdown"
  /\ main' = "ended"
  /\ \E e \in Tested("main") : exit' = IF e # "nil" THEN 1 ELSE 0
  /\ UNCHANGED <<run, sig, serve, hc, errors, signals, phases, server>>

-----------------------------------------------------------------------------
(* serve and hc: Serve returns when Shutdown closes the listener, or fails;  *)
(* the health check's ListenAndServe only returns when it fails.             *)

ServeReturns ==
  /\ exit = None
  /\ serve = "serving"
  /\ listener = "closed"
  /\ Assign("serve", "closed")
  /\ serve' = "test"
  /\ UNCHANGED <<main, run, sig, hc, signals, phases, server, exit>>

\* Serve closes the listener when it gives up.
ServeFails ==
  /\ exit = None
  /\ serve = "serving"
  /\ listener = "open"
  /\ Assign("serve", "accept")
  /\ serve' = "test"
  /\ listener' = "closed"
  /\ UNCHANGED <<main, run, sig, hc, signals, phases, active, exit>>

\* Mutant: the process goes on without its API server.
ServeFailureIgnored ==
  /\ exit = None
  /\ serve = "test"
  /\ serve' = "ended"
  /\ UNCHANGED <<main, run, sig, hc, errors, signals, phases, server, exit>>

ServeTest ==
  /\ exit = None
  /\ serve = "test"
  /\ serve' = "ended"
  /\ \E e \in Tested("serve") :
       exit' = IF e \notin {"nil", "closed"} THEN 1 ELSE None
  /\ UNCHANGED <<main, run, sig, hc, errors, signals, phases, server>>

HealthFails ==
  /\ exit = None
  /\ hc = "serving"
  /\ Assign("hc", "health")
  /\ hc' = "test"
  /\ UNCHANGED <<main, run, sig, serve, signals, phases, server, exit>>

HealthTest ==
  /\ exit = None
  /\ hc = "test"
  /\ hc' = "ended"
  /\ \E e \in Tested("hc") :
       exit' = IF e \notin {"nil", "closed"} THEN 1 ELSE None
  /\ UNCHANGED <<main, run, sig, serve, errors, signals, phases, server>>

-----------------------------------------------------------------------------
Run == RunStarts \/ RunSelects \/ RunReturns \/ RunTest

Sig == SigReceives \/ SigSetsHealth \/ SigCancels

Main ==
  \/ MakeListener \/ ListenTest \/ Ready
  \/ Shutdown \/ ShutdownReturns \/ ShutdownTest

Serve == ServeReturns \/ ServeTest

Environment ==
  \/ \E s \in Signals : SendSignal(s)
  \/ RunReconnected \/ ServeFails \/ HealthFails \/ PingFails
  \/ Accept \/ Finish

Next == Run \/ Sig \/ Main \/ Serve \/ HealthTest \/ Environment

\* Every goroutine that can go on is scheduled, and Shutdown returns after 15
\* seconds at most.  Nothing is assumed of the environment: requests may never
\* end, and signals, failures and reconnections may never come.
Fairness ==
  /\ WF_vars(Run) /\ WF_vars(Sig) /\ WF_vars(Main)
  /\ WF_vars(Serve) /\ WF_vars(HealthTest)

Spec == Init /\ [][Next]_vars /\ Fairness

-----------------------------------------------------------------------------
\* Type invariant.
TypeOK ==
  /\ err \in Errors
  /\ own \in [{"main", "run", "serve", "hc"} -> Errors]
  /\ srvSignal \in Seq(Signals) /\ Len(srvSignal) <= 1
  /\ waiters \in Seq({"run", "sig"})
  /\ sent \in 0 .. MaxSignals
  /\ got \in Signals \cup {None}
  /\ ready \in BOOLEAN /\ cancelled \in BOOLEAN
  /\ health \in {"Initializing", "Healthy", "Degraded"}
  /\ listener \in {"none", "open", "closed"}
  /\ active \in 0 .. MaxActive
  /\ exit \in {None, 0, 1}

\* An instance told to drain stays out of the load balancer: once SIGUSR1 was
\* handled the health check never says healthy, even when the signal came
\* before the subscriptions were ready and main reports health afterwards.
DrainedStaysUnhealthy ==
  got = "SIGUSR1" /\ sig \in {"cancel", "ended"} => health = "Degraded"

\* The health check says healthy only once the subscriptions are made, and while
\* the API server listens, with two exceptions.  A shutdown that was not asked
\* for by SIGUSR1 closes the listener and leaves the health alone (main.go:134);
\* and between a failure of Serve and the end of the process the listener is
\* closed already.  So a process never goes on, healthy, without its API server.
HealthyMeansServing ==
  health = "Healthy" /\ exit = None =>
    /\ ready
    /\ \/ listener = "open"
       \/ listener = "closed" /\ cancelled /\ got # "SIGUSR1"
       \/ listener = "closed" /\ serve = "test" /\ own["serve"] = "accept"

\* A successful exit cuts no request: status 0 is reached only when every
\* request in progress had ended within the 15 seconds.
SuccessMeansDrained == exit = 0 => active = 0

\* Once the goroutine that cancels the context has a signal the process ends,
\* whatever it was doing: starting, serving, or already failing.
TakenSignalStops == (got # None) ~> (exit # None)

\* README.md, "Graceful shutdown": upon receiving a signal Promfetcher stops.
SignalStops == (sent > 0) ~> (exit # None)

\* When Shutdown reports that all requests ended, the process ends well
\* (main.go's last line, "server gracefully shutdown").
DrainedMeansSuccess ==
  main = "ended" /\ own["main"] = "nil" => exit = 0
=============================================================================
