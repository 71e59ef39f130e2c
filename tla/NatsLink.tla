------------------------------ MODULE NatsLink ------------------------------
(***************************************************************************)
(* mbus/client.go and the reconnection side of RoutesFetcher.Run: how the  *)
(* connection to NATS is made, lost and made again, and how the program    *)
(* announces itself with a router.start message each time.                 *)
(*                                                                         *)
(* The NATS library queues the callbacks of the connection and runs them   *)
(* one after the other in a goroutine of its own.  DisconnectedCB starts a *)
(* goroutine that logs until ReconnectedCB tells it to stop, on the        *)
(* unbuffered channel notDisconnected; ReconnectedCB then tells Run, on    *)
(* the unbuffered channel reconnected, which sends the message.            *)
(***************************************************************************)
EXTENDS Naturals, Sequences

CONSTANTS
  MaxDrops,  \* bound on the number of times the connection is lost
  None

Reasons == {"nats-connection-error", "panic", "run", "nats-connection-closed"}

ASSUME NatsLinkAssumption == MaxDrops \in Nat /\ None \notin Reasons

VARIABLES
  attempts,   \* connection attempts left
  run,        \* where main, and then Run, is
  link,       \* the connection, as the library sees it
  queue,      \* callbacks to run
  cb,         \* where the callback that is running is
  tickers,    \* goroutines that log "still disconnected"
  buffered,   \* a start message waits in the library for the reconnection
  announced,  \* a start message went out on the current connection
  silenced,   \* history: no local address at the last attempt to make the
              \* message on the current connection
  drops,      \* times the connection was lost
  exit        \* why the process ended

vars == <<attempts, run, link, queue, cb, tickers, buffered, announced,
          silenced, drops, exit>>

Callback == {"disconnected", "reconnected", "closed"}

Init ==
  /\ attempts = 3
  /\ run = "connect"
  /\ link = "none"
  /\ queue = << >> /\ cb = "idle" /\ tickers = 0
  /\ buffered = FALSE /\ announced = FALSE /\ silenced = FALSE
  /\ drops = 0
  /\ exit = None

-----------------------------------------------------------------------------
(* The connection *)

Disconnect ==
  /\ exit = None
  /\ link = "up"
  /\ drops < MaxDrops
  /\ drops' = drops + 1
  /\ link' = "down"
  /\ announced' = FALSE
  /\ queue' = Append(queue, "disconnected")
  /\ UNCHANGED <<attempts, run, cb, tickers, buffered, silenced, exit>>

\* The library sends what waited and then queues the callback.
Reconnect ==
  /\ exit = None
  /\ link = "down"
  /\ link' = "up"
  /\ announced' = buffered /\ buffered' = FALSE /\ silenced' = FALSE
  /\ queue' = Append(queue, "reconnected")
  /\ UNCHANGED <<attempts, run, cb, tickers, drops, exit>>

\* MaxReconnect = -1 leaves errors of the protocol and repeated refusals of the
\* credentials; the former are also a disconnection.
Close ==
  /\ exit = None
  /\ link \in {"up", "down"}
  /\ link' = "closed"
  /\ announced' = FALSE /\ buffered' = FALSE
  /\ \/ queue' = Append(queue, "closed")
     \/ link = "up" /\ queue' = Append(Append(queue, "disconnected"), "closed")
  /\ UNCHANGED <<attempts, run, cb, tickers, silenced, drops, exit>>

-----------------------------------------------------------------------------
(* Connect *)

\* Mutant: the last failure is not fatal.
ConnectForever ==
  /\ exit = None
  /\ run = "connect"
  /\ \/ link' = "up" /\ run' = "store" /\ UNCHANGED attempts
     \/ attempts' = attempts - 1 /\ UNCHANGED <<link, run>>
  /\ UNCHANGED <<queue, cb, tickers, buffered, announced, silenced, drops, exit>>

\* Each failure costs an attempt and 100 ms; the last one is fatal.
Connect ==
  /\ exit = None
  /\ run = "connect"
  /\ \/ link' = "up" /\ run' = "store" /\ UNCHANGED <<attempts, exit>>
     \/ /\ attempts' = attempts - 1
        /\ exit' = IF attempts = 1 THEN "nats-connection-error" ELSE None
        /\ UNCHANGED <<link, run>>
  /\ UNCHANGED <<queue, cb, tickers, buffered, announced, silenced, drops>>

\* natsHost and natsAddr get their first values, and Connect returns.
Store ==
  /\ exit = None
  /\ run = "store"
  /\ run' = "start"
  /\ UNCHANGED <<attempts, link, queue, cb, tickers, buffered, announced,
                 silenced, drops, exit>>

Stored == run \notin {"connect", "store"}

-----------------------------------------------------------------------------
(* The callbacks *)

\* Mutant: no goroutine is started.
DisconnectedCBOnlyLogs ==
  /\ exit = None
  /\ cb = "idle" /\ queue # << >> /\ Head(queue) = "disconnected"
  /\ queue' = Tail(queue)
  /\ UNCHANGED <<attempts, run, link, cb, tickers, buffered, announced,
                 silenced, drops, exit>>

\* natsHost.Load().(string) panics before the first Store.
DisconnectedCB ==
  /\ exit = None
  /\ cb = "idle" /\ queue # << >> /\ Head(queue) = "disconnected"
  /\ queue' = Tail(queue)
  /\ IF Stored THEN tickers' = tickers + 1 /\ UNCHANGED exit
               ELSE exit' = "panic" /\ UNCHANGED tickers
  /\ UNCHANGED <<attempts, run, link, cb, buffered, announced, silenced,
                 drops>>

ReconnectedCB ==
  /\ exit = None
  /\ cb = "idle" /\ queue # << >> /\ Head(queue) = "reconnected"
  /\ queue' = Tail(queue)
  /\ cb' = "notDisconnected"
  /\ UNCHANGED <<attempts, run, link, tickers, buffered, announced, silenced,
                 drops, exit>>

\* Mutant: the logging goroutine is not told.
SkipNotDisconnected ==
  /\ exit = None
  /\ cb = "notDisconnected"
  /\ cb' = "reconnected"
  /\ UNCHANGED <<attempts, run, link, queue, tickers, buffered, announced,
                 silenced, drops, exit>>

\* A logging goroutine receives the signal and returns.
NotDisconnected ==
  /\ exit = None
  /\ cb = "notDisconnected"
  /\ tickers > 0
  /\ tickers' = tickers - 1
  /\ cb' = "reconnected"
  /\ UNCHANGED <<attempts, run, link, queue, buffered, announced, silenced,
                 drops, exit>>

\* Mutant: the callback does not wait for Run.
HandOverOrDrop ==
  /\ exit = None
  /\ cb = "reconnected"
  /\ cb' = "idle"
  /\ run' = IF run = "select" THEN "send" ELSE run
  /\ UNCHANGED <<attempts, link, queue, tickers, buffered, announced, silenced,
                 drops, exit>>

\* Run receives the signal in its select.
HandOver ==
  /\ exit = None
  /\ cb = "reconnected" /\ run = "select"
  /\ cb' = "idle"
  /\ run' = "send"
  /\ UNCHANGED <<attempts, link, queue, tickers, buffered, announced, silenced,
                 drops, exit>>

ClosedCB ==
  /\ exit = None
  /\ cb = "idle" /\ queue # << >> /\ Head(queue) = "closed"
  /\ queue' = Tail(queue)
  /\ exit' = "nats-connection-closed"
  /\ UNCHANGED <<attempts, run, link, cb, tickers, buffered, announced,
                 silenced, drops>>

-----------------------------------------------------------------------------
(* Run *)

\* sendStartMessage succeeds: the message goes out, or waits.
StartMessageSent ==
  /\ link \in {"up", "down"}
  /\ announced' = (link = "up")
  /\ buffered' = (link = "down")
  /\ silenced' = FALSE

\* It fails: there is no local address, the library's buffer is full, or the
\* connection is closed.
StartMessageFails ==
  /\ \/ silenced' = TRUE
     \/ link \in {"down", "closed"} /\ silenced' = FALSE
  /\ UNCHANGED <<announced, buffered>>

\* The first start message.  Its failure ends Run, and main with it.
SendFirst ==
  /\ exit = None
  /\ run = "start"
  /\ \/ StartMessageSent /\ run' = "greet" /\ UNCHANGED exit
     \/ StartMessageFails /\ run' = "ended" /\ exit' = "run"
  /\ UNCHANGED <<attempts, link, queue, cb, tickers, drops>>

\* The two subscriptions fail on a closed connection only.
Subscribe ==
  /\ exit = None
  /\ run \in {"greet", "routes"}
  /\ IF link = "closed"
     THEN run' = "ended" /\ exit' = "run"
     ELSE /\ run' = IF run = "greet" THEN "routes" ELSE "select"
          /\ UNCHANGED exit
  /\ UNCHANGED <<attempts, link, queue, cb, tickers, buffered, announced,
                 silenced, drops>>

\* The start message after a reconnection.  Its failure is only logged.
SendAgain ==
  /\ exit = None
  /\ run = "send"
  /\ StartMessageSent \/ StartMessageFails
  /\ run' = "select"
  /\ UNCHANGED <<attempts, link, queue, cb, tickers, drops, exit>>

\* Run receives a signal of the operating system and returns.
Signalled ==
  /\ exit = None
  /\ run = "select"
  /\ run' = "ended"
  /\ UNCHANGED <<attempts, link, queue, cb, tickers, buffered, announced,
                 silenced, drops, exit>>

-----------------------------------------------------------------------------
Library == Disconnect \/ Reconnect \/ Close

Callbacks == DisconnectedCB \/ ReconnectedCB \/ NotDisconnected \/ ClosedCB

Run == SendFirst \/ Subscribe \/ SendAgain

Next == Library \/ Connect \/ Store \/ Callbacks \/ HandOver \/ Run \/ Signalled

\* Goroutines that can go on are scheduled.  Of the network and of the signals
\* nothing is assumed.
Fairness ==
  /\ WF_vars(Connect) /\ WF_vars(Store)
  /\ WF_vars(Callbacks) /\ WF_vars(HandOver) /\ WF_vars(Run)

Spec == Init /\ [][Next]_vars /\ Fairness

-----------------------------------------------------------------------------
\* Type invariant.
TypeOK ==
  /\ attempts \in 0 .. 3 /\ (attempts = 0 => exit # None)
  /\ run \in {"connect", "store", "start", "greet", "routes", "select", "send",
              "ended"}
  /\ link \in {"none", "up", "down", "closed"}
  /\ queue \in Seq(Callback)
  /\ cb \in {"idle", "notDisconnected", "reconnected"}
  /\ tickers \in Nat
  /\ buffered \in BOOLEAN /\ announced \in BOOLEAN /\ silenced \in BOOLEAN
  /\ drops \in 0 .. MaxDrops
  /\ exit \in Reasons \cup {None}

\* Everything that followed the last change of the connection is done.
Settled ==
  exit = None /\ link = "up" /\ queue = << >> /\ cb = "idle" /\ run = "select"

\* However fast the connection comes and goes while callbacks wait: at most one
\* goroutine logs that it is gone, one is there to receive whenever
\* ReconnectedCB sends on notDisconnected, and none is left once the
\* reconnection was handled.
TickersExact ==
  /\ tickers <= 1
  /\ cb = "notDisconnected" => tickers = 1
  /\ Settled => tickers = 0

\* The routes are asked for on every connection: when all is settled a start
\* message went out on the connection in use, although it may have been made
\* while Run was starting, sending or not yet in its select, and although a
\* message may have failed or waited while the connection was gone.  The one
\* exception is a machine without a local address.
AnnouncedWhenSettled == Settled => announced \/ silenced

\* A connection that is not announced becomes so, unless it is lost again, Run
\* or the process ends, or there is no local address: neither of the two
\* unbuffered channels can hold up the message for ever.
EveryConnectionAnnounced ==
  (link = "up" /\ ~announced)
    ~> (announced \/ link # "up" \/ run = "ended" \/ silenced \/ exit # None)

\* A closed connection, after which no route message would ever come, ends the
\* process, unless Run had returned on a signal.
ClosedEnds == (link = "closed") ~> (exit # None \/ run = "ended")

-----------------------------------------------------------------------------
(* The inductive invariant behind TickersExact and AnnouncedWhenSettled. *)

\* Disconnections handled whose reconnection is not.
Unmatched == IF cb = "notDisconnected" THEN tickers - 1 ELSE tickers

\* The callbacks of q alternate, and the first follows u unmatched ones.
Alternate(q, u) ==
  \A i \in 1 .. Len(q) :
    /\ q[i] = "disconnected" =>
         IF i = 1 THEN u = 0 ELSE q[i - 1] = "reconnected"
    /\ q[i] = "reconnected" =>
         IF i = 1 THEN u = 1 ELSE q[i - 1] = "disconnected"

\* The last of them, or else the last that was handled, is a reconnection;
\* a disconnection.
EndsUp(q, u) == IF q = << >> THEN u = 0 ELSE q[Len(q)] = "reconnected"

EndsDown(q, u) == IF q = << >> THEN u = 1 ELSE q[Len(q)] = "disconnected"

\* The queued callbacks alternate and agree with the connection at the end.
Alternating ==
  /\ Unmatched \in {0, 1}
  /\ Alternate(queue, Unmatched)
  /\ link \in {"none", "up"} => EndsUp(queue, Unmatched)
  /\ link = "down" => EndsDown(queue, Unmatched)
  /\ link # "closed" => \A i \in 1 .. Len(queue) : queue[i] # "closed"
  /\ link = "none" => queue = << >>

\* What will still announce a connection that is not announced.
AnnouncementDue ==
  link = "up" /\ ~announced /\ ~silenced =>
    \/ run \in {"store", "start", "send", "ended"}
    \/ cb # "idle"
    \/ queue # << >>

\* Until the process ends, the callbacks match the connection and every
\* connection is announced or about to be; the strengthening of TickersExact
\* and AnnouncedWhenSettled (mbus/client.go:83-118, routesfetcher.go:105-116).
LinkInv ==
  /\ tickers <= 1
  /\ cb = "notDisconnected" => tickers = 1
  /\ run = "connect" => link = "none"
  /\ exit = None => Alternating /\ AnnouncementDue
=============================================================================
