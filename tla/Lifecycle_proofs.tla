-------------------------- MODULE Lifecycle_proofs --------------------------
(***************************************************************************)
(* Proofs about Lifecycle.tla, for any signals, and any number of signals  *)
(* and of requests in progress.                                            *)
(***************************************************************************)
EXTENDS Lifecycle, SequenceTheorems, TLAPS

-----------------------------------------------------------------------------
(* The wait queue of the signal channel                                      *)

\* A goroutine is in the queue at most once, and only while it is blocked.
WaitersOK ==
  /\ \A i \in 1 .. Len(waiters) :
       /\ waiters[i] = "run" => run = "blocked"
       /\ waiters[i] = "sig" => sig = "blocked"
  /\ \A i, j \in 1 .. Len(waiters) : waiters[i] = waiters[j] => i = j

Names == {"run", "sig"}

Distinct(q) == \A i, j \in 1 .. Len(q) : q[i] = q[j] => i = j

\* Whoever comes to the queue joins the others.
LEMMA QueueAppend ==
  ASSUME NEW q \in Seq(Names), NEW g \in Names, Distinct(q),
         \A i \in 1 .. Len(q) : q[i] # g
  PROVE  /\ Append(q, g) \in Seq(Names) /\ Distinct(Append(q, g))
         /\ \A i \in 1 .. Len(Append(q, g)) :
              Append(q, g)[i] = g \/ \E j \in 1 .. Len(q) : Append(q, g)[i] = q[j]
<1>1. /\ Append(q, g) \in Seq(Names)
      /\ Len(Append(q, g)) = Len(q) + 1 /\ Len(q) \in Nat
      /\ \A i \in 1 .. Len(q) : Append(q, g)[i] = q[i]
      /\ Append(q, g)[Len(q) + 1] = g
  BY AppendProperties, LenProperties
<1>2. \A i \in 1 .. Len(q) + 1 : i \in 1 .. Len(q) \/ i = Len(q) + 1
  BY <1>1
<1> QED
  BY <1>1, <1>2 DEF Distinct

\* Whoever leaves it from the front leaves the others, and is not among them.
LEMMA QueueTail ==
  ASSUME NEW q \in Seq(Names), q # << >>, Distinct(q)
  PROVE  /\ Tail(q) \in Seq(Names) /\ Distinct(Tail(q)) /\ Head(q) \in Names
         /\ \A i \in 1 .. Len(Tail(q)) :
              Tail(q)[i] # Head(q) /\ \E j \in 1 .. Len(q) : Tail(q)[i] = q[j]
<1>1. /\ Tail(q) \in Seq(Names) /\ Len(Tail(q)) = Len(q) - 1
      /\ \A i \in 1 .. Len(Tail(q)) : Tail(q)[i] = q[i + 1]
      /\ Head(q) = q[1] /\ Head(q) \in Names
  BY HeadTailProperties
<1>2. Len(q) \in Nat /\ Len(q) >= 1
  BY EmptySeq, LenProperties
<1>3. \A i \in 1 .. Len(q) - 1 : i + 1 \in 1 .. Len(q) /\ i + 1 # 1 /\ 1 \in 1 .. Len(q)
  BY <1>2
<1> QED
  BY <1>1, <1>2, <1>3 DEF Distinct

\* The same of whoever leaves it from the middle.
LEMMA QueueRemoveAt ==
  ASSUME NEW q \in Seq(Names), NEW k \in 1 .. Len(q), Distinct(q)
  PROVE  /\ RemoveAt(q, k) \in Seq(Names) /\ Distinct(RemoveAt(q, k))
         /\ \A i \in 1 .. Len(RemoveAt(q, k)) :
              /\ RemoveAt(q, k)[i] # q[k]
              /\ \E j \in 1 .. Len(q) : RemoveAt(q, k)[i] = q[j]
<1> DEFINE n == Len(q)
           a == SubSeq(q, 1, k - 1)
           b == SubSeq(q, k + 1, n)
           from(i) == IF i < k THEN i ELSE i + 1
<1>1. n \in Nat /\ k \in 1 .. n
  BY LenProperties
<1>2. a \in Seq(Names) /\ Len(a) = k - 1 /\ \A i \in 1 .. k - 1 : a[i] = q[i]
  BY <1>1, SubSeqProperties
<1>3. b \in Seq(Names) /\ Len(b) = n - k /\ \A i \in 1 .. n - k : b[i] = q[k + i]
  BY <1>1, SubSeqProperties
<1>4. RemoveAt(q, k) = a \o b
  BY DEF RemoveAt
<1> HIDE DEF a, b
<1>5. RemoveAt(q, k) \in Seq(Names) /\ Len(RemoveAt(q, k)) = n - 1
  <2>1. a \o b \in Seq(Names) /\ Len(a \o b) = Len(a) + Len(b)
    BY <1>2, <1>3, ConcatProperties, Zenon
  <2>2. (k - 1) + (n - k) = n - 1
    BY <1>1
  <2> QED
    BY <2>1, <2>2, <1>2, <1>3, <1>4, Zenon
<1>6. ASSUME NEW i \in 1 .. n - 1
      PROVE  RemoveAt(q, k)[i] = q[from(i)] /\ from(i) \in 1 .. n /\ from(i) # k
  <2>1. CASE i < k
    BY <2>1, <1>1, <1>2, <1>3, <1>4, ConcatProperties
  <2>2. CASE i >= k
    <3>1. i \in Len(a) + 1 .. Len(a) + Len(b) /\ i - Len(a) \in 1 .. n - k
      BY <2>2, <1>1, <1>2, <1>3
    <3>2. (a \o b)[i] = b[i - Len(a)]
      BY <3>1, <1>2, <1>3, ConcatProperties
    <3>3. b[i - Len(a)] = q[i + 1]
      BY <3>1, <1>1, <1>2, <1>3
    <3>4. RemoveAt(q, k)[i] = q[i + 1]
      BY <3>2, <3>3, <1>4, Zenon
    <3> QED
      BY <2>2, <3>4, <1>1
  <2>3. i < k \/ i >= k
    BY <1>1
  <2> QED
    BY <2>1, <2>2, <2>3, Zenon
<1>7. \A i, j \in 1 .. n - 1 : from(i) = from(j) => i = j
  BY <1>1
<1>8. \A i \in 1 .. n - 1 :
        RemoveAt(q, k)[i] = q[from(i)] /\ from(i) \in 1 .. n /\ from(i) # k
  BY <1>6
<1> HIDE DEF from
<1> QED
  BY <1>1, <1>5, <1>7, <1>8 DEF Distinct

-----------------------------------------------------------------------------
(* Type correctness and the wait queue                                       *)

QueueInv == TypeOK /\ WaitersOK

\* The process starts with an empty queue.
LEMMA QueueInvInit == Init => QueueInv
<1> SUFFICES ASSUME Init PROVE QueueInv
  OBVIOUS
<1>1. \A S : << >> \in Seq(S)
  OBVIOUS
<1>2. /\ srvSignal \in Seq(Signals) /\ Len(srvSignal) <= 1
      /\ waiters \in Seq({"run", "sig"}) /\ WaitersOK
  BY <1>1 DEF Init, WaitersOK
<1>3. sent \in 0 .. MaxSignals /\ active \in 0 .. MaxActive
  BY LifecycleAssumption DEF Init
<1> QED
  BY <1>2, <1>3 DEF Init, QueueInv, TypeOK, Errors

\* A signal goes to the goroutine at the front of the queue.
LEMMA SendSignalQueue ==
  ASSUME QueueInv, NEW s \in Signals, SendSignal(s)
  PROVE  QueueInv'
<1>1. sent' \in 0 .. MaxSignals
  BY LifecycleAssumption DEF SendSignal, QueueInv, TypeOK
<1>2. CASE waiters # << >> /\ waiters' = Tail(waiters) /\ UNCHANGED srvSignal
  <2>1. waiters \in Seq(Names) /\ Distinct(waiters)
    BY DEF QueueInv, TypeOK, WaitersOK, Distinct, Names
  <2>2. /\ waiters' \in Seq(Names) /\ Distinct(waiters') /\ Head(waiters) \in Names
        /\ \A i \in 1 .. Len(waiters') :
             /\ waiters'[i] # Head(waiters)
             /\ \E j \in 1 .. Len(waiters) : waiters'[i] = waiters[j]
    BY <1>2, <2>1, QueueTail
  <2>3. \/ Head(waiters) = "run" /\ UNCHANGED <<sig, got>>
        \/ Head(waiters) = "sig" /\ got' = s /\ UNCHANGED run
    BY <1>2, <2>2 DEF SendSignal, Names
  <2>4. WaitersOK'
    BY <2>2, <2>3 DEF QueueInv, WaitersOK, Distinct
  <2> QED
    BY <1>1, <1>2, <2>2, <2>3, <2>4
    DEF SendSignal, QueueInv, TypeOK, Names, errors, phases, server
<1>3. CASE waiters = << >> /\ Enqueue(s) /\ UNCHANGED <<waiters, run, sig, got>>
  <2>1. srvSignal' \in Seq(Signals) /\ Len(srvSignal') <= 1
    BY <1>3 DEF Enqueue, QueueInv, TypeOK
  <2> QED
    BY <1>1, <1>3, <2>1
    DEF SendSignal, QueueInv, TypeOK, WaitersOK, errors, phases, server
<1> QED
  BY <1>2, <1>3 DEF SendSignal

\* Run and the signal goroutine find a signal on the channel or join the queue.
LEMMA ReceiveQueue ==
  ASSUME QueueInv, RunSelects \/ SigReceives
  PROVE  QueueInv'
<1>1. waiters \in Seq(Names) /\ Distinct(waiters)
  BY DEF QueueInv, TypeOK, WaitersOK, Distinct, Names
<1>2. CASE srvSignal # << >> /\ srvSignal' = << >> /\ UNCHANGED waiters
  <2>1. Head(srvSignal) \in Signals /\ << >> \in Seq(Signals) /\ Len(<< >>) <= 1
    BY <1>2 DEF QueueInv, TypeOK
  <2> QED
    BY <1>2, <2>1
    DEF RunSelects, SigReceives, QueueInv, TypeOK, WaitersOK, errors, phases, server
<1>3. ASSUME NEW me \in Names, waiters' = Append(waiters, me),
             UNCHANGED <<srvSignal, got>>,
             IF me = "run" THEN /\ RunSelects /\ run' = "blocked"
             ELSE SigReceives /\ sig' = "blocked"
      PROVE  QueueInv'
  <2>1. \A i \in 1 .. Len(waiters) : waiters[i] # me
    BY <1>3 DEF QueueInv, WaitersOK, RunSelects, SigReceives, Names
  <2>2. /\ waiters' \in Seq(Names) /\ Distinct(waiters')
        /\ \A i \in 1 .. Len(waiters') :
             waiters'[i] = me \/ \E j \in 1 .. Len(waiters) : waiters'[i] = waiters[j]
    BY <1>1, <1>3, <2>1, QueueAppend
  <2>3. \/ me = "run" /\ run' = "blocked" /\ UNCHANGED sig
        \/ me = "sig" /\ sig' = "blocked" /\ UNCHANGED run
    BY <1>3 DEF RunSelects, SigReceives, Names
  <2>4. WaitersOK'
    BY <2>2, <2>3 DEF QueueInv, WaitersOK, Distinct
  <2> QED
    BY <1>3, <2>2, <2>4
    DEF RunSelects, SigReceives, QueueInv, TypeOK, Names, errors, phases, server
<1> QED
  BY <1>2, <1>3 DEF RunSelects, SigReceives, Names

\* A reconnection takes Run out of the queue.
LEMMA ReconnectedQueue ==
  ASSUME QueueInv, RunReconnected
  PROVE  QueueInv'
<1>1. PICK k \in DOMAIN waiters :
        waiters[k] = "run" /\ waiters' = RemoveAt(waiters, k)
  BY DEF RunReconnected
<1>2. waiters \in Seq(Names) /\ Distinct(waiters)
  BY DEF QueueInv, TypeOK, WaitersOK, Distinct, Names
<1>3. k \in 1 .. Len(waiters)
  BY <1>2, LenProperties
<1>4. /\ waiters' \in Seq(Names) /\ Distinct(waiters')
      /\ \A i \in 1 .. Len(waiters') :
           /\ waiters'[i] # "run"
           /\ \E j \in 1 .. Len(waiters) : waiters'[i] = waiters[j]
  BY <1>1, <1>2, <1>3, QueueRemoveAt
<1>5. WaitersOK'
  BY <1>4 DEF RunReconnected, QueueInv, WaitersOK, Distinct
<1> QED
  BY <1>4, <1>5
  DEF RunReconnected, QueueInv, TypeOK, Names, errors, phases, server

\* The steps of a goroutine that is not blocked.
OtherSteps ==
  \/ Accept \/ Finish \/ PingFails
  \/ RunStarts \/ RunReturns \/ RunTest \/ SigSetsHealth \/ SigCancels
  \/ Main \/ Serve \/ ServeFails \/ HealthFails \/ HealthTest

\* An assignment to err keeps it, and what its goroutine remembers, an error.
LEMMA AssignType ==
  ASSUME TypeOK, NEW g \in {"main", "run", "serve", "hc"}, NEW e \in Errors,
         Assign(g, e)
  PROVE  err' \in Errors /\ own' \in [{"main", "run", "serve", "hc"} -> Errors]
BY DEF Assign, TypeOK

\* They leave the channel and its queue alone.
LEMMA OtherStepsQueue ==
  ASSUME QueueInv, OtherSteps
  PROVE  QueueInv'
<1>1. CASE Accept \/ Finish \/ PingFails
  BY <1>1, LifecycleAssumption
  DEF Accept, Finish, PingFails, QueueInv, TypeOK, WaitersOK, goroutines,
      errors, signals, phases, server
<1>2. CASE RunStarts \/ RunReturns \/ RunTest
  <2> USE DEF QueueInv, TypeOK, WaitersOK, errors, signals, phases, server
  <2>0. "nil" \in Errors /\ "run" \in Errors
    BY DEF Errors
  <2>1. CASE RunStarts
    <3>1. err' \in Errors /\ own' \in [{"main", "run", "serve", "hc"} -> Errors]
      BY <2>0, <2>1, AssignType DEF RunStarts
    <3> QED
      BY <2>1, <3>1 DEF RunStarts
  <2>2. CASE RunReturns
    <3>1. err' \in Errors /\ own' \in [{"main", "run", "serve", "hc"} -> Errors]
      BY <2>0, <2>2, AssignType DEF RunReturns
    <3> QED
      BY <2>2, <3>1 DEF RunReturns
  <2>3. CASE RunTest
    BY <2>3 DEF RunTest
  <2> QED
    BY <1>2, <2>1, <2>2, <2>3
<1>3. CASE SigSetsHealth \/ SigCancels
  BY <1>3 DEF SigSetsHealth, SigCancels, SetHealth, QueueInv, TypeOK,
              WaitersOK, errors, signals, server
<1>4. CASE Main
  <2> USE DEF QueueInv, TypeOK, WaitersOK, errors, signals, phases, server
  <2>0. "nil" \in Errors /\ "listen" \in Errors /\ "timeout" \in Errors
    BY DEF Errors
  <2>1. CASE MakeListener
    <3>1. err' \in Errors /\ own' \in [{"main", "run", "serve", "hc"} -> Errors]
      BY <2>0, <2>1, AssignType DEF MakeListener
    <3> QED
      BY <2>1, <3>1 DEF MakeListener
  <2>2. CASE ListenTest
    BY <2>2 DEF ListenTest
  <2>3. CASE Ready \/ Shutdown
    BY <2>3 DEF Ready, SetHealth, Shutdown
  <2>4. CASE ShutdownReturns
    <3>1. err' \in Errors /\ own' \in [{"main", "run", "serve", "hc"} -> Errors]
      BY <2>0, <2>4, AssignType DEF ShutdownReturns
    <3> QED
      BY <2>4, <3>1 DEF ShutdownReturns
  <2>5. CASE ShutdownTest
    BY <2>5 DEF ShutdownTest
  <2> QED
    BY <1>4, <2>1, <2>2, <2>3, <2>4, <2>5 DEF Main
<1>5. CASE Serve \/ ServeFails \/ HealthFails \/ HealthTest
  BY <1>5 DEF Serve, ServeReturns, ServeTest, ServeFails, HealthFails,
              HealthTest, Assign, QueueInv, TypeOK, WaitersOK, Errors, errors,
              signals, phases, server
<1> QED
  BY <1>1, <1>2, <1>3, <1>4, <1>5 DEF OtherSteps

\* The process takes one of the steps treated above.
LEMMA StepCases ==
  ASSUME [Next]_vars
  PROVE  \/ \E s \in Signals : SendSignal(s)
         \/ RunSelects \/ SigReceives \/ RunReconnected
         \/ OtherSteps
         \/ UNCHANGED vars
BY DEF Next, Run, Sig, Environment, OtherSteps

\* Every step.
LEMMA QueueInvNext == QueueInv /\ [Next]_vars => QueueInv'
<1> SUFFICES ASSUME QueueInv, [Next]_vars PROVE QueueInv'
  OBVIOUS
<1>1. CASE UNCHANGED vars
  BY <1>1 DEF vars, goroutines, errors, signals, phases, server, QueueInv,
              TypeOK, WaitersOK
<1> QED
  BY <1>1, StepCases, SendSignalQueue, ReceiveQueue, ReconnectedQueue,
     OtherStepsQueue

LEMMA QueueInvariant == Spec => []QueueInv
BY QueueInvInit, QueueInvNext, PTL DEF Spec

\* The variables of the process keep their types: the channel holds one signal
\* at most, and only goroutines that receive from it wait in its queue.
THEOREM LifecycleTypeCorrect == Spec => []TypeOK
BY QueueInvariant, PTL DEF QueueInv

-----------------------------------------------------------------------------
(* Draining                                                                  *)

\* The signal goroutine keeps the signal it took, and no step takes Degraded
\* back.
LEMMA DrainedNext ==
  QueueInv /\ DrainedStaysUnhealthy /\ [Next]_vars => DrainedStaysUnhealthy'
<1> SUFFICES ASSUME QueueInv, DrainedStaysUnhealthy, [Next]_vars
             PROVE  DrainedStaysUnhealthy'
  OBVIOUS
<1>1. ASSUME NEW s \in Signals, SendSignal(s) PROVE DrainedStaysUnhealthy'
  <2>1. CASE waiters # << >> /\ Head(waiters) # "run" /\ sig' = "got"
    BY <2>1 DEF DrainedStaysUnhealthy
  <2>2. CASE UNCHANGED <<sig, got>>
    BY <1>1, <2>2 DEF SendSignal, phases, DrainedStaysUnhealthy
  <2> QED
    BY <1>1, <2>1, <2>2 DEF SendSignal
<1>2. CASE SigReceives
  BY <1>2 DEF SigReceives, DrainedStaysUnhealthy
<1>3. CASE SigSetsHealth \/ SigCancels
  BY <1>3 DEF SigSetsHealth, SigCancels, SetHealth, signals, DrainedStaysUnhealthy
<1>4. CASE Main
  BY <1>4 DEF Main, MakeListener, ListenTest, Ready, Shutdown, ShutdownReturns,
              ShutdownTest, SetHealth, signals, phases, DrainedStaysUnhealthy
<1>5. CASE RunSelects \/ RunReconnected \/ RunStarts \/ RunReturns \/ RunTest
  BY <1>5 DEF RunSelects, RunReconnected, RunStarts, RunReturns, RunTest,
              signals, phases, DrainedStaysUnhealthy
<1>6. CASE \/ Accept \/ Finish \/ PingFails
           \/ Serve \/ ServeFails \/ HealthFails \/ HealthTest
  BY <1>6 DEF Accept, Finish, PingFails, Serve, ServeReturns, ServeTest,
              ServeFails, HealthFails, HealthTest, goroutines, signals, phases,
              DrainedStaysUnhealthy
<1>7. CASE UNCHANGED vars
  BY <1>7 DEF vars, goroutines, signals, phases, DrainedStaysUnhealthy
<1> QED
  BY <1>1, <1>2, <1>3, <1>4, <1>5, <1>6, <1>7, StepCases DEF OtherSteps

\* Once SIGUSR1 was handled the health check never says healthy again (Ready,
\* SetHealth), in every build and for any number of signals.
THEOREM DrainedAlwaysUnhealthy == Spec => []DrainedStaysUnhealthy
<1>1. Init => DrainedStaysUnhealthy
  BY DEF Init, DrainedStaysUnhealthy
<1> QED
  BY <1>1, DrainedNext, QueueInvariant, PTL DEF Spec

-----------------------------------------------------------------------------
(* Start and shutdown, in builds that do not load err again: a goroutine     *)
(* tests what it assigned.                                                   *)

NoReload == Reloads = {FALSE}

\* The health check was told by main, which had waited for both.
Started == health = "Healthy" => ready /\ listener # "none"

\* What main has established at each place.  own["main"] is the error of the
\* call it made last.
MainInv ==
  /\ main = "test listen" /\ own["main"] = "nil" => listener = "open"
  /\ main \in {"listen", "test listen"} => serve = "off"
  /\ main \in {"wait ready", "wait done"} => listener # "none"
  /\ main \in {"shutdown", "test shutdown", "ended"} => listener = "closed"
  /\ main = "test shutdown" /\ own["main"] = "nil" => active = 0
  /\ DrainedMeansSuccess
  /\ SuccessMeansDrained
  /\ Started

LifeInv == QueueInv /\ MainInv

\* Nothing was made yet.
LEMMA MainInvInit == Init => MainInv
BY LifecycleAssumption
DEF Init, MainInv, DrainedMeansSuccess, SuccessMeansDrained, Started

\* The test of an error reads what the goroutine assigned.
LEMMA OwnError ==
  ASSUME NoReload, NEW g
  PROVE  Tested(g) = {own[g]}
BY DEF NoReload, Tested

\* The steps of main.
LEMMA MainKeepsMainInv ==
  ASSUME NoReload, LifeInv, Main
  PROVE  MainInv'
<1>0. None # 0 /\ 1 # 0
  BY LifecycleAssumption
<1> USE DEF LifeInv, MainInv, QueueInv, TypeOK, DrainedMeansSuccess,
        SuccessMeansDrained, Started
<1>1. CASE MakeListener
  BY <1>1 DEF MakeListener, Assign, signals, phases
<1>2. CASE ListenTest
  <2>1. IF own["main"] # "nil" THEN exit' = 1 /\ UNCHANGED main
        ELSE main' = "wait ready" /\ UNCHANGED exit
    <3>1. Tested("main") = {own["main"]}
      BY OwnError
    <3> QED
      BY <1>2, <3>1 DEF ListenTest
  <2> QED
    BY <1>0, <1>2, <2>1 DEF ListenTest, errors, signals, phases, server
<1>3. CASE Ready \/ Shutdown
  BY <1>3 DEF Ready, Shutdown, SetHealth, errors, signals, phases, server
<1>4. CASE ShutdownReturns
  BY <1>4 DEF ShutdownReturns, Assign, signals, phases, server
<1>5. CASE ShutdownTest
  <2>1. exit' = IF own["main"] # "nil" THEN 1 ELSE 0
    <3>1. Tested("main") = {own["main"]}
      BY OwnError
    <3> QED
      BY <1>5, <3>1 DEF ShutdownTest
  <2> QED
    BY <1>0, <1>5, <2>1 DEF ShutdownTest, errors, signals, phases, server
<1> QED
  BY <1>1, <1>2, <1>3, <1>4, <1>5 DEF Main

\* A number of requests above zero is not zero.
LEMMA PositiveIsNotZero == \A n \in Nat : n > 0 => n # 0
OBVIOUS

\* The steps of the others: they set the status only when they fail, and no
\* request arrives once the listener is closed.
LEMMA OthersKeepMainInv ==
  ASSUME LifeInv, Next, ~ Main
  PROVE  MainInv'
<1>0. /\ None # 0 /\ 1 # 0 /\ active \in Nat
      /\ own \in [{"main", "run", "serve", "hc"} -> Errors]
  BY LifecycleAssumption DEF LifeInv, QueueInv, TypeOK
<1> USE DEF LifeInv, MainInv, DrainedMeansSuccess, SuccessMeansDrained,
            Started
<1>1. ASSUME NEW s \in Signals, SendSignal(s) PROVE MainInv'
  BY <1>1 DEF SendSignal, errors, phases, server
<1>2. CASE Accept \/ Finish \/ PingFails
  <2>1. CASE Accept
    BY <1>0, <2>1 DEF Accept, goroutines, errors, phases
  <2>2. CASE Finish
    <3>1. UNCHANGED <<main, serve, own, listener, exit, health, ready>>
      BY <2>2 DEF Finish, goroutines, errors, phases
    <3>2. exit # 0
      BY <1>0, <2>2 DEF Finish
    <3>3. active > 0
      BY <2>2 DEF Finish
    <3>4. active # 0
      <4>1. active \in Nat
        BY <1>0
      <4> QED
        BY <3>3, <4>1, PositiveIsNotZero, Zenon
    <3> QED
      BY <3>1, <3>2, <3>4
  <2>3. CASE PingFails
    <3>1. UNCHANGED <<main, serve, own, listener, active, health, ready>>
      BY <2>3 DEF PingFails, goroutines, errors, phases, server
    <3>2. exit = None /\ exit' = 1
      BY <2>3 DEF PingFails
    <3> QED
      BY <1>0, <3>1, <3>2
  <2> QED
    BY <1>2, <2>1, <2>2, <2>3
<1>3. CASE RunStarts \/ RunReturns \/ RunTest
  <2>1. CASE RunStarts
    BY <1>0, <2>1 DEF RunStarts, Assign, server
  <2>2. CASE RunReturns
    BY <1>0, <2>2 DEF RunReturns, Assign, phases, server
  <2>3. CASE RunTest
    BY <1>0, <2>3 DEF RunTest, errors, phases, server
  <2> QED
    BY <1>3, <2>1, <2>2, <2>3
<1>4. CASE RunSelects \/ RunReconnected \/ Sig
  BY <1>4 DEF RunSelects, RunReconnected, Sig, SigReceives, SigSetsHealth,
              SigCancels, SetHealth, errors, signals, phases, server
<1>5. CASE Serve \/ ServeFails \/ HealthFails \/ HealthTest
  <2>1. CASE ServeReturns \/ ServeFails \/ HealthFails
    BY <1>0, <2>1 DEF ServeReturns, ServeFails, HealthFails, Assign, phases, server
  <2>2. CASE ServeTest \/ HealthTest
    BY <1>0, <2>2 DEF ServeTest, HealthTest, errors, phases, server
  <2> QED
    BY <1>5, <2>1, <2>2 DEF Serve
<1> QED
  BY <1>1, <1>2, <1>3, <1>4, <1>5 DEF Next, Run, Environment

\* Every step.
LEMMA MainInvNext == NoReload /\ LifeInv /\ [Next]_vars => MainInv'
<1> SUFFICES ASSUME NoReload, LifeInv, [Next]_vars PROVE MainInv'
  OBVIOUS
<1>1. CASE UNCHANGED vars
  BY <1>1 DEF vars, goroutines, errors, phases, server, LifeInv, MainInv,
              DrainedMeansSuccess, SuccessMeansDrained, Started
<1> QED
  BY <1>1, MainKeepsMainInv, OthersKeepMainInv

LEMMA LifeInvariant == NoReload => (Spec => []LifeInv)
<1> SUFFICES ASSUME NoReload PROVE Spec => []LifeInv
  OBVIOUS
<1>1. Init => LifeInv
  BY QueueInvInit, MainInvInit DEF LifeInv
<1>2. LifeInv /\ [Next]_vars => LifeInv'
  BY QueueInvNext, MainInvNext DEF LifeInv
<1> QED
  BY <1>1, <1>2, PTL DEF Spec

\* Who may have closed the listener of a process that has not ended.
ListenerInv ==
  /\ cancelled => sig = "ended"
  /\ main \in {"shutdown", "test shutdown", "ended"} => cancelled
  /\ listener = "closed" /\ exit = None =>
       \/ main \in {"shutdown", "test shutdown", "ended"}
       \/ serve = "test" /\ own["serve"] = "accept"

LEMMA ListenerInvInit == Init => ListenerInv
BY DEF Init, ListenerInv

\* A signal wakes who waits for it, and nobody who ended.
LEMMA SignalWakes ==
  ASSUME QueueInv, NEW s \in Signals, SendSignal(s)
  PROVE  sig = "ended" => sig' = sig
<1>1. CASE waiters # << >> /\ Head(waiters) # "run"
  <2>1. waiters \in Seq(Names) /\ Distinct(waiters)
    BY DEF QueueInv, TypeOK, WaitersOK, Distinct, Names
  <2>2. Head(waiters) = "sig"
    BY <1>1, <2>1, QueueTail DEF Names
  <2>3. Head(waiters) = waiters[1] /\ Len(waiters) \in Nat /\ Len(waiters) >= 1
    BY <1>1, <2>1, HeadTailProperties, EmptySeq, LenProperties
  <2>4. sig = "blocked"
    BY <2>2, <2>3 DEF QueueInv, WaitersOK
  <2> QED
    BY <2>4
<1>2. CASE UNCHANGED <<sig, got>>
  BY <1>2
<1> QED
  BY <1>1, <1>2 DEF SendSignal

\* A step that touches none of this.
LEMMA ListenerFrame ==
  ASSUME ListenerInv, UNCHANGED <<main, serve, listener, cancelled>>,
         sig = "ended" => sig' = sig, own'["serve"] = own["serve"], exit = None
  PROVE  ListenerInv'
BY DEF ListenerInv

\* Shutdown closes it, and Serve does; a failed Serve ends the process.
LEMMA ListenerInvNext ==
  ASSUME NoReload, LifeInv, ListenerInv, [Next]_vars
  PROVE  ListenerInv'
<1>0. /\ None # 0 /\ 1 # None
      /\ own \in [{"main", "run", "serve", "hc"} -> Errors]
      /\ cancelled \in BOOLEAN
  BY LifecycleAssumption DEF LifeInv, QueueInv, TypeOK
<1> USE DEF ListenerInv
<1>1. ASSUME NEW s \in Signals, SendSignal(s) PROVE ListenerInv'
  <2>1. sig = "ended" => sig' = sig
    BY <1>1, SignalWakes DEF LifeInv
  <2> QED
    BY <1>0, <1>1, <2>1 DEF SendSignal, errors, phases, server
<1>2. CASE Accept \/ Finish \/ PingFails
  <2>1. UNCHANGED <<main, sig, serve, own, listener, cancelled>> /\ exit = None
    BY <1>2 DEF Accept, Finish, PingFails, goroutines, errors, phases, server
  <2> QED
    BY <2>1, ListenerFrame
<1>3. CASE RunStarts \/ RunReturns \/ RunTest
  <2>1. UNCHANGED <<main, sig, serve, listener, cancelled>> /\ exit = None
    BY <1>3 DEF RunStarts, RunReturns, RunTest, phases, server
  <2>2. own'["serve"] = own["serve"]
    BY <1>0, <1>3 DEF RunStarts, RunReturns, RunTest, Assign, errors
  <2> QED
    BY <2>1, <2>2, ListenerFrame
<1>4. CASE RunSelects \/ RunReconnected \/ SigReceives \/ SigSetsHealth
  <2>1. UNCHANGED <<main, serve, own, listener, cancelled>> /\ exit = None
    BY <1>4 DEF RunSelects, RunReconnected, SigReceives, SigSetsHealth, errors, phases, server
  <2>2. sig = "ended" => sig' = sig
    BY <1>4 DEF RunSelects, RunReconnected, SigReceives, SigSetsHealth
  <2> QED
    BY <2>1, <2>2, ListenerFrame
<1>5. CASE SigCancels
  BY <1>5 DEF SigCancels, errors, server
<1>11. CASE ServeReturns
  BY <1>0, <1>11 DEF ServeReturns, Assign, phases, server
<1>12. CASE ServeFails
  BY <1>0, <1>12 DEF ServeFails, Assign, phases
<1>13. CASE HealthFails
  <2>1. UNCHANGED <<main, sig, serve, listener, cancelled>> /\ exit = None
    BY <1>13 DEF HealthFails, phases, server
  <2>2. own'["serve"] = own["serve"]
    BY <1>0, <1>13 DEF HealthFails, Assign
  <2> QED
    BY <2>1, <2>2, ListenerFrame
<1>6. CASE ServeTest
  <2>1. exit' = IF own["serve"] \notin {"nil", "closed"} THEN 1 ELSE None
    <3>1. Tested("serve") = {own["serve"]}
      BY OwnError
    <3> QED
      BY <1>6, <3>1 DEF ServeTest
  <2> QED
    BY <1>0, <1>6, <2>1 DEF ServeTest, errors, phases, server
<1>7. CASE HealthTest
  BY <1>0, <1>7 DEF HealthTest, errors, phases, server
<1>8. CASE MakeListener
  BY <1>0, <1>8 DEF MakeListener, Assign, phases
<1>14. CASE ListenTest
  <2>1. main = "test listen" /\ serve = "off"
    BY <1>14 DEF ListenTest, LifeInv, MainInv
  <2>2. main' \in {"test listen", "wait ready"}
        /\ UNCHANGED <<sig, own, listener, cancelled>> /\ exit = None
    BY <1>14, <2>1 DEF ListenTest, errors, phases, server
  <2> QED
    BY <2>1, <2>2
<1>15. CASE Ready
  BY <1>15 DEF Ready, errors, server
<1>9. CASE Shutdown \/ ShutdownReturns \/ ShutdownTest
  BY <1>0, <1>9 DEF Shutdown, ShutdownReturns, ShutdownTest, Assign, errors, phases, server
<1>10. CASE UNCHANGED vars
  BY <1>0, <1>10 DEF vars, goroutines, errors, phases, server
<1> QED
  BY <1>1, <1>2, <1>3, <1>4, <1>5, <1>6, <1>7, <1>8, <1>9, <1>10, <1>11, <1>12, <1>13,
     <1>14, <1>15
  DEF Next, Run, Sig, Main, Serve, Environment

\* The health check says healthy only while the API server listens, except
\* during a shutdown other than by SIGUSR1 and on the way to the end of the
\* process after Serve failed (Ready, Shutdown, the test of Serve's error).
THEOREM HealthyAlwaysServing == NoReload => (Spec => []HealthyMeansServing)
<1> SUFFICES ASSUME NoReload PROVE Spec => []HealthyMeansServing
  OBVIOUS
<1>1. Init => ListenerInv
  BY ListenerInvInit
<1>2. LifeInv /\ ListenerInv /\ [Next]_vars => ListenerInv'
  BY ListenerInvNext
<1>3. LifeInv /\ ListenerInv /\ DrainedStaysUnhealthy => HealthyMeansServing
  <2> SUFFICES ASSUME LifeInv, ListenerInv, DrainedStaysUnhealthy,
                      health = "Healthy", exit = None, listener # "open"
               PROVE  /\ ready /\ listener = "closed"
                      /\ \/ cancelled /\ got # "SIGUSR1"
                         \/ serve = "test" /\ own["serve"] = "accept"
    BY DEF HealthyMeansServing, LifeInv, MainInv, Started
  <2>1. ready /\ listener = "closed"
    BY DEF LifeInv, MainInv, Started, QueueInv, TypeOK
  <2>2. \/ cancelled /\ sig = "ended"
        \/ serve = "test" /\ own["serve"] = "accept"
    BY <2>1 DEF ListenerInv
  <2> QED
    BY <2>1, <2>2 DEF DrainedStaysUnhealthy
<1> QED
  BY <1>1, <1>2, <1>3, LifeInvariant, DrainedAlwaysUnhealthy, PTL DEF Spec

\* Status 0 is reached only when every request in progress had ended (Shutdown).
THEOREM SuccessAlwaysDrained == NoReload => (Spec => []SuccessMeansDrained)
BY LifeInvariant, PTL DEF LifeInv, MainInv

\* A shutdown without error ends with status 0 (the last test of err).  With
\* reloads this is false: the run shared_err.
THEOREM DrainedAlwaysSucceeds == NoReload => (Spec => []DrainedMeansSuccess)
BY LifeInvariant, PTL DEF LifeInv, MainInv
=============================================================================
