-------------------------- MODULE NatsLink_proofs --------------------------
(***************************************************************************)
(* TickersExact and AnnouncedWhenSettled hold however often the connection *)
(* is lost: LinkInv is an invariant, by one step per action of NatsLink.   *)
(***************************************************************************)
EXTENDS NatsLink, SequenceTheorems, TLAPS

\* What the library queues comes last.
LEMMA Queued ==
  ASSUME NEW q \in Seq(Callback), NEW k \in Callback
  PROVE  /\ Append(q, k) \in Seq(Callback)
         /\ Append(q, k) # << >>
         /\ Len(q) \in Nat
         /\ Len(Append(q, k)) = Len(q) + 1
         /\ Append(q, k)[Len(q) + 1] = k
         /\ \A i \in 1 .. Len(q) : Append(q, k)[i] = q[i]
         /\ q = << >> <=> Len(q) = 0
BY AppendProperties, EmptySeq, LenProperties

\* What it runs comes first.
LEMMA Dequeued ==
  ASSUME NEW q \in Seq(Callback), q # << >>
  PROVE  /\ Tail(q) \in Seq(Callback)
         /\ Len(q) \in Nat /\ Len(q) > 0
         /\ Len(Tail(q)) = Len(q) - 1
         /\ Head(q) = q[1]
         /\ \A i \in 1 .. Len(q) - 1 : Tail(q)[i] = q[i + 1]
         /\ Tail(q) = << >> <=> Len(q) = 1
<1>1. Tail(q) \in Seq(Callback) /\ Len(Tail(q)) = Len(q) - 1
  BY HeadTailProperties
<1>2. Tail(q) = << >> <=> Len(Tail(q)) = 0
  BY <1>1, EmptySeq
<1>3. Len(q) \in Nat /\ Len(q) # 0
  BY EmptySeq, LenProperties
<1> QED
  BY <1>1, <1>2, <1>3, HeadTailProperties

\* Every step of mbus/client.go and of Run keeps the types of the variables.
LEMMA TypeStep == TypeOK /\ [Next]_vars => TypeOK'
<1> SUFFICES ASSUME TypeOK, [Next]_vars PROVE TypeOK'
  OBVIOUS
<1> USE NatsLinkAssumption DEF TypeOK, Reasons
<1>a. /\ "disconnected" \in Callback /\ "reconnected" \in Callback
      /\ "closed" \in Callback
  BY DEF Callback
<1>1. CASE Disconnect
  <2>1. queue' \in Seq(Callback)
    BY <1>1, <1>a, Queued DEF Disconnect
  <2>2. drops' \in 0 .. MaxDrops
    BY <1>1 DEF Disconnect
  <2> QED
    BY <1>1, <2>1, <2>2 DEF Disconnect
<1>2. CASE Reconnect BY <1>2, <1>a, Queued DEF Reconnect
<1>3. CASE Close
  <2>1. queue' \in Seq(Callback)
    BY <1>3, <1>a, Queued DEF Close
  <2> QED
    BY <1>3, <2>1 DEF Close
<1>4. CASE Connect BY <1>4 DEF Connect
<1>5. CASE Store BY <1>5 DEF Store
<1>6. CASE DisconnectedCB BY <1>6, Dequeued DEF DisconnectedCB
<1>7. CASE ReconnectedCB BY <1>7, Dequeued DEF ReconnectedCB
<1>8. CASE NotDisconnected BY <1>8 DEF NotDisconnected
<1>9. CASE ClosedCB BY <1>9, Dequeued DEF ClosedCB
<1>10. CASE HandOver BY <1>10 DEF HandOver
<1>11. CASE SendFirst
  BY <1>11 DEF SendFirst, StartMessageSent, StartMessageFails
<1>12. CASE Subscribe BY <1>12 DEF Subscribe
<1>13. CASE SendAgain
  BY <1>13 DEF SendAgain, StartMessageSent, StartMessageFails
<1>14. CASE Signalled BY <1>14 DEF Signalled
<1>15. CASE UNCHANGED vars BY <1>15 DEF vars
<1> QED
  BY <1>1, <1>2, <1>3, <1>4, <1>5, <1>6, <1>7, <1>8, <1>9, <1>10, <1>11,
     <1>12, <1>13, <1>14, <1>15 DEF Next, Library, Callbacks, Run

-----------------------------------------------------------------------------
(* The callbacks and the connection *)

\* Queueing a callback that fits the end keeps the alternation.
LEMMA AlternateAppend ==
  ASSUME NEW q \in Seq(Callback), NEW u \in {0, 1}, NEW k \in Callback,
         Alternate(q, u),
         k = "disconnected" => EndsUp(q, u),
         k = "reconnected" => EndsDown(q, u)
  PROVE  /\ Alternate(Append(q, k), u)
         /\ k = "disconnected" => EndsDown(Append(q, k), u)
         /\ k = "reconnected" => EndsUp(Append(q, k), u)
<1>1. k = "disconnected" => EndsDown(Append(q, k), u)
  BY Queued DEF EndsDown
<1>2. k = "reconnected" => EndsUp(Append(q, k), u)
  BY Queued DEF EndsUp
<1>3. ASSUME NEW i \in 1 .. Len(Append(q, k))
      PROVE  /\ Append(q, k)[i] = "disconnected" =>
                  IF i = 1 THEN u = 0 ELSE Append(q, k)[i - 1] = "reconnected"
             /\ Append(q, k)[i] = "reconnected" =>
                  IF i = 1 THEN u = 1 ELSE Append(q, k)[i - 1] = "disconnected"
  <2>1. CASE i <= Len(q)
    BY <2>1, Queued DEF Alternate
  <2>2. CASE i = Len(q) + 1
    BY <2>2, Queued DEF EndsUp, EndsDown
  <2> QED
    BY <2>1, <2>2, Queued
<1> QED
  BY <1>1, <1>2, <1>3 DEF Alternate

\* Taking the first callback keeps the alternation, with the callback taken as
\* the last one handled, and the end.
LEMMA AlternateTail ==
  ASSUME NEW q \in Seq(Callback), NEW u \in {0, 1}, NEW v \in {0, 1},
         q # << >>, Alternate(q, u),
         \/ Head(q) = "disconnected" /\ v = 1
         \/ Head(q) = "reconnected" /\ v = 0
  PROVE  /\ Alternate(Tail(q), v)
         /\ EndsUp(q, u) => EndsUp(Tail(q), v)
         /\ EndsDown(q, u) => EndsDown(Tail(q), v)
<1>1. ASSUME NEW i \in 1 .. Len(Tail(q))
      PROVE  /\ Tail(q)[i] = "disconnected" =>
                  IF i = 1 THEN v = 0 ELSE Tail(q)[i - 1] = "reconnected"
             /\ Tail(q)[i] = "reconnected" =>
                  IF i = 1 THEN v = 1 ELSE Tail(q)[i - 1] = "disconnected"
  <2>1. i + 1 \in 1 .. Len(q) /\ i \in 1 .. Len(q) - 1 /\ Tail(q)[i] = q[i + 1]
    BY Dequeued
  <2>2. CASE i = 1
    BY <2>1, <2>2, Dequeued DEF Alternate
  <2>3. CASE i # 1
    <3>1. Tail(q)[i - 1] = q[i]
      BY <2>1, <2>3, Dequeued
    <3> QED
      BY <2>1, <2>3, <3>1 DEF Alternate
  <2> QED
    BY <2>2, <2>3
<1>2. Tail(q) # << >> => Tail(q)[Len(Tail(q))] = q[Len(q)]
  BY Dequeued
<1>3. Tail(q) = << >> => q[Len(q)] = Head(q)
  BY Dequeued
<1> QED
  BY <1>1, <1>2, <1>3 DEF Alternate, EndsUp, EndsDown

\* No step of the library, of the callbacks or of Run breaks the agreement of
\* the queued callbacks with the connection, as long as the process lives.
LEMMA AlternatingStep ==
  ASSUME TypeOK, [Next]_vars, LinkInv, exit' = None, exit = None
  PROVE  Alternating'
<1> USE DEF TypeOK
<1>a. /\ "disconnected" \in Callback /\ "reconnected" \in Callback
      /\ "closed" \in Callback
  BY DEF Callback
<1>b. Alternating /\ Len(queue) \in Nat
  BY LenProperties DEF LinkInv
<1>1. CASE Disconnect
  <2>1. Unmatched' = Unmatched
    BY <1>1 DEF Disconnect, Unmatched
  <2>2. /\ Alternate(queue', Unmatched) /\ EndsDown(queue', Unmatched)
    BY <1>1, <1>a, <1>b, AlternateAppend DEF Disconnect, Alternating
  <2>3. \A i \in 1 .. Len(queue') : queue'[i] # "closed"
    BY <1>1, <1>a, <1>b, Queued DEF Disconnect, Alternating
  <2> QED
    BY <1>1, <1>b, <2>1, <2>2, <2>3
    DEF Disconnect, Alternating, Alternate, EndsDown
<1>2. CASE Reconnect
  <2>1. Unmatched' = Unmatched
    BY <1>2 DEF Reconnect, Unmatched
  <2>2. /\ Alternate(queue', Unmatched) /\ EndsUp(queue', Unmatched)
    BY <1>2, <1>a, <1>b, AlternateAppend DEF Reconnect, Alternating
  <2>3. \A i \in 1 .. Len(queue') : queue'[i] # "closed"
    BY <1>2, <1>a, <1>b, Queued DEF Reconnect, Alternating
  <2> QED
    BY <1>2, <1>b, <2>1, <2>2, <2>3
    DEF Reconnect, Alternating, Alternate, EndsUp
<1>3. CASE Close
  <2>1. Unmatched' = Unmatched
    BY <1>3 DEF Close, Unmatched
  <2>2. CASE queue' = Append(queue, "closed")
    BY <1>3, <1>a, <1>b, <2>1, <2>2, AlternateAppend
    DEF Close, Alternating, Alternate
  <2>3. CASE /\ link = "up"
             /\ queue' = Append(Append(queue, "disconnected"), "closed")
    <3>1. Alternate(Append(queue, "disconnected"), Unmatched)
      BY <1>a, <1>b, <2>3, AlternateAppend DEF Alternating
    <3>2. Append(queue, "disconnected") \in Seq(Callback)
      BY <1>a, Queued
    <3>3. Unmatched \in {0, 1}
      BY <1>b DEF Alternating
    <3>4. Alternate(Append(Append(queue, "disconnected"), "closed"), Unmatched)
      BY <1>a, <3>1, <3>2, <3>3, AlternateAppend
    <3> QED
      BY <1>3, <1>b, <2>1, <2>3, <3>4 DEF Close, Alternating, Alternate
  <2> QED
    BY <1>3, <2>2, <2>3 DEF Close
<1>4. CASE DisconnectedCB
  <2>1. /\ queue # << >> /\ Head(queue) = "disconnected"
        /\ queue' = Tail(queue) /\ link' = link
        /\ tickers' = tickers + 1 /\ cb = "idle" /\ cb' = cb
    BY <1>4, NatsLinkAssumption DEF DisconnectedCB, Reasons
  <2>2. Unmatched = 0 /\ Unmatched' = 1
    BY <1>b, <2>1, Dequeued DEF Alternating, Alternate, Unmatched
  <2>3. /\ Alternate(queue', Unmatched')
        /\ EndsUp(queue, Unmatched) => EndsUp(queue', Unmatched')
        /\ EndsDown(queue, Unmatched) => EndsDown(queue', Unmatched')
    BY <1>b, <2>1, <2>2, AlternateTail DEF Alternating
  <2>4. link # "closed" => \A i \in 1 .. Len(queue') : queue'[i] # "closed"
    BY <1>b, <2>1, Dequeued DEF Alternating
  <2> QED
    BY <1>b, <2>1, <2>2, <2>3, <2>4
    DEF Alternating, Alternate, EndsUp, EndsDown
<1>5. CASE ReconnectedCB
  <2>1. /\ queue # << >> /\ Head(queue) = "reconnected"
        /\ queue' = Tail(queue) /\ link' = link
        /\ tickers' = tickers /\ cb = "idle" /\ cb' = "notDisconnected"
    BY <1>5 DEF ReconnectedCB
  <2>2. Unmatched = 1 /\ Unmatched' = 0
    BY <1>b, <2>1, Dequeued DEF Alternating, Alternate, Unmatched
  <2>3. /\ Alternate(queue', Unmatched')
        /\ EndsUp(queue, Unmatched) => EndsUp(queue', Unmatched')
        /\ EndsDown(queue, Unmatched) => EndsDown(queue', Unmatched')
    BY <1>b, <2>1, <2>2, AlternateTail DEF Alternating
  <2>4. link # "closed" => \A i \in 1 .. Len(queue') : queue'[i] # "closed"
    BY <1>b, <2>1, Dequeued DEF Alternating
  <2> QED
    BY <1>b, <2>1, <2>2, <2>3, <2>4
    DEF Alternating, Alternate, EndsUp, EndsDown
<1>6. CASE ClosedCB
  BY <1>6, NatsLinkAssumption DEF ClosedCB, Reasons
<1>7. CASE Connect
  <2>1. /\ queue' = queue /\ Unmatched' = Unmatched
        /\ link = "none" /\ link' \in {"none", "up"}
    BY <1>7 DEF Connect, LinkInv, Unmatched
  <2> QED
    BY <1>b, <2>1 DEF Alternating, Alternate, EndsUp
<1>8. CASE \/ NotDisconnected \/ HandOver \/ Store \/ SendFirst \/ Subscribe
           \/ SendAgain \/ Signalled \/ UNCHANGED vars
  <2>1. queue' = queue /\ link' = link /\ Unmatched' = Unmatched
    BY <1>8
    DEF NotDisconnected, HandOver, Store, SendFirst, Subscribe, SendAgain,
        Signalled, vars, Unmatched
  <2> QED
    BY <1>b, <2>1 DEF Alternating, Alternate, EndsUp, EndsDown
<1> QED
  BY <1>1, <1>2, <1>3, <1>4, <1>5, <1>6, <1>7, <1>8
  DEF Next, Library, Callbacks, Run

\* As long as the process lives, a connection that is not announced has its
\* announcement ahead: a callback queued or running, or Run about to send.
LEMMA AnnouncementStep ==
  ASSUME TypeOK, [Next]_vars, LinkInv, exit' = None, exit = None
  PROVE  AnnouncementDue'
<1> USE DEF TypeOK
<1>a. AnnouncementDue /\ Alternating
  BY DEF LinkInv
<1>1. CASE Disconnect BY <1>1 DEF Disconnect, AnnouncementDue
<1>2. CASE Reconnect
  BY <1>2, Queued DEF Reconnect, AnnouncementDue, Callback
<1>3. CASE Close BY <1>3 DEF Close, AnnouncementDue
<1>4. CASE DisconnectedCB
  <2>1. link = "up" => Tail(queue) # << >>
    BY <1>4, <1>a, Dequeued DEF DisconnectedCB, Alternating, EndsUp
  <2> QED
    BY <1>4, <2>1 DEF DisconnectedCB, AnnouncementDue
<1>5. CASE ReconnectedCB BY <1>5 DEF ReconnectedCB, AnnouncementDue
<1>6. CASE NotDisconnected BY <1>6 DEF NotDisconnected, AnnouncementDue
<1>7. CASE ClosedCB BY <1>7, NatsLinkAssumption DEF ClosedCB, Reasons
<1>8. CASE HandOver BY <1>8 DEF HandOver, AnnouncementDue
<1>9. CASE Connect BY <1>9, <1>a DEF Connect, AnnouncementDue, LinkInv
<1>10. CASE Store BY <1>10 DEF Store, AnnouncementDue
<1>11. CASE SendFirst
  BY <1>11, NatsLinkAssumption
  DEF SendFirst, StartMessageSent, StartMessageFails, AnnouncementDue, Reasons
<1>12. CASE Subscribe
  BY <1>12, <1>a, NatsLinkAssumption DEF Subscribe, AnnouncementDue, Reasons
<1>13. CASE SendAgain
  BY <1>13 DEF SendAgain, StartMessageSent, StartMessageFails, AnnouncementDue
<1>14. CASE Signalled BY <1>14 DEF Signalled, AnnouncementDue
<1>15. CASE UNCHANGED vars BY <1>15, <1>a DEF vars, AnnouncementDue
<1> QED
  BY <1>1, <1>2, <1>3, <1>4, <1>5, <1>6, <1>7, <1>8, <1>9, <1>10, <1>11,
     <1>12, <1>13, <1>14, <1>15 DEF Next, Library, Callbacks, Run

\* The process ends once: no step undoes an exit.
LEMMA ExitStays ==
  ASSUME [Next]_vars, exit # None
  PROVE  UNCHANGED vars
BY DEF Next, Library, Callbacks, Run, Disconnect, Reconnect, Close,
       DisconnectedCB, ReconnectedCB, NotDisconnected, ClosedCB, HandOver,
       Connect, Store, SendFirst, Subscribe, SendAgain, Signalled

\* The counts of LinkInv: one logging goroutine at most, and one whenever
\* ReconnectedCB sends to it.
LEMMA TickersStep ==
  ASSUME TypeOK, [Next]_vars, LinkInv, exit = None
  PROVE  /\ tickers' <= 1
         /\ (cb = "notDisconnected" => tickers = 1)'
         /\ (run = "connect" => link = "none")'
<1> USE DEF TypeOK
<1>a. Alternating
  BY DEF LinkInv
<1>1. CASE DisconnectedCB
  <2>1. cb = "idle" /\ tickers = 0
    BY <1>1, <1>a, Dequeued DEF DisconnectedCB, Alternating, Alternate, Unmatched
  <2> QED
    BY <1>1, <2>1 DEF DisconnectedCB, LinkInv
<1>2. CASE ReconnectedCB
  <2>1. tickers = 1
    BY <1>2, <1>a, Dequeued DEF ReconnectedCB, Alternating, Alternate, Unmatched
  <2> QED
    BY <1>2, <2>1 DEF ReconnectedCB, LinkInv
<1>3. CASE NotDisconnected \/ HandOver
  BY <1>3 DEF NotDisconnected, HandOver, LinkInv
<1>4. CASE Library \/ ClosedCB
  BY <1>4, <1>a
  DEF Library, Disconnect, Reconnect, Close, ClosedCB, LinkInv, Alternating
<1>5. CASE Connect \/ Store \/ Signalled
  BY <1>5 DEF Connect, Store, Signalled, LinkInv
<1>6. CASE Run
  BY <1>6 DEF Run, SendFirst, Subscribe, SendAgain, LinkInv
<1>7. CASE UNCHANGED vars
  BY <1>7 DEF vars, LinkInv
<1> QED
  BY <1>1, <1>2, <1>3, <1>4, <1>5, <1>6, <1>7 DEF Next, Callbacks

-----------------------------------------------------------------------------
\* The variables keep their types, however often the connection is lost.
THEOREM LinkTypeCorrect == Spec => []TypeOK
<1>1. Init => TypeOK
  <2>1. /\ << >> \in Seq(Callback) /\ 3 \in 0 .. 3 /\ 3 # 0
        /\ 0 \in Nat /\ 0 \in 0 .. MaxDrops
    BY NatsLinkAssumption
  <2> QED
    BY <2>1 DEF Init, TypeOK
<1> QED
  BY <1>1, TypeStep, PTL DEF Spec

\* LinkInv is an invariant of the callbacks (mbus/client.go) with Run.
THEOREM LinkInvariant == Spec => []LinkInv
<1>1. Init => LinkInv
  BY DEF Init, LinkInv, Alternating, Alternate, Unmatched, EndsUp, AnnouncementDue
<1>2. TypeOK /\ LinkInv /\ [Next]_vars => LinkInv'
  <2> SUFFICES ASSUME TypeOK, LinkInv, [Next]_vars PROVE LinkInv'
    OBVIOUS
  <2>1. CASE exit = None
    BY <2>1, AlternatingStep, AnnouncementStep, TickersStep DEF LinkInv
  <2>2. CASE exit # None
    BY <2>2, ExitStays DEF LinkInv, vars
  <2> QED
    BY <2>1, <2>2
<1> QED
  BY <1>1, <1>2, LinkTypeCorrect, PTL DEF Spec

\* ReconnectedCB never waits for a logging goroutine that is not there and
\* leaves none behind.
THEOREM TickersAlwaysExact == Spec => []TickersExact
<1>1. LinkInv => TickersExact
  BY DEF LinkInv, TickersExact, Settled, Alternating, EndsUp, Unmatched
<1> QED
  BY <1>1, LinkInvariant, PTL

\* Whenever all is settled the connection in use was announced.
THEOREM AlwaysAnnounced == Spec => []AnnouncedWhenSettled
<1>1. LinkInv => AnnouncedWhenSettled
  BY DEF LinkInv, AnnouncedWhenSettled, Settled, AnnouncementDue
<1> QED
  BY <1>1, LinkInvariant, PTL
=============================================================================
