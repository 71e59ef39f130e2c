---------------------------- MODULE Broker_proofs ----------------------------
(***************************************************************************)
(* Proofs about Broker.tla, for any bindings, endpoints, handlers and      *)
(* scrapes.                                                                *)
(***************************************************************************)
EXTENDS Broker, WellFoundedInduction, TLAPS

Busy(h) == pc[h] # "idle"

\* Handlers in progress know what they work on.
HandlersOK ==
  \A h \in Handlers : Busy(h) =>
    binding[h] \in Bindings /\ (pc[h] = "create" => endpoint[h] # None)

\* An undisturbed request is the only one on its application.
Exclusive ==
  \A h, g \in Handlers :
    Busy(h) /\ clean[h] /\ Busy(g) /\ App(g) = App(h) => g = h

\* What requests in progress may still do is visible already.
Announced ==
  \A h \in Handlers :
    /\ pc[h] \in {"delete", "create"} =>
         Asked(binding[h], endpoint[h]) \subseteq visible[App(h)]
    /\ pc[h] = "unbind" =>
         None \in visible[App(h)] \/ visible[App(h)] \cap WritesOf(binding[h]) = {}

\* Between the statements of an undisturbed Bind there is no row.
Cleared ==
  \A h \in Handlers : pc[h] = "create" /\ clean[h] => RowsOf(App(h)) = {}

RowsVisible ==
  \A b \in Bindings : rows[b] # None => Row(b) \in visible[AppOf[b]]

NoneVisible ==
  \A a \in Apps : RowsOf(a) = {} => None \in visible[a]

\* The part of the type invariant that the requests rely on.
TableTypeOK ==
  /\ rows \in [Bindings -> Endpoints \cup {None}]
  /\ pc \in [Handlers -> {"idle", "delete", "create", "unbind"}]
  /\ binding \in [Handlers -> Bindings \cup {None}]
  /\ endpoint \in [Handlers -> Endpoints \cup {None}]
  /\ clean \in [Handlers -> BOOLEAN]
  /\ visible \in [Apps -> SUBSET (Writes \cup {None})]

BrokerInv ==
  /\ TableTypeOK /\ HandlersOK /\ Exclusive /\ Announced
  /\ Cleared /\ RowsVisible /\ NoneVisible

-----------------------------------------------------------------------------
Less == {ss \in Nat \X Nat : ss[1] < ss[2]}

\* A set of numbers that is not empty has a least one, which Min picks.
LEMMA MinIsMember ==
  ASSUME NEW S, S \subseteq Nat, S # {}
  PROVE  Min(S) \in S
<1>1. OpToRel(<, Nat) = Less
  BY Zenon DEF OpToRel, Less
<1>2. IsWellFoundedOn(Less, Nat)
  BY <1>1, NatLessThanWellFounded
<1>3. PICK x \in S : \A y \in S : <<y, x>> \notin Less
  BY <1>2, WFMin
<1>4. ASSUME NEW y \in S PROVE x =< y
  <2>1. x \in Nat /\ y \in Nat /\ <<y, x>> \notin Less
    BY <1>3
  <2> QED
    BY <2>1 DEF Less
<1> QED
  BY <1>4 DEF Min

LEMMA InitInv == Init => BrokerInv
BY BrokerAssumption DEF Init, BrokerInv, TableTypeOK, HandlersOK, Exclusive, Announced,
   Cleared, RowsVisible, NoneVisible, Busy, RowsOf, Apps

LEMMA AppInApps ==
  ASSUME BrokerInv, NEW h \in Handlers, Busy(h)
  PROVE  binding[h] \in Bindings /\ App(h) \in Apps
BY DEF BrokerInv, HandlersOK, App, Apps

-----------------------------------------------------------------------------
(* What a step of one handler leaves alone *)

\* A step of h writes rows of its own application only.
OwnRows(h) == \A b \in Bindings : AppOf[b] # App(h) => rows'[b] = rows[b]

\* It takes something back only if nothing disturbed it, and only there.
OwnVisible(h) ==
  \A a \in Apps : visible'[a] = visible[a] \/ (clean[h] /\ a = App(h))

\* The handlers other than h go on as they were.
OthersUnchanged(h) ==
  \A g \in Handlers \ {h} :
    /\ pc'[g] = pc[g] /\ binding'[g] = binding[g]
    /\ endpoint'[g] = endpoint[g] /\ clean'[g] = clean[g]

LEMMA ReturnFrame ==
  ASSUME TableTypeOK, NEW h \in Handlers, Return(h)
  PROVE  /\ OthersUnchanged(h)
         /\ ~ Busy(h)'
         /\ pc' \in [Handlers -> {"idle", "delete", "create", "unbind"}]
         /\ binding' \in [Handlers -> Bindings \cup {None}]
         /\ endpoint' \in [Handlers -> Endpoints \cup {None}]
         /\ clean' \in [Handlers -> BOOLEAN]
BY DEF TableTypeOK, Return, OthersUnchanged, Busy

LEMMA SettleFrame ==
  ASSUME BrokerInv, NEW h \in Handlers, Busy(h), NEW found, Settle(h, found)
  PROVE  /\ OwnVisible(h)
         /\ clean[h] => visible'[App(h)] = found
         /\ ~ clean[h] => visible' = visible
         /\ found \subseteq Writes \cup {None} =>
              visible' \in [Apps -> SUBSET (Writes \cup {None})]
<1>1. App(h) \in Apps /\ visible \in [Apps -> SUBSET (Writes \cup {None})]
  BY AppInApps DEF BrokerInv, TableTypeOK
<1> QED
  BY <1>1 DEF Settle, OwnVisible

\* The requests of other handlers that are in progress keep their invariants.
LEMMA OthersKeep ==
  ASSUME BrokerInv, NEW h \in Handlers, Busy(h),
         OthersUnchanged(h), OwnRows(h), OwnVisible(h),
         NEW g \in Handlers, g # h, Busy(g)'
  PROVE  /\ Busy(g) /\ App(g)' = App(g)
         /\ binding'[g] \in Bindings
         /\ pc'[g] = "create" => endpoint'[g] # None
         /\ visible'[App(g)] = visible[App(g)]
         /\ clean'[g] => RowsOf(App(g))' = RowsOf(App(g))
<1>1. /\ pc'[g] = pc[g] /\ binding'[g] = binding[g]
      /\ endpoint'[g] = endpoint[g] /\ clean'[g] = clean[g]
  BY DEF OthersUnchanged
<1>2. Busy(g) /\ App(g)' = App(g)
  BY <1>1 DEF Busy, App
<1>3. App(g) \in Apps /\ binding[g] \in Bindings
  BY <1>2, AppInApps
<1>4. /\ binding'[g] \in Bindings
      /\ pc'[g] = "create" => endpoint'[g] # None
  BY <1>1, <1>2, <1>3 DEF BrokerInv, HandlersOK
<1>5. App(g) = App(h) => ~ clean[h] /\ ~ clean[g]
  BY <1>2 DEF BrokerInv, Exclusive
<1>6. visible'[App(g)] = visible[App(g)]
  BY <1>3, <1>5 DEF OwnVisible
<1>7. clean'[g] => RowsOf(App(g))' = RowsOf(App(g))
  <2> SUFFICES ASSUME clean'[g]
               PROVE  \A b \in Bindings : AppOf[b] = App(g) => rows'[b] = rows[b]
    BY <1>2 DEF RowsOf
  <2> QED
    BY <1>1, <1>5 DEF OwnRows
<1> QED
  BY <1>2, <1>4, <1>6, <1>7

LEMMA OthersAnnounced ==
  ASSUME BrokerInv, NEW h \in Handlers, Busy(h),
         OthersUnchanged(h), OwnRows(h), OwnVisible(h),
         NEW g \in Handlers, g # h, Busy(g)'
  PROVE  /\ pc'[g] \in {"delete", "create"} =>
              Asked(binding'[g], endpoint'[g]) \subseteq visible'[App(g)']
         /\ pc'[g] = "unbind" =>
              \/ None \in visible'[App(g)']
              \/ visible'[App(g)'] \cap WritesOf(binding'[g]) = {}
<1>1. pc'[g] = pc[g] /\ binding'[g] = binding[g] /\ endpoint'[g] = endpoint[g]
  BY DEF OthersUnchanged
<1>2. App(g)' = App(g) /\ visible'[App(g)'] = visible[App(g)]
  BY OthersKeep
<1> QED
  BY <1>1, <1>2 DEF BrokerInv, Announced

-----------------------------------------------------------------------------
(* A handler that returns *)

\* A step that ends a request keeps the invariant if it keeps the rows visible.
LEMMA ReturnInv ==
  ASSUME BrokerInv, NEW h \in Handlers, Busy(h), Return(h),
         OwnRows(h), OwnVisible(h),
         rows' \in [Bindings -> Endpoints \cup {None}],
         visible' \in [Apps -> SUBSET (Writes \cup {None})],
         RowsVisible', NoneVisible'
  PROVE  BrokerInv'
<1> USE DEF BrokerInv
<1>1. /\ OthersUnchanged(h) /\ ~ Busy(h)' /\ TableTypeOK'
  BY ReturnFrame DEF TableTypeOK
<1>2. \A g \in Handlers : Busy(g)' => g # h
  BY <1>1
<1>3. HandlersOK'
  BY <1>1, <1>2, OthersKeep DEF HandlersOK
<1>4. Exclusive'
  <2> SUFFICES ASSUME NEW f \in Handlers, NEW g \in Handlers,
                      Busy(f)', clean'[f], Busy(g)', App(g)' = App(f)'
               PROVE  g = f
    BY DEF Exclusive
  <2>1. /\ Busy(f) /\ App(f)' = App(f) /\ clean'[f] = clean[f]
        /\ Busy(g) /\ App(g)' = App(g)
    BY <1>1, <1>2, OthersKeep DEF OthersUnchanged
  <2> QED
    BY <2>1 DEF Exclusive
<1>5. Announced'
  <2> SUFFICES ASSUME NEW g \in Handlers, Busy(g)'
               PROVE  /\ pc'[g] \in {"delete", "create"} =>
                           Asked(binding'[g], endpoint'[g]) \subseteq visible'[App(g)']
                      /\ pc'[g] = "unbind" =>
                           \/ None \in visible'[App(g)']
                           \/ visible'[App(g)'] \cap WritesOf(binding'[g]) = {}
    BY DEF Announced, Busy, Asked, WritesOf
  <2> QED
    BY <1>1, <1>2, OthersAnnounced
<1>6. Cleared'
  <2> SUFFICES ASSUME NEW g \in Handlers, pc'[g] = "create", clean'[g]
               PROVE  RowsOf(App(g))' = {}
    BY DEF Cleared
  <2>1. Busy(g)' /\ g # h
    BY <1>2 DEF Busy
  <2>2. pc[g] = "create" /\ clean[g] /\ RowsOf(App(g))' = RowsOf(App(g))
    BY <1>1, <2>1, OthersKeep DEF OthersUnchanged
  <2> QED
    BY <2>2 DEF Cleared
<1> QED
  BY <1>1, <1>3, <1>4, <1>5, <1>6

\* Rows of other applications stay visible.
LEMMA ElsewhereVisible ==
  ASSUME BrokerInv, NEW h \in Handlers, Busy(h), OwnRows(h), OwnVisible(h)
  PROVE  /\ \A b \in Bindings : AppOf[b] # App(h) /\ rows'[b] # None =>
              Row(b)' \in visible'[AppOf[b]]
         /\ \A a \in Apps : a # App(h) /\ RowsOf(a)' = {} => None \in visible'[a]
<1>1. \A a \in Apps : a # App(h) => visible'[a] = visible[a] /\ RowsOf(a)' = RowsOf(a)
  BY DEF OwnVisible, OwnRows, RowsOf
<1>2. ASSUME NEW b \in Bindings, AppOf[b] # App(h), rows'[b] # None
      PROVE  Row(b)' \in visible'[AppOf[b]]
  <2>1. AppOf[b] \in Apps /\ rows'[b] = rows[b]
    BY <1>2 DEF Apps, OwnRows
  <2>2. Row(b)' = Row(b) /\ Row(b) \in visible[AppOf[b]]
    BY <1>2, <2>1 DEF Row, BrokerInv, RowsVisible
  <2> QED
    BY <1>1, <1>2, <2>1, <2>2
<1> QED
  BY <1>1, <1>2 DEF BrokerInv, NoneVisible

LEMMA DieInv ==
  ASSUME BrokerInv, NEW h \in Handlers, Die(h)
  PROVE  BrokerInv'
<1>1. Busy(h) /\ Return(h) /\ rows' = rows /\ visible' = visible
  BY DEF Die, Busy
<1>2. OwnRows(h) /\ OwnVisible(h) /\ RowsVisible' /\ NoneVisible'
  BY <1>1 DEF OwnRows, OwnVisible, BrokerInv, RowsVisible, NoneVisible, Row, RowsOf
<1> QED
  BY <1>1, <1>2, ReturnInv DEF BrokerInv, TableTypeOK

LEMMA DeleteBindingFailsInv ==
  ASSUME BrokerInv, NEW h \in Handlers, DeleteBindingFails(h)
  PROVE  BrokerInv'
<1>1. Busy(h) /\ Return(h) /\ rows' = rows /\ visible' = visible
  BY DEF DeleteBindingFails, Busy
<1>2. OwnRows(h) /\ OwnVisible(h) /\ RowsVisible' /\ NoneVisible'
  BY <1>1 DEF OwnRows, OwnVisible, BrokerInv, RowsVisible, NoneVisible, Row, RowsOf
<1> QED
  BY <1>1, <1>2, ReturnInv DEF BrokerInv, TableTypeOK

\* Unbind removes one row; that None is visible then was arranged when it began.
LEMMA DeleteBindingInv ==
  ASSUME BrokerInv, NEW h \in Handlers, DeleteBinding(h)
  PROVE  BrokerInv'
<1> DEFINE found == visible[App(h)] \ WritesOf(binding[h])
<1>1. Busy(h) /\ Return(h) /\ Settle(h, found) /\ pc[h] = "unbind"
  BY DEF DeleteBinding, Busy
<1>2. binding[h] \in Bindings /\ App(h) \in Apps /\ App(h) = AppOf[binding[h]]
  BY <1>1, AppInApps DEF App
<1>3. /\ rows' \in [Bindings -> Endpoints \cup {None}]
      /\ rows'[binding[h]] = None
      /\ \A b \in Bindings : b # binding[h] => rows'[b] = rows[b]
  BY <1>2 DEF DeleteBinding, DeletedRow, BrokerInv, TableTypeOK
<1>4. OwnRows(h)
  BY <1>2, <1>3 DEF OwnRows
<1>5. found \subseteq Writes \cup {None}
  BY <1>2 DEF BrokerInv, TableTypeOK
<1>6. /\ OwnVisible(h)
      /\ clean[h] => visible'[App(h)] = found
      /\ ~ clean[h] => visible' = visible
      /\ visible' \in [Apps -> SUBSET (Writes \cup {None})]
  BY <1>1, <1>5, SettleFrame
<1>7. RowsVisible'
  <2> SUFFICES ASSUME NEW b \in Bindings, AppOf[b] = App(h), rows'[b] # None
               PROVE  Row(b)' \in visible'[App(h)]
    BY <1>1, <1>4, <1>6, ElsewhereVisible DEF RowsVisible
  <2>1. b # binding[h] /\ rows'[b] = rows[b] /\ Row(b)' = Row(b)
    BY <1>3 DEF Row
  <2>2. Row(b) \in visible[App(h)] /\ Row(b) \notin WritesOf(binding[h])
    BY <2>1 DEF BrokerInv, RowsVisible, Row, WritesOf
  <2> QED
    BY <1>6, <2>1, <2>2
<1>8. NoneVisible'
  <2> SUFFICES ASSUME \A b \in Bindings : AppOf[b] = App(h) => rows'[b] = None
               PROVE  None \in visible'[App(h)]
    BY <1>1, <1>4, <1>6, ElsewhereVisible DEF NoneVisible, RowsOf
  <2>1. None \in visible[App(h)]
    <3>1. CASE rows[binding[h]] = None
      <4>1. RowsOf(App(h)) = {}
        BY <1>3, <3>1 DEF RowsOf
      <4> QED
        BY <1>2, <4>1 DEF BrokerInv, NoneVisible
    <3>2. CASE rows[binding[h]] # None
      <4>1. Row(binding[h]) \in visible[App(h)]
        BY <1>2, <3>2 DEF BrokerInv, RowsVisible
      <4>2. Row(binding[h]) \in WritesOf(binding[h])
        BY <1>2, <3>2 DEF Row, WritesOf, BrokerInv, TableTypeOK
      <4> QED
        BY <1>1, <4>1, <4>2 DEF BrokerInv, Announced
    <3> QED
      BY <3>1, <3>2
  <2>2. None \notin WritesOf(binding[h])
    BY <1>2, BrokerAssumption DEF WritesOf, Writes
  <2> QED
    BY <1>6, <2>1, <2>2
<1> QED
  BY <1>1, <1>3, <1>4, <1>6, <1>7, <1>8, ReturnInv

-----------------------------------------------------------------------------
(* The statements of Bind *)

\* What an undisturbed Bind leaves is its own row at most, and its row is what
\* it asked for.
LEMMA CreatedInv ==
  ASSUME BrokerInv, NEW h \in Handlers, pc[h] = "create", Return(h),
         NEW found, Settle(h, found),
         found \subseteq Asked(binding[h], endpoint[h]),
         \/ rows' = rows /\ None \in found
         \/ rows' = Inserted(h) /\ <<binding[h], endpoint[h]>> \in found
  PROVE  BrokerInv'
<1> DEFINE w == <<binding[h], endpoint[h]>>
<1>1. Busy(h)
  BY DEF Busy
<1>2. binding[h] \in Bindings /\ App(h) \in Apps /\ App(h) = AppOf[binding[h]]
  BY <1>1, AppInApps DEF App
<1>3. endpoint[h] \in Endpoints
  BY <1>1 DEF BrokerInv, TableTypeOK, HandlersOK
<1>4. rows' \in [Bindings -> Endpoints \cup {None}] /\ OwnRows(h)
  BY <1>2, <1>3 DEF Inserted, OwnRows, BrokerInv, TableTypeOK
<1>5. found \subseteq Writes \cup {None}
  BY <1>2, <1>3 DEF Asked, Writes
<1>6. /\ OwnVisible(h)
      /\ clean[h] => visible'[App(h)] = found
      /\ ~ clean[h] => visible' = visible
      /\ visible' \in [Apps -> SUBSET (Writes \cup {None})]
  BY <1>1, <1>5, SettleFrame
<1>7. w \in visible[App(h)] /\ None \in visible[App(h)]
  BY <1>3, BrokerAssumption DEF BrokerInv, Announced, Asked
<1>8. clean[h] => \A b \in Bindings : AppOf[b] = App(h) => rows[b] = None
  BY DEF BrokerInv, Cleared, RowsOf
<1>9. RowsVisible'
  <2> SUFFICES ASSUME NEW b \in Bindings, AppOf[b] = App(h), rows'[b] # None
               PROVE  Row(b)' \in visible'[App(h)]
    BY <1>1, <1>4, <1>6, ElsewhereVisible DEF RowsVisible
  <2>1. CASE rows' = Inserted(h) /\ w \in found /\ b = binding[h]
    <3>1. Row(b)' = w
      BY <1>2, <2>1 DEF Row, Inserted, BrokerInv, TableTypeOK
    <3> QED
      BY <1>6, <1>7, <2>1, <3>1
  <2>2. CASE rows'[b] = rows[b]
    <3>1. ~ clean[h] /\ Row(b)' = Row(b)
      BY <1>8, <2>2 DEF Row
    <3> QED
      BY <1>6, <2>2, <3>1 DEF BrokerInv, RowsVisible
  <2> QED
    BY <1>2, <2>1, <2>2 DEF Inserted, BrokerInv, TableTypeOK
<1>10. NoneVisible'
  <2> SUFFICES ASSUME \A b \in Bindings : AppOf[b] = App(h) => rows'[b] = None
               PROVE  None \in visible'[App(h)]
    BY <1>1, <1>4, <1>6, ElsewhereVisible DEF NoneVisible, RowsOf
  <2>1. rows' # Inserted(h)
    <3> SUFFICES ASSUME rows' = Inserted(h) PROVE FALSE
      OBVIOUS
    <3>1. rows'[binding[h]] # None
      BY <1>2, <1>3, BrokerAssumption DEF Inserted, BrokerInv, TableTypeOK
    <3> QED
      BY <1>2, <3>1
  <2> QED
    BY <1>6, <1>7, <2>1
<1> QED
  BY <1>1, <1>4, <1>6, <1>9, <1>10, ReturnInv

LEMMA CreateInv ==
  ASSUME BrokerInv, NEW h \in Handlers, Create(h)
  PROVE  BrokerInv'
<1> DEFINE found == {<<binding[h], endpoint[h]>>}
<1>1. pc[h] = "create" /\ Return(h) /\ Settle(h, found) /\ rows' = Inserted(h)
  BY DEF Create
<1>2. endpoint[h] # None
  BY <1>1 DEF BrokerInv, HandlersOK, Busy
<1>3. found \subseteq Asked(binding[h], endpoint[h])
  BY <1>2 DEF Asked
<1>4. <<binding[h], endpoint[h]>> \in found
  BY DEF Create
<1> HIDE DEF found
<1> QED
  BY <1>1, <1>3, <1>4, CreatedInv

LEMMA CreateFailsInv ==
  ASSUME BrokerInv, NEW h \in Handlers, CreateFails(h)
  PROVE  BrokerInv'
<1> DEFINE found == Asked(binding[h], endpoint[h])
<1>1. /\ pc[h] = "create" /\ Return(h) /\ Settle(h, found)
      /\ rows' = rows \/ rows' = Inserted(h)
     
  BY DEF CreateFails
<1>2. None \in found /\ <<binding[h], endpoint[h]>> \in found
  BY <1>1 DEF Asked, BrokerInv, HandlersOK, Busy
<1> HIDE DEF found
<1>3. found \subseteq Asked(binding[h], endpoint[h])
  BY DEF found
<1> QED
  BY <1>1, <1>2, <1>3, CreatedInv

\* A Bind that goes on to its second statement, with the rows deleted, or with
\* the rows left alone and marked as disturbed.
LEMMA GoOnInv ==
  ASSUME BrokerInv, NEW h \in Handlers, pc[h] = "delete", endpoint[h] # None,
         pc' = [pc EXCEPT ![h] = "create"],
         \/ rows' = DeletedRows(h) /\ clean' = clean
         \/ rows' = rows /\ clean' = [clean EXCEPT ![h] = FALSE],
         UNCHANGED <<binding, endpoint, visible>>
  PROVE  BrokerInv'
<1> USE DEF BrokerInv
<1>1. Busy(h) /\ binding[h] \in Bindings /\ App(h) \in Apps
  BY AppInApps DEF Busy
<1>2. TableTypeOK'
  BY DEF TableTypeOK, DeletedRows
<1>3. OthersUnchanged(h) /\ OwnVisible(h) /\ OwnRows(h)
  BY DEF OthersUnchanged, OwnVisible, OwnRows, DeletedRows, TableTypeOK
<1>4. \A g \in Handlers : App(g)' = App(g) /\ (Busy(g)' = Busy(g))
                          /\ (clean'[g] => clean[g])
  BY DEF App, Busy, TableTypeOK
<1>5. HandlersOK'
  BY <1>1, <1>4, OthersKeep DEF HandlersOK, Busy, TableTypeOK
<1>6. Exclusive'
  BY <1>4 DEF Exclusive
<1>7. Announced'
  <2> SUFFICES ASSUME NEW g \in Handlers
               PROVE  /\ pc'[g] \in {"delete", "create"} =>
                           Asked(binding[g], endpoint[g]) \subseteq visible[App(g)]
                      /\ pc'[g] = "unbind" =>
                           \/ None \in visible[App(g)]
                           \/ visible[App(g)] \cap WritesOf(binding[g]) = {}
    BY DEF Announced, Asked, WritesOf, App
  <2> QED
    BY DEF Announced, TableTypeOK
<1>8. Cleared'
  <2> SUFFICES ASSUME NEW g \in Handlers, pc'[g] = "create", clean'[g]
               PROVE  RowsOf(App(g))' = {}
    BY DEF Cleared
  <2>1. CASE g = h
    <3>1. rows' = DeletedRows(h)
      BY <2>1 DEF TableTypeOK
    <3> QED
      BY <1>4, <2>1, <3>1 DEF RowsOf, DeletedRows
  <2>2. CASE g # h
    <3>1. pc[g] = "create" /\ clean[g] /\ Busy(g)'
      BY <1>4, <2>2 DEF TableTypeOK, Busy
    <3>2. RowsOf(App(g))' = RowsOf(App(g))
      BY <1>1, <1>3, <2>2, <3>1, OthersKeep
    <3> QED
      BY <3>1, <3>2 DEF Cleared
  <2> QED
    BY <2>1, <2>2
<1>9. RowsVisible'
  <2> SUFFICES ASSUME NEW b \in Bindings, rows'[b] # None
               PROVE  Row(b)' \in visible[AppOf[b]]
    BY DEF RowsVisible
  <2>1. rows'[b] = rows[b]
    BY DEF DeletedRows
  <2> QED
    BY <2>1 DEF Row, RowsVisible
<1>10. NoneVisible'
  <2> SUFFICES ASSUME NEW a \in Apps, RowsOf(a)' = {}
               PROVE  None \in visible'[a]
    BY DEF NoneVisible
  <2>1. CASE a = App(h)
    BY <2>1 DEF Announced, Asked
  <2>2. CASE a # App(h)
    BY <1>1, <1>3, <2>2, ElsewhereVisible
  <2> QED
    BY <2>1, <2>2
<1> QED
  BY <1>2, <1>5, <1>6, <1>7, <1>8, <1>9, <1>10

LEMMA DeleteOldInv ==
  ASSUME BrokerInv, NEW h \in Handlers, DeleteOld(h)
  PROVE  BrokerInv'
<1>1. pc[h] = "delete" /\ Busy(h) /\ rows' = DeletedRows(h)
  BY DEF DeleteOld, Busy
<1>2. CASE endpoint[h] # None
  BY <1>1, <1>2, GoOnInv DEF DeleteOld
<1>3. CASE endpoint[h] = None
  <2> DEFINE found == {None}
  <2>1. Return(h) /\ Settle(h, found)
    BY <1>3 DEF DeleteOld
  <2>2. App(h) \in Apps
    BY <1>1, AppInApps
  <2>3. rows' \in [Bindings -> Endpoints \cup {None}] /\ OwnRows(h)
    BY <1>1 DEF DeletedRows, OwnRows, BrokerInv, TableTypeOK
  <2>4. /\ OwnVisible(h)
        /\ clean[h] => visible'[App(h)] = found
        /\ ~ clean[h] => visible' = visible
        /\ visible' \in [Apps -> SUBSET (Writes \cup {None})]
    BY <1>1, <2>1, SettleFrame
  <2>5. None \in visible'[App(h)]
    BY <1>1, <2>4 DEF BrokerInv, Announced, Asked
  <2>6. \A b \in Bindings : AppOf[b] = App(h) => rows'[b] = None
    BY <1>1 DEF DeletedRows
  <2>7. RowsVisible' /\ NoneVisible'
    BY <1>1, <2>3, <2>4, <2>5, <2>6, ElsewhereVisible DEF RowsVisible, NoneVisible
  <2> QED
    BY <1>1, <2>1, <2>3, <2>4, <2>7, ReturnInv DEF BrokerInv, TableTypeOK
<1> QED
  BY <1>2, <1>3

LEMMA DeleteOldFailsInv ==
  ASSUME BrokerInv, NEW h \in Handlers, DeleteOldFails(h)
  PROVE  BrokerInv'
<1>1. /\ pc[h] = "delete" /\ Busy(h)
      /\ rows' = rows /\ visible' = visible
  BY DEF DeleteOldFails, Busy
<1>2. CASE endpoint[h] # None
  BY <1>1, <1>2, GoOnInv DEF DeleteOldFails
<1>3. CASE endpoint[h] = None
  <2>1. Return(h)
    BY <1>3 DEF DeleteOldFails
  <2>2. OwnRows(h) /\ OwnVisible(h) /\ RowsVisible' /\ NoneVisible'
    BY <1>1 DEF OwnRows, OwnVisible, BrokerInv, RowsVisible, NoneVisible, Row, RowsOf
  <2> QED
    BY <1>1, <2>1, <2>2, ReturnInv DEF BrokerInv, TableTypeOK
<1> QED
  BY <1>2, <1>3

-----------------------------------------------------------------------------
(* A request that begins *)

\* A request that begins keeps the invariant if it adds to what is visible,
\* None included whenever it adds anything, and announces what it may do.
LEMMA BeginInv ==
  ASSUME BrokerInv, NEW h \in Handlers, NEW b \in Bindings,
         NEW e \in Endpoints \cup {None}, NEW step \in {"delete", "unbind"},
         Begin(h, b, e, step),
         NEW more \in SUBSET (Writes \cup {None}),
         visible' = [visible EXCEPT ![AppOf[b]] = @ \cup more],
         more # {} => None \in more,
         step = "delete" => Asked(b, e) \subseteq more,
         step = "unbind" =>
           None \in more \/ (visible[AppOf[b]] \cup more) \cap WritesOf(b) = {}
  PROVE  BrokerInv'
<1> USE DEF BrokerInv
<1>1. AppOf[b] \in Apps
  BY DEF Apps
<1>2. TableTypeOK'
  BY <1>1 DEF TableTypeOK, Begin
<1>3. /\ pc'[h] = step /\ binding'[h] = b /\ endpoint'[h] = e /\ ~ Busy(h)
      /\ App(h)' = AppOf[b] /\ rows' = rows
  BY DEF Begin, TableTypeOK, App, Busy
<1>4. \A g \in Handlers : g # h =>
        /\ pc'[g] = pc[g] /\ binding'[g] = binding[g] /\ endpoint'[g] = endpoint[g]
        /\ App(g)' = App(g) /\ (Busy(g)' = Busy(g))
  BY DEF Begin, TableTypeOK, App, Busy
<1>5. \A a \in Apps : /\ visible[a] \subseteq visible'[a]
                      /\ visible'[a] = visible[a] \/ None \in visible'[a]
  BY <1>1 DEF TableTypeOK
<1>6. visible'[AppOf[b]] = visible[AppOf[b]] \cup more
  BY <1>1 DEF TableTypeOK
<1>7. HandlersOK'
  BY <1>3, <1>4 DEF HandlersOK
<1>8. Exclusive'
  <2>1. clean'[h] => \A g \in Handlers : g # h /\ Busy(g) => App(g) # AppOf[b]
    BY DEF Begin, Overlapping, Busy
  <2>2. \A g \in Handlers : g # h /\ clean'[g] =>
          clean[g] /\ (Busy(g) => App(g) # AppOf[b])
    BY DEF Begin, Overlapping, Busy
  <2> SUFFICES ASSUME NEW f \in Handlers, NEW g \in Handlers,
                      Busy(f)', clean'[f], Busy(g)', App(g)' = App(f)', g # f
               PROVE  FALSE
    BY DEF Exclusive
  <2>3. CASE f = h
    BY <1>3, <1>4, <2>1, <2>3
  <2>4. CASE f # h /\ g = h
    BY <1>3, <1>4, <2>2, <2>4
  <2>5. CASE f # h /\ g # h
    BY <1>4, <2>2, <2>5 DEF Exclusive
  <2> QED
    BY <2>3, <2>4, <2>5
<1>9. Announced'
  <2> SUFFICES ASSUME NEW g \in Handlers, Busy(g)'
               PROVE  /\ pc'[g] \in {"delete", "create"} =>
                           Asked(binding'[g], endpoint'[g]) \subseteq visible'[App(g)']
                      /\ pc'[g] = "unbind" =>
                           \/ None \in visible'[App(g)']
                           \/ visible'[App(g)'] \cap WritesOf(binding'[g]) = {}
    BY DEF Announced, Busy, Asked, WritesOf
  <2>1. CASE g = h
    BY <1>3, <1>6, <2>1
  <2>2. CASE g # h
    <3>1. Busy(g) /\ App(g) \in Apps
      BY <1>4, <2>2, AppInApps
    <3> QED
      BY <1>4, <1>5, <2>2, <3>1 DEF Announced
  <2> QED
    BY <2>1, <2>2
<1>10. Cleared'
  <2> SUFFICES ASSUME NEW g \in Handlers, pc'[g] = "create", clean'[g]
               PROVE  RowsOf(App(g))' = {}
    BY DEF Cleared
  <2>1. g # h /\ pc[g] = "create" /\ App(g)' = App(g)
    BY <1>3, <1>4
  <2>2. clean[g]
    BY <2>1 DEF Begin
  <2> QED
    BY <1>3, <2>1, <2>2 DEF Cleared, RowsOf
<1>11. RowsVisible'
  BY <1>3, <1>5 DEF RowsVisible, Row, Apps
<1>12. NoneVisible'
  BY <1>3, <1>5 DEF NoneVisible, RowsOf
<1> QED
  BY <1>2, <1>7, <1>8, <1>9, <1>10, <1>11, <1>12

LEMMA BindInv ==
  ASSUME BrokerInv, NEW h \in Handlers, NEW b \in Bindings,
         NEW e \in Endpoints \cup {None}, Bind(h, b, e)
  PROVE  BrokerInv'
<1> DEFINE more == Asked(b, e)
<1>1. more \in SUBSET (Writes \cup {None}) /\ None \in more
  BY DEF Asked, Writes
<1>2. /\ Begin(h, b, e, "delete")
      /\ visible' = [visible EXCEPT ![AppOf[b]] = @ \cup more]
  BY DEF Bind
<1> HIDE DEF more
<1>3. Asked(b, e) \subseteq more
  BY DEF more
<1> QED
  BY <1>1, <1>2, <1>3, BeginInv

LEMMA UnbindInv ==
  ASSUME BrokerInv, NEW h \in Handlers, NEW b \in Bindings, Unbind(h, b)
  PROVE  BrokerInv'
<1> DEFINE more == {x \in {None} : visible[AppOf[b]] \cap WritesOf(b) # {}}
<1>1. /\ more \in SUBSET (Writes \cup {None})
      /\ more # {} => None \in more
      /\ None \in more \/ (visible[AppOf[b]] \cup more) \cap WritesOf(b) = {}
  OBVIOUS
<1>2. /\ Begin(h, b, None, "unbind")
      /\ visible' = [visible EXCEPT ![AppOf[b]] = @ \cup more]
  BY DEF Unbind
<1> HIDE DEF more
<1> QED
  BY <1>1, <1>2, BeginInv

-----------------------------------------------------------------------------
(* Steps *)

\* A step of the broker is one of a handler.
LEMMA BrokerStepInv ==
  ASSUME BrokerInv, NEW h \in Handlers, BrokerStep(h)
  PROVE  BrokerInv' /\ scrape' = scrape
<1>1. /\ scrape' = scrape
      /\ \/ \E b \in Bindings :
              Unbind(h, b) \/ \E e \in Endpoints \cup {None} : Bind(h, b, e)
         \/ DeleteOld(h) \/ DeleteOldFails(h) \/ Create(h) \/ CreateFails(h)
         \/ DeleteBinding(h) \/ DeleteBindingFails(h)
         \/ Die(h)
  BY DEF BrokerStep
<1> QED
  BY <1>1, BindInv, UnbindInv, DeleteOldInv, DeleteOldFailsInv, CreateInv,
     CreateFailsInv, DeleteBindingInv, DeleteBindingFailsInv, DieInv

LEMMA UnchangedInv ==
  ASSUME BrokerInv, UNCHANGED <<rows, pc, binding, endpoint, clean, visible>>
  PROVE  BrokerInv'
BY DEF BrokerInv, TableTypeOK, HandlersOK, Exclusive, Announced, Cleared, RowsVisible,
   NoneVisible, Busy, App, Row, RowsOf, Asked, WritesOf

\* The row that the order of the key picks is one that may be found.
LEMMA LookupVisible ==
  ASSUME BrokerInv, NEW a \in Apps
  PROVE  Lookup(a) \in visible[a]
<1>1. CASE RowsOf(a) = {}
  BY <1>1 DEF Lookup, BrokerInv, NoneVisible
<1>2. CASE RowsOf(a) # {}
  <2>1. Min(RowsOf(a)) \in RowsOf(a)
    BY <1>2, MinIsMember, BrokerAssumption DEF RowsOf
  <2> QED
    BY <1>2, <2>1 DEF Lookup, RowsOf, BrokerInv, RowsVisible
<1> QED
  BY <1>1, <1>2

\* What a scrape may read: a row that may be found, or nothing and
\* its statement failed.
Readable(a, finding) ==
  \/ finding.row \in visible[a]
  \/ finding.failed /\ finding.row = None

\* A scrape leaves the table and the requests alone.
LEMMA ScrapeStepFrame ==
  ASSUME BrokerInv, NEW s \in Scrapes, ScrapeStep(s)
  PROVE  /\ UNCHANGED <<rows, pc, binding, endpoint, clean, visible>>
         /\ \/ scrape' = [scrape EXCEPT ![s] = None]
            \/ \E a \in Apps, finding \in Findings :
                 /\ finding.app = a /\ Readable(a, finding)
                 /\ scrape' = [scrape EXCEPT ![s] = finding]
<1>1. CASE ScrapeEnds(s)
  BY <1>1 DEF ScrapeEnds
<1>2. ASSUME NEW a \in Apps, LookUp(s, a)
      PROVE  /\ UNCHANGED <<rows, pc, binding, endpoint, clean, visible>>
             /\ \E finding \in Findings :
                  /\ finding.app = a /\ Readable(a, finding)
                  /\ scrape' = [scrape EXCEPT ![s] = finding]
  <2> DEFINE finding == [app |-> a, row |-> Lookup(a), failed |-> FALSE]
  <2>1. Lookup(a) \in visible[a] /\ visible[a] \subseteq Writes \cup {None}
    BY LookupVisible DEF BrokerInv, TableTypeOK
  <2>2. finding \in Findings
    BY <2>1 DEF Findings
  <2> QED
    BY <1>2, <2>1, <2>2 DEF LookUp, Found, Readable
<1>3. ASSUME NEW a \in Apps, LookUpFails(s, a)
      PROVE  /\ UNCHANGED <<rows, pc, binding, endpoint, clean, visible>>
             /\ \E finding \in Findings :
                  /\ finding.app = a /\ Readable(a, finding)
                  /\ scrape' = [scrape EXCEPT ![s] = finding]
  <2> DEFINE finding == [app |-> a, row |-> None, failed |-> TRUE]
  <2>1. finding \in Findings
    BY DEF Findings
  <2> QED
    BY <1>3, <2>1 DEF LookUpFails, Found, Readable
<1> QED
  BY <1>1, <1>2, <1>3 DEF ScrapeStep

-----------------------------------------------------------------------------
ScrapesOK == scrape \in [Scrapes -> Findings \cup {None}]

LEMMA StepInv == BrokerInv /\ ScrapesOK /\ [Next]_vars => BrokerInv' /\ ScrapesOK'
<1> SUFFICES ASSUME BrokerInv, ScrapesOK, [Next]_vars PROVE BrokerInv' /\ ScrapesOK'
  OBVIOUS
<1>1. ASSUME NEW h \in Handlers, BrokerStep(h) PROVE BrokerInv' /\ ScrapesOK'
  BY <1>1, BrokerStepInv DEF ScrapesOK, Findings, Apps, Writes
<1>2. ASSUME NEW s \in Scrapes, ScrapeStep(s) PROVE BrokerInv' /\ ScrapesOK'
  <2>1. BrokerInv'
    BY <1>2, ScrapeStepFrame, UnchangedInv
  <2>2. ScrapesOK'
    BY <1>2, ScrapeStepFrame DEF ScrapesOK, Findings, Apps, Writes
  <2> QED
    BY <2>1, <2>2
<1>3. CASE UNCHANGED vars
  BY <1>3, UnchangedInv DEF vars, ScrapesOK, Findings, Apps, Writes
<1> QED
  BY <1>1, <1>2, <1>3 DEF Next

\* The inductive invariant of the broker: types, and what requests in progress
\* rely on.
THEOREM BrokerInvariant == Spec => [](BrokerInv /\ ScrapesOK)
<1>1. Init => BrokerInv /\ ScrapesOK
  BY InitInv DEF Init, ScrapesOK
<1> QED
  BY <1>1, StepInv, PTL DEF Spec

\* Type correctness of the broker's table and handlers, and of the scrapes.
THEOREM BrokerTypeCorrect == Spec => []TypeOK
<1>1. BrokerInv /\ ScrapesOK => TypeOK
  BY DEF BrokerInv, TableTypeOK, ScrapesOK, TypeOK
<1> QED
  BY <1>1, BrokerInvariant, PTL

\* The table is a regular register for each application (Bind, Unbind and the
\* lookup of the scraper), for any number of bindings, of requests and of
\* scrapes at a time, with failing statements, those of the lookups included,
\* and dying processes.
THEOREM EndpointAlwaysRegular == Spec => EndpointIsRegular
<1> DEFINE Read ==
      \A s \in Scrapes :
        scrape'[s] # scrape[s] /\ scrape'[s] # None => Readable(scrape'[s].app, scrape'[s])
<1>1. ASSUME BrokerInv, ScrapesOK, [Next]_vars PROVE [Read]_vars
  <2>1. ASSUME NEW h \in Handlers, BrokerStep(h) PROVE Read
    BY <1>1, <2>1, BrokerStepInv
  <2>2. ASSUME NEW t \in Scrapes, ScrapeStep(t) PROVE Read
    <3>1. \A s \in Scrapes \ {t} : scrape'[s] = scrape[s]
      BY <1>1, <2>2, ScrapeStepFrame DEF ScrapesOK
    <3>2. scrape'[t] # None => Readable(scrape'[t].app, scrape'[t])
      BY <1>1, <2>2, ScrapeStepFrame DEF ScrapesOK
    <3> QED
      BY <3>1, <3>2
  <2>3. CASE UNCHANGED vars
    BY <2>3
  <2> QED
    BY <1>1, <2>1, <2>2, <2>3 DEF Next
<1>2. [Read]_vars =>
        [\A s \in Scrapes :
           scrape'[s] # scrape[s] /\ scrape'[s] # None =>
             \/ scrape'[s].row \in visible[scrape'[s].app]
             \/ scrape'[s].failed /\ scrape'[s].row = None]_vars
  BY DEF Readable
<1> QED
  BY <1>1, <1>2, BrokerInvariant, PTL DEF Spec, EndpointIsRegular
=============================================================================
