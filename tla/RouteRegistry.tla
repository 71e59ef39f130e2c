--------------------------- MODULE RouteRegistry ---------------------------
(***************************************************************************)
(* What the routing table promises: under each key, the set of instances   *)
(* that were registered and not unregistered since, each with the tags it  *)
(* was last registered with.  A message is handled one URI after the other *)
(* and in one go for each.  It knows nothing of slices, of their order or  *)
(* of arrays; RoutesFetcher.tla is shown to implement it.                  *)
(***************************************************************************)
EXTENDS Naturals, Sequences, Routes

CONSTANTS Key, Route, KeyOf(_), Idle

VARIABLES reg, todo

Known(k, r) == {q \in reg[k] : Equal(r, q)}

Init == reg = [k \in Key |-> {}] /\ todo = Idle

\* A known instance is replaced when its tags changed, and kept otherwise.
Register(k, r) ==
  \/ /\ Known(k, r) = {} \/ \E q \in Known(k, r) : NeedUpdate(r, q)
     /\ reg' = [reg EXCEPT ![k] = (@ \ Known(k, r)) \cup {r}]
  \/ /\ Known(k, r) # {}
     /\ \A q \in Known(k, r) : ~ NeedUpdate(r, q)
     /\ UNCHANGED reg

Unregister(k, r) == reg' = [reg EXCEPT ![k] = @ \ Known(k, r)]

Deliver ==
  /\ todo = Idle
  /\ todo' \in [op : {"register", "unregister"}, route : Route,
                uris : Seq(Key) \ {<< >>}]
  /\ UNCHANGED reg

Handle ==
  /\ todo # Idle
  /\ \/ todo.op = "register"   /\ Register(KeyOf(Head(todo.uris)), todo.route)
     \/ todo.op = "unregister" /\ Unregister(KeyOf(Head(todo.uris)), todo.route)
  /\ todo' = IF Len(todo.uris) = 1 THEN Idle
             ELSE [op |-> todo.op, route |-> todo.route, uris |-> Tail(todo.uris)]

Next == Deliver \/ Handle

Spec == Init /\ [][Next]_<<reg, todo>>
=============================================================================
