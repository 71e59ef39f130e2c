------------------------------ MODULE MCBroker ------------------------------
(***************************************************************************)
(* An instance of Broker.tla for TLC.                                      *)
(***************************************************************************)
EXTENDS Broker, TLC

\* Two bindings of one application, and one of another.
TwoApps == [b \in Bindings |-> IF b = 3 THEN "app2" ELSE "app1"]

\* Handlers, and the paths a Bind asks for, are interchangeable.
Interchangeable == Permutations(Handlers) \cup Permutations(Endpoints)
=============================================================================
