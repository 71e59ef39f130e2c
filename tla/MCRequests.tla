----------------------------- MODULE MCRequests -----------------------------
(***************************************************************************)
(* Instances of Requests.tla for TLC.                                      *)
(***************************************************************************)
EXTENDS Requests

CONSTANTS a1, a2, a3, a4, a5, p1, p2  \* arrays and requests

Symmetric == Permutations(Arrays) \cup Permutations(Readers)

Key(h) == [host |-> h, upper |-> FALSE, tail |-> ""]

Msg(inst, port, app, uris) ==
  [inst |-> inst, host |-> "cell", port |-> port, tls_port |-> 0,
   app_id |-> app, path |-> app, type |-> "web", uris |-> uris,
   route_service |-> ""]

TwoUris == {Key("h1"), Key("h2")}

OneUri == {Key("h1")}

\* App A has two instances; i0 is mapped to two hosts.  i2 was started at the
\* address of i0, whose unregister message may come later, or never.
AppMessages ==
  { Msg("i0", 1, "A", <<Key("h1"), Key("h2")>>),
    Msg("i1", 2, "A", <<Key("h1")>>),
    Msg("i2", 1, "A", <<Key("h2")>>) }

AppQueries ==
  { [by |-> "id",   arg |-> "A", only_app |-> FALSE],
    [by |-> "path", arg |-> "A", only_app |-> TRUE] }

OneHostMessages ==
  { Msg("i0", 1, "A", <<Key("h1")>>),
    Msg("i1", 2, "A", <<Key("h1")>>),
    Msg("i2", 3, "A", <<Key("h1")>>) }

NameQueries == { [by |-> "name", arg |-> Key("h1"), only_app |-> FALSE] }

OneExporter == <<"ee">>

NoExporter == << >>
=============================================================================
