------------------------------ MODULE MCRoutes ------------------------------
(***************************************************************************)
(* Instances of RoutesFetcher.tla for TLC.                                 *)
(***************************************************************************)
EXTENDS RoutesFetcher, TLC

CONSTANTS a1, a2, a3, a4  \* backing arrays

Symmetric == Permutations(Arrays)

Key(h) == [host |-> h, upper |-> FALSE, tail |-> ""]

Msg(inst, port, tls, app, path, uris) ==
  [inst |-> inst, host |-> "cell", port |-> port, tls_port |-> tls,
   app_id |-> app, path |-> path, type |-> "web", uris |-> uris,
   route_service |-> ""]

\* Two hosts, every URI a key.
PlainUri == {Key("h1"), Key("h2")}

\* Instance i0 is mapped to both hosts, was renamed (path p2) and restarted on
\* a port of its own TLS proxy; i1 and i2 are further instances; the last three
\* messages are of no application, or rejected.
PlainMessages ==
  { Msg("i0", 1, 0, "app", "p1", <<Key("h1"), Key("h2")>>),
    Msg("i0", 1, 0, "app", "p2", <<Key("h1")>>),
    Msg("i0", 1, 5, "app", "p1", <<Key("h2"), Key("h1")>>),
    Msg("i1", 2, 0, "app", "p1", <<Key("h1")>>),
    Msg("i2", 3, 0, "app", "p1", <<Key("h1")>>),
    Msg("i3", 4, 0, NoApp, "p1", <<Key("h1")>>),
    Msg("i3", 4, 0, NoApp, "p1", << >>),
    [Msg("i4", 5, 0, "app", "p1", <<Key("h1")>>) EXCEPT !.route_service = "http"] }

\* One host and a path with upper case letters: the URI is not its own key.
PathUri == {Key("h1"), [Key("h1") EXCEPT !.upper = TRUE]}

PathMessages ==
  { Msg("i0", 1, 0, "app", "p1", <<[Key("h1") EXCEPT !.upper = TRUE]>>),
    Msg("i1", 2, 0, "app", "p1", <<[Key("h1") EXCEPT !.upper = TRUE]>>) }
=============================================================================
