-------------------------------- MODULE Uris --------------------------------
(***************************************************************************)
(* models/uris.go: the URIs a route message carries and the key the        *)
(* routing table stores a route under.                                     *)
(*                                                                         *)
(* A URI is abstracted to what RouteKey can tell apart: the text up to the *)
(* tail (host), whether that text holds upper case letters (a Cloud        *)
(* Foundry path may: app.example.com/MyPath), and the tail: nothing, a     *)
(* slash, a query, or a slash and a query.                                 *)
(***************************************************************************)

CONSTANT Hosts

Tails == {"", "/", "?", "/?"}

UriRecords == [host : Hosts, upper : BOOLEAN, tail : Tails]

\* Uri.String trims one trailing slash; a slash before a query is not at the end.
String(u) == IF u.tail = "/" THEN [u EXCEPT !.tail = ""] ELSE u

ToLower(u) == [String(u) EXCEPT !.upper = FALSE]

\* The cut at "?" comes after the trim, so the key of "h/?q" keeps its slash.
RouteKey(u) ==
  LET key == ToLower(u)
  IN  [key EXCEPT !.tail = CASE @ = "?"  -> ""
                             [] @ = "/?" -> "/"
                             [] OTHER    -> @]
=============================================================================
