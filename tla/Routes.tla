------------------------------- MODULE Routes -------------------------------
(***************************************************************************)
(* models/route.go, type Route: the values the routing table holds and the *)
(* two comparisons it makes between them.                                  *)
(*                                                                         *)
(* A route is a record whose fields are                                    *)
(*   inst  the fields of Equal other than Address and Host (private        *)
(*         instance id, certificate SAN, instance and process instance id) *)
(*   addr  Address, built from Host and a port                             *)
(*   app   Tags.AppID                                                      *)
(*   path  the organisation, space and application ids and names           *)
(*   type  Tags.ProcessType                                                *)
(*   tls   TLS                                                             *)
(***************************************************************************)

CONSTANT Nil  \* the nil *Route

Equal(r, q) == q # Nil /\ r.inst = q.inst /\ r.addr = q.addr

NeedUpdate(r, q) == q # Nil /\ (r.app # q.app \/ r.path # q.path)
=============================================================================
