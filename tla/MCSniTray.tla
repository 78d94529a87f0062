------------------------------- MODULE MCSniTray -------------------------------
(* The tray with two applications and a name. *)
EXTENDS SniTray, TLC

Symmetric == Permutations(Clients)

(* A bound: three messages unhandled until a client loses a name or a menu   *)
(* is up, two while one of these is so, one when two or three of them are.    *)
FewInFlight ==
  (Cardinality(lost) + (IF menu = None THEN 0 ELSE 1)) * (Len(wire) + Len(inbox)) <= 2
================================================================================
