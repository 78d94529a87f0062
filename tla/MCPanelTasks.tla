----------------------------- MODULE MCPanelTasks -----------------------------
(* The panel with two windows.  Two of the clock's texts are as wide as each *)
(* other and leave room for two buttons; the third is wider and leaves room  *)
(* for one.                                                                  *)
EXTENDS PanelTasks, TLC

CONSTANTS t1, t2, t3

RoomOf == [t \in Texts |-> IF t = t3 THEN 150 ELSE 200]

Symmetric == Permutations(Windows) \union Permutations({t1, t2})

(* A bound: the clock moves, the window manager has something to tell, the   *)
(* menu is up, or the panel has asked the window manager for something, and  *)
(* only then another of these.                                               *)
OneAtATime ==
  LET clock == wall # said \/ text # said \/ undrawn # {}
      alone == Len(wire \o queue) < 2 /\ ~untold /\ ~dropped
  IN /\ clock => alone /\ asked = None /\ Len(tasks) < 2 /\ ~menu
     /\ asked # None \/ menu => alone
================================================================================
