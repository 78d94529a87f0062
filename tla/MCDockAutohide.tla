----------------------------- MODULE MCDockAutohide -----------------------------
(* Durations keep their order, not their ratio; two unprocessed events are      *)
(* enough for a click to race with the pointer, a deadline or the menu.          *)
EXTENDS DockAutohide
================================================================================
