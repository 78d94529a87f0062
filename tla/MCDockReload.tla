------------------------------ MODULE MCDockReload ------------------------------
(* Two docks, so that one can be started while the other starts, runs or has    *)
(* died; edits and signals are unbounded.                                       *)
EXTENDS DockReload
================================================================================
