------------------------- MODULE MCExplorerNavigation --------------------------
(* Three folders, one in another and that in the third; five requests, so that  *)
(* Back is reached with two folders behind and overtaken by another request.    *)
EXTENDS ExplorerNavigation, FiniteSets, TLC

CONSTANTS root, docs, work

MCParent == root :> NoDir @@ docs :> root @@ work :> docs

(* Of the listings overtaken one is still being read, or none. *)
OneOvertaken == Cardinality(loads) <= 2
================================================================================
