---------------------------- MODULE MCDesktopEntries ----------------------------
(* Two applications, so that a sync can fail between them, and two windows, so   *)
(* that the list of one can be older than what the other has done.  Packages     *)
(* change the file of the first application only.                                *)
EXTENDS DesktopEntries, TLC

CONSTANTS a1, a2, c1, c2

MCMapped == c1 :> "System" @@ c2 :> "Network"

OneUpdated == files[a2] = c1

Symmetry == Permutations(Windows)
================================================================================
