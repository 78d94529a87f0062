---------------------------- MODULE MCDockIconCache ----------------------------
(* The dock's icon cache with room for three of four icons, so that entries are *)
(* taken from the head, the middle and the tail of the list; two of the names   *)
(* normalise alike and one normalises to nothing.                               *)
EXTENDS DockIconCache, TLC

CONSTANTS fire, firePng, mail, term, files, blank,
          kFire, kMail, kTerm, kFiles

MCNorm == fire :> kFire @@ firePng :> kFire @@ mail :> kMail @@ term :> kTerm
          @@ files :> kFiles @@ blank :> NoKey
================================================================================
