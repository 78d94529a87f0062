-------------------------------- MODULE IconLru --------------------------------
(****************************************************************************)
(* What an icon cache promises its callers: at most Capacity icons, each    *)
(* held once and kept in order of last use; an icon that is handed out is   *)
(* from then on the most recently used, and the one given up for a new icon *)
(* is the one used longest ago.                                             *)
(****************************************************************************)
EXTENDS Naturals, Sequences, SequencesExt

CONSTANTS Keys,       \* what a cached icon is filed under
          Nothing,    \* what a request that found no icon is answered with
          Capacity    \* how many icons the cache may hold

VARIABLES recency,    \* the keys held, most recently used first
          answer      \* the key whose icon the last request was given

Init == recency = <<>> /\ answer = Nothing

(* An icon that is held is asked for again. *)
Use(i) == /\ answer' = recency[i]
          /\ recency' = <<recency[i]>> \o RemoveAt(recency, i)

(* A new icon comes in; a full cache gives up the one used longest ago. *)
Admit(k) == /\ ~ Contains(recency, k)
            /\ answer' = k
            /\ recency' = <<k>> \o IF Len(recency) = Capacity
                                   THEN Front(recency) ELSE recency

(* There is no such icon, or it could not be stored after room was made. *)
Refuse == /\ answer' = Nothing
          /\ \/ UNCHANGED recency
             \/ Len(recency) = Capacity /\ recency' = Front(recency)

Clear == recency' = <<>> /\ UNCHANGED answer

Next == \/ \E i \in 1..Len(recency) : Use(i)
        \/ \E k \in Keys : Admit(k)
        \/ Refuse
        \/ Clear

Spec == Init /\ [][Next]_<<recency, answer>>
================================================================================
