--------------------------- MODULE ExplorerIconCache ---------------------------
(****************************************************************************)
(* The icon cache of the file manager: a table of icons by name, size and   *)
(* kind, a list of keys in the order of their use, and a count.  The key of  *)
(* a look-up is a string made for it, and List.remove compares addresses:    *)
(* it removes no entry.                                                     *)
(****************************************************************************)
EXTENDS Naturals, Sequences, FiniteSets

CONSTANTS
  Keys,    \* icon, size and kind
  Limit,   \* ICON_CACHE_LIMIT, 256
  MaxUses  \* bound: the entries of the list

VARIABLES
  cache,  \* icon_cache: the keys it holds
  lru,    \* icon_cache_lru
  count   \* icon_cache_count

vars == <<cache, lru, count>>

Init == cache = {} /\ lru = <<>> /\ count = 0

Hit(k) ==
  /\ k \in cache
  /\ lru' = Append(lru, k) /\ UNCHANGED <<cache, count>>

(* The theme has the icon; load_icon_pixbuf changes nothing if it does not.   *)
(* When the count is at the limit the icon of the oldest entry goes, unless   *)
(* it has gone before.                                                       *)
Load(k) ==
  /\ k \notin cache
  /\ LET full == count >= Limit /\ lru # <<>>
     IN /\ cache' = (IF full THEN cache \ {Head(lru)} ELSE cache) \union {k}
        /\ lru' = Append(IF full THEN Tail(lru) ELSE lru, k)
        /\ count' = IF full THEN count ELSE count + 1

Next == Len(lru) < MaxUses /\ \E k \in Keys : Hit(k) \/ Load(k)

Spec == Init /\ [][Next]_vars

(* The cache holds no more icons than its limit.                             *)
AlwaysBounded == Cardinality(cache) <= Limit
================================================================================
