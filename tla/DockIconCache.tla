----------------------------- MODULE DockIconCache -----------------------------
(****************************************************************************)
(* nizam-dock/src/icon_surface_cache.c: the dock's cache of icon surfaces,  *)
(* a hash table from normalised names to entries and a doubly linked list   *)
(* that orders the entries by last use.  The entries are heap cells: a get  *)
(* that misses may destroy one and allocates another, and any allocation or *)
(* load may fail half-way.  The hit, miss and eviction counters, written    *)
(* for debug output only, are left out.                                     *)
(****************************************************************************)
EXTENDS Naturals, FiniteSets, Sequences

CONSTANTS Names,     \* icon names and paths a launcher may carry
          Keys,      \* normalised names
          NoKey,     \* what a name that normalises to "" gives
          Norm,      \* [Names -> Keys \cup {NoKey}]
          Cells,     \* heap addresses an entry may get
          Null,
          NoIcon,    \* the NULL surface
          Capacity

ASSUME CapacityAssumption == Capacity \in Nat \ {0}
ASSUME NullAssumption == Null \notin Cells
ASSUME NormAssumption == NoKey \notin Keys /\ Norm \in [Names -> Keys \cup {NoKey}]
ASSUME IconAssumption == NoIcon \notin Names

VARIABLES head, tail,   \* the ends of the list, Null when it is empty
          prev, next,   \* the links stored in each cell
          map,          \* the hash table: key -> cell, Null for no entry
          key,          \* the key stored in each cell
          surface,      \* the name whose file each cell's surface was read from
          live,         \* the cells that are allocated entries
          size,
          alive,        \* alive_surfaces
          got           \* the last get: the name asked, the surface returned

vars == <<head, tail, prev, next, map, key, surface, live, size, alive, got>>

Pointers == Cells \cup {Null}

Init == /\ head = Null /\ tail = Null
        /\ prev = [c \in Cells |-> Null]
        /\ next = [c \in Cells |-> Null]
        /\ map = [k \in Keys |-> Null]
        /\ key = [c \in Cells |-> NoKey]
        /\ surface = [c \in Cells |-> NoIcon]
        /\ live = {}
        /\ size = 0 /\ alive = 0
        /\ got = [asked |-> NoIcon, icon |-> NoIcon]

--------------------------------------------------------------------------------
(* The list.  A list value carries the four link fields; unlink and link_head *)
(* are the pointer assignments of the code, in one step.                      *)

List == [head |-> head, tail |-> tail, prev |-> prev, next |-> next]

SetList(l) == /\ head' = l.head /\ tail' = l.tail
              /\ prev' = l.prev /\ next' = l.next

(* Mutant: the predecessor's link is left pointing at the removed entry. *)
UnlinkKeepsNext(l, e) ==
  LET p == l.prev[e]
      n == l.next[e] IN
  [head |-> IF p # Null THEN l.head ELSE n,
   tail |-> IF n # Null THEN l.tail ELSE p,
   prev |-> [c \in Cells |-> IF c = e THEN Null ELSE IF c = n THEN p ELSE l.prev[c]],
   next |-> [c \in Cells |-> IF c = e THEN Null ELSE l.next[c]]]

Unlink(l, e) ==
  LET p == l.prev[e]
      n == l.next[e] IN
  [head |-> IF p # Null THEN l.head ELSE n,
   tail |-> IF n # Null THEN l.tail ELSE p,
   prev |-> [c \in Cells |-> IF c = e THEN Null ELSE IF c = n THEN p ELSE l.prev[c]],
   next |-> [c \in Cells |-> IF c = e THEN Null ELSE IF c = p THEN n ELSE l.next[c]]]

LinkHead(l, e) ==
  [head |-> e,
   tail |-> IF l.head # Null THEN l.tail ELSE e,
   prev |-> [c \in Cells |-> IF c = e THEN Null ELSE IF c = l.head THEN e ELSE l.prev[c]],
   next |-> [c \in Cells |-> IF c = e THEN l.head ELSE l.next[c]]]

(* Mutant: a hit does not move the entry, so the order is that of insertion. *)
TouchNothing(l, e) == l

Touch(l, e) == IF l.head = e THEN l ELSE LinkHead(Unlink(l, e), e)

--------------------------------------------------------------------------------
(* Making room for a new entry: the victim is the list's tail.  A record of   *)
(* what the cache is once the victim is unlinked, unmapped and destroyed.     *)

Whole == [list |-> List, map |-> map, live |-> live, size |-> size, alive |-> alive]

(* Mutant: the victim's key stays in the hash table. *)
MakeRoomKeepsKey ==
  IF size >= Capacity /\ tail # Null
  THEN [list |-> Unlink(List, tail), map |-> map, live |-> live \ {tail},
        size |-> size - 1, alive |-> alive - 1]
  ELSE Whole

(* Mutant: room is made one entry too late. *)
MakeRoomLate ==
  IF size > Capacity /\ tail # Null
  THEN [list |-> Unlink(List, tail), map |-> [map EXCEPT ![key[tail]] = Null],
        live |-> live \ {tail}, size |-> size - 1, alive |-> alive - 1]
  ELSE Whole

MakeRoom ==
  IF size >= Capacity /\ tail # Null
  THEN [list |-> Unlink(List, tail),
        map |-> [map EXCEPT ![key[tail]] = Null],
        live |-> live \ {tail},
        size |-> size - 1,
        alive |-> alive - 1]
  ELSE Whole

(* The cells' own contents do not survive free(). *)
ForgetFreed(stays) ==
  /\ key' = [c \in Cells |-> IF c \in stays THEN key[c] ELSE NoKey]
  /\ surface' = [c \in Cells |-> IF c \in stays THEN surface[c] ELSE NoIcon]

Returns(n, i) == got' = [asked |-> n, icon |-> i]

--------------------------------------------------------------------------------
(* nizam_dock_icon_cache_get, one action for each way through it. *)

(* A name that normalises to nothing, and a load that fails: nothing is kept. *)
GetNothing(n) ==
  /\ Norm[n] # NoKey => map[Norm[n]] = Null
  /\ Returns(n, NoIcon)
  /\ UNCHANGED <<head, tail, prev, next, map, key, surface, live, size, alive>>

GetHit(n) ==
  /\ Norm[n] # NoKey
  /\ map[Norm[n]] # Null
  /\ SetList(Touch(List, map[Norm[n]]))
  /\ Returns(n, surface[map[Norm[n]]])
  /\ UNCHANGED <<map, key, surface, live, size, alive>>

(* Mutant: the surface that was never counted is uncounted. *)
GetNoMemoryUncounts(n) ==
  /\ Norm[n] # NoKey
  /\ map[Norm[n]] = Null
  /\ LET room == MakeRoom IN
       /\ SetList(room.list)
       /\ map' = room.map
       /\ live' = room.live
       /\ size' = room.size
       /\ alive' = room.alive - 1
       /\ ForgetFreed(room.live)
  /\ Returns(n, NoIcon)

(* The key or the entry cannot be allocated: the victim is gone already, and  *)
(* the surface just loaded is destroyed before it was ever counted.           *)
GetNoMemory(n) ==
  /\ Norm[n] # NoKey
  /\ map[Norm[n]] = Null
  /\ LET room == MakeRoom IN
       /\ SetList(room.list)
       /\ map' = room.map
       /\ live' = room.live
       /\ size' = room.size
       /\ alive' = room.alive
       /\ ForgetFreed(room.live)
  /\ Returns(n, NoIcon)

GetMiss(n) ==
  /\ Norm[n] # NoKey
  /\ map[Norm[n]] = Null
  /\ LET room == MakeRoom IN
     \E e \in Cells \ room.live :
       /\ SetList(LinkHead(room.list, e))
       /\ map' = [room.map EXCEPT ![Norm[n]] = e]
       /\ live' = room.live \cup {e}
       /\ size' = room.size + 1
       /\ alive' = room.alive + 1
       /\ key' = [c \in Cells |-> IF c = e THEN Norm[n]
                                  ELSE IF c \in room.live THEN key[c] ELSE NoKey]
       /\ surface' = [c \in Cells |-> IF c = e THEN n
                                  ELSE IF c \in room.live THEN surface[c] ELSE NoIcon]
  /\ Returns(n, n)

(* Mutant: entries are destroyed but their surfaces stay counted. *)
ClearLosesCount ==
  /\ head' = Null /\ tail' = Null
  /\ prev' = [c \in Cells |-> Null]
  /\ next' = [c \in Cells |-> Null]
  /\ map' = [k \in Keys |-> Null]
  /\ live' = {} /\ size' = 0
  /\ ForgetFreed({})
  /\ UNCHANGED <<alive, got>>

(* nizam_dock_icon_cache_clear, which is also all that a reload of the        *)
(* configuration leaves of the cache (icons_free, then icons_init): every     *)
(* entry the list reaches is destroyed, then the table is emptied.            *)
Clear ==
  /\ head' = Null /\ tail' = Null
  /\ prev' = [c \in Cells |-> Null]
  /\ next' = [c \in Cells |-> Null]
  /\ map' = [k \in Keys |-> Null]
  /\ live' = {} /\ size' = 0
  /\ alive' = alive - Cardinality(live)
  /\ ForgetFreed({})
  /\ UNCHANGED got

Next == \/ \E n \in Names : \/ GetNothing(n) \/ GetHit(n)
                            \/ GetNoMemory(n) \/ GetMiss(n)
        \/ Clear

Spec == Init /\ [][Next]_vars

--------------------------------------------------------------------------------
TypeOK ==
  /\ head \in Pointers /\ tail \in Pointers
  /\ prev \in [Cells -> Pointers] /\ next \in [Cells -> Pointers]
  /\ map \in [Keys -> Pointers]
  /\ key \in [Cells -> Keys \cup {NoKey}]
  /\ surface \in [Cells -> Names \cup {NoIcon}]
  /\ live \in SUBSET Cells
  /\ size \in Nat /\ alive \in Nat
  /\ got \in [asked : Names \cup {NoIcon}, icon : Names \cup {NoIcon}]

(* The first m values of s are the entries of l from its head to its tail,    *)
(* without repetition, and every link of theirs agrees with it.               *)
Spells(l, s, m) ==
  /\ \A i, j \in 1..m : s[i] = s[j] => i = j
  /\ l.head = IF m = 0 THEN Null ELSE s[1]
  /\ l.tail = IF m = 0 THEN Null ELSE s[m]
  /\ \A i \in 1..m : /\ l.prev[s[i]] = IF i = 1 THEN Null ELSE s[i - 1]
                     /\ l.next[s[i]] = IF i = m THEN Null ELSE s[i + 1]

(* The links, walked in either direction, visit exactly the allocated entries *)
(* and size counts them: no freed entry is reachable, none is lost            *)
(* (icon_entry_unlink, icon_entry_link_head, the eviction in get).            *)
ListIntact == \E s \in [1..size -> Cells] :
                 Spells(List, s, size) /\ live = {s[i] : i \in 1..size}

(* The hash table and the list hold the same entries, each under its own key: *)
(* no lookup returns a destroyed entry and no entry escapes lookup.           *)
MapAgrees ==
  /\ \A k \in Keys : map[k] # Null => map[k] \in live /\ key[map[k]] = k
  /\ \A e \in live : key[e] \in Keys /\ map[key[e]] = e

(* The cache never holds more than its capacity.                              *)
Bounded == size <= Capacity

(* Every surface counted alive belongs to an entry: none is leaked by a       *)
(* failed allocation and none is destroyed twice.                             *)
SurfacesAccounted == alive = size /\ \A e \in live : surface[e] \in Names

(* A surface returned for a name was read for a name that normalises alike.   *)
ServesTheKey == got.icon # NoIcon => Norm[got.icon] = Norm[got.asked]

(* What the list says when it is walked: the keys of the first n entries from *)
(* c on, and those of the whole list.                                         *)
KeysFrom[n \in Nat] ==
  [c \in Pointers |-> IF n = 0 \/ c = Null THEN <<>>
                      ELSE <<key[c]>> \o KeysFrom[n - 1][next[c]]]

Walk == KeysFrom[size][head]

Answer == IF got.icon = NoIcon THEN NoKey ELSE Norm[got.icon]

Lru == INSTANCE IconLru WITH recency <- Walk, Nothing <- NoKey, answer <- Answer

(* The dock's cache implements the bounded, least-recently-used cache: a hit  *)
(* makes the entry the most recent, and the victim is the one used longest    *)
(* ago (icon_entry_touch and the eviction in get).                            *)
LruSpec == Lru!Spec
================================================================================
