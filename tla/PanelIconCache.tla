---------------------------- MODULE PanelIconCache ----------------------------
(****************************************************************************)
(* nizam-panel/src/main.c: the panel's cache of icons, an array of slots     *)
(* linked by last use, and those who hold icons.  A surface is shared: the   *)
(* cache has a reference to it and so has everyone who was given it, so that *)
(* an icon may leave the cache while the menu still draws it.                *)
(*                                                                          *)
(* 0 is the code's -1 and NULL.  The counters that are only printed are left *)
(* out, and so is the failure of a small allocation.                         *)
(****************************************************************************)
EXTENDS Naturals, Sequences, FiniteSets, FiniteSetsExt

CONSTANTS
  Names,      \* icon names and paths
  Paths,      \* those with a slash, which are never cached
  Norm,       \* [Names -> Keys]: trimmed, in lower case, without suffix
  Keys,
  NoKey,
  Stem,       \* [Names -> Stems]: without suffix, the case kept
  Places,     \* where icons are looked for, numbered in the order of the search
  Installed,  \* pairs of a place and a stem: the files there are
  Capacity,   \* NIZAM_PANEL_ICON_CACHE_CAP
  Surfaces,   \* addresses of surfaces
  Pool,       \* [Keys -> SUBSET Surfaces]: addresses a new surface may get, more than are held
  Holders     \* what can hold an icon: an application, a tool, a window, ...

ASSUME CacheAssumption ==
  /\ Capacity \in Nat \ {0} /\ Places \subseteq Nat \ {0}
  /\ Surfaces \subseteq Nat \ {0} /\ IsFiniteSet(Surfaces) /\ IsFiniteSet(Holders)
  /\ Paths \subseteq Names /\ Norm \in [Names -> Keys] /\ NoKey \notin Keys
  /\ Pool \in [Keys -> SUBSET Surfaces]
  /\ \A k \in Keys : Cardinality(Pool[k]) > Capacity + Cardinality(Holders)

VARIABLES
  cache,   \* struct IconCache
  refs,    \* the references there are to each surface, 0 for a free address
  held,    \* the surface each holder has, 0 for none
  answer   \* the key whose icon the last request was given

icons == <<cache, refs, held, answer>>

Slots == 1..Capacity
Blank == [name |-> NoKey, surf |-> 0, prev |-> 0, next |-> 0]

CacheInit ==
  /\ cache = [slots |-> [i \in Slots |-> Blank], head |-> 0, tail |-> 0]
  /\ refs = [s \in Surfaces |-> 0] /\ held = [h \in Holders |-> 0] /\ answer = NoKey

(* in_use *)
Used(c) == {i \in Slots : c.slots[i].surf # 0}

--------------------------------------------------------------------------------
(* The list. *)

Unlink(c, i) ==
  LET e == c.slots[i]
  IN [slots |-> [j \in Slots |->
        CASE j = i      -> [e EXCEPT !.prev = 0, !.next = 0]
          [] j = e.prev -> [c.slots[j] EXCEPT !.next = e.next]
          [] j = e.next -> [c.slots[j] EXCEPT !.prev = e.prev]
          [] OTHER      -> c.slots[j]],
      head |-> IF c.head = i THEN e.next ELSE c.head,
      tail |-> IF c.tail = i THEN e.prev ELSE c.tail]

LinkHead(c, i) ==
  [slots |-> [j \in Slots |->
      CASE j = i      -> [c.slots[j] EXCEPT !.prev = 0, !.next = c.head]
        [] j = c.head -> [c.slots[j] EXCEPT !.prev = i]
        [] OTHER      -> c.slots[j]],
   head |-> i,
   tail |-> IF c.tail = 0 THEN i ELSE c.tail]

(* Mutant: a hit leaves the order as it is. *)
TouchNothing(c, i) == c

Touch(c, i) == IF i = c.head THEN c ELSE LinkHead(Unlink(c, i), i)

Vacated(c, i) == LET u == Unlink(c, i) IN [u EXCEPT !.slots[i] = Blank]

(* The first free slot. *)
FreeSlot(c) == LET free == Slots \ Used(c) IN IF free = {} THEN 0 ELSE Min(free)

--------------------------------------------------------------------------------
(* load_icon_from_name *)

(* icon_cache_lookup: the slot, 0 when the name is not cached. *)
Lookup(n) ==
  LET at == {i \in Used(cache) : cache.slots[i].name = Norm[n]}
  IN IF n \in Paths \/ at = {} THEN 0 ELSE Min(at)

(* load_icon_from_name_uncached: the first place with such a file. *)
Found(n) ==
  LET at == {p \in Places : <<p, Stem[n]>> \in Installed}
  IN IF at = {} THEN 0 ELSE Min(at)

Loadable(n) == Lookup(n) # 0 \/ Found(n) # 0

(* Of the tries, the first that gives an icon.  The others leave no trace. *)
Gives(tries, n) ==
  \E i \in DOMAIN tries : /\ n = tries[i] /\ Loadable(n)
                          /\ \A j \in DOMAIN tries : j < i => ~Loadable(tries[j])

(* A new surface.  Which free address it gets is of no matter. *)
Fresh(n) == Min({s \in Pool[Norm[n]] : refs[s] = 0})

(* The slot taken, after the one used longest ago was given up if need be. *)
Room == IF FreeSlot(cache) # 0 THEN cache ELSE Vacated(cache, cache.tail)

(* Mutant: the slot is given up and its reference kept. *)
LeftLeaky == refs

(* The references left when room is made. *)
Left ==
  IF FreeSlot(cache) # 0 \/ cache.tail = 0 THEN refs
  ELSE [refs EXCEPT ![cache.slots[cache.tail].surf] = @ - 1]

(* icon_cache_insert *)
Inserted(n) ==
  LET i == FreeSlot(Room)
  IN LinkHead([Room EXCEPT !.slots[i] = [Blank EXCEPT !.name = Norm[n], !.surf = Fresh(n)]], i)

(* A hit, a path, or a miss: what the caller is given, its reference counted. *)
Loaded(n) ==
  IF Lookup(n) # 0
  THEN LET s == cache.slots[Lookup(n)].surf
       IN [surf |-> s, refs |-> [refs EXCEPT ![s] = @ + 1], cache |-> Touch(cache, Lookup(n))]
  ELSE IF n \in Paths
  THEN [surf |-> Fresh(n), refs |-> [refs EXCEPT ![Fresh(n)] = 1], cache |-> cache]
  ELSE [surf |-> Fresh(n), refs |-> [Left EXCEPT ![Fresh(n)] = 2], cache |-> Inserted(n)]

Answers(n) == answer' = IF n \in Paths THEN answer ELSE Norm[n]

(* A holder asks for an icon, by one name after the other. *)
Take(h, tries) ==
  \/ \E n \in Names :
       /\ Gives(tries, n) /\ Answers(n)
       /\ cache' = Loaded(n).cache /\ refs' = Loaded(n).refs
       /\ held' = [held EXCEPT ![h] = Loaded(n).surf]
  \/ /\ \A i \in DOMAIN tries : ~Loadable(tries[i])
     /\ answer' = NoKey /\ UNCHANGED <<cache, refs, held>>

(* menu_draw: the icon of the launcher is given back when it is drawn. *)
Draw(n) ==
  LET l == Loaded(n)
  IN IF Loadable(n)
     THEN /\ cache' = l.cache /\ refs' = [l.refs EXCEPT ![l.surf] = @ - 1]
          /\ Answers(n) /\ UNCHANGED held
     ELSE answer' = NoKey /\ UNCHANGED <<cache, refs, held>>

(* cairo_surface_destroy, by some of the holders. *)
Release(hs) ==
  /\ refs' = [s \in Surfaces |-> refs[s] - Cardinality({h \in hs : held[h] = s})]
  /\ held' = [h \in Holders |-> IF h \in hs THEN 0 ELSE held[h]]
  /\ UNCHANGED <<cache, answer>>

--------------------------------------------------------------------------------
CacheTypeOK ==
  /\ cache \in [slots : [Slots -> [name : Keys \union {NoKey}, surf : Surfaces \union {0},
                                   prev : Slots \union {0}, next : Slots \union {0}]],
                head : Slots \union {0}, tail : Slots \union {0}]
  /\ refs \in [Surfaces -> Nat] /\ held \in [Holders -> Surfaces \union {0}]
  /\ answer \in Keys \union {NoKey}

(* Each surface has one reference for each slot and each holder that has it:  *)
(* none is destroyed while somebody can still draw it, also when it was       *)
(* evicted meanwhile, and none is left when nobody can.                       *)
EveryReferenceCounted ==
  \A s \in Surfaces :
    refs[s] = Cardinality({i \in Slots : cache.slots[i].surf = s})
              + Cardinality({h \in Holders : held[h] = s})

(* The keys of the first n slots from i on, and those of the whole list. *)
KeyAt == [i \in Slots |-> cache.slots[i].name]
NextTo == [i \in Slots |-> cache.slots[i].next]
KeysFrom[n \in Nat] ==
  [i \in Slots \union {0} |-> IF n = 0 \/ i = 0 THEN <<>>
                            ELSE <<KeyAt[i]>> \o KeysFrom[n - 1][NextTo[i]]]

Walk == KeysFrom[Cardinality(Used(cache))][cache.head]

Lru == INSTANCE IconLru WITH recency <- Walk, Nothing <- NoKey

(* The panel's cache, too, is the bounded least-recently-used one: a hit      *)
(* makes an icon the latest, and a full cache gives up the one used longest   *)
(* ago, while requests of the menu, the tools and the windows mix.            *)
LruSpec == Lru!Spec
================================================================================
