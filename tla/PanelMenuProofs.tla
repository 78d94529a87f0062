---------------------------- MODULE PanelMenuProofs ----------------------------
(****************************************************************************)
(* Proofs about the panel's menu and its icons, for any set of applications, *)
(* any names and files, any capacity of the cache and any bounds on time and *)
(* edits.                                                                    *)
(*                                                                          *)
(* The panel's array of slots is shown to move as the dock's list of cells   *)
(* does, so that what is proved of the dock's cache holds of it (the instance *)
(* Dock below).  The references to surfaces are then counted through each way *)
(* an icon is asked for, drawn and given back.  The menu's own invariant says *)
(* which icons are still to be loaded while it is built, and to whom.         *)
(****************************************************************************)
EXTENDS PanelMenu, FiniteSetTheorems, SequenceTheorems, WellFoundedInduction, TLAPS

PrevTo == [i \in Slots |-> cache.slots[i].prev]

(* The slots that are in use, as the cells of the dock's cache. *)
SlotIn(c, k) == LET at == {i \in Used(c) : c.slots[i].name = k}
                IN IF at = {} THEN 0 ELSE Min(at)
SlotOf == [k \in Keys |-> SlotIn(cache, k)]

Dock == INSTANCE DockIconCacheProofs WITH
  Names <- Keys, Norm <- [k \in Keys |-> k], Cells <- Slots, Null <- 0, NoIcon <- NoKey,
  head <- cache.head, tail <- cache.tail, prev <- PrevTo, next <- NextTo,
  map <- SlotOf, key <- KeyAt, surface <- KeyAt, live <- Used(cache),
  size <- Cardinality(Used(cache)), alive <- Cardinality(Used(cache)),
  got <- [asked |-> answer, icon |-> answer]

(* The assumptions of the dock's module are so of the panel's names and       *)
(* slots.                                                                     *)
LEMMA DockFits ==
  /\ Dock!CapacityAssumption /\ Dock!NullAssumption /\ Dock!NormAssumption /\ Dock!IconAssumption
  BY CacheAssumption DEF Dock!CapacityAssumption, Dock!NullAssumption, Dock!NormAssumption,
     Dock!IconAssumption, Slots

--------------------------------------------------------------------------------
(* Sorting. *)

(* A set of numbers with 0 and the successor of each is that of all numbers. *)
LEMMA NatSet ==
  ASSUME NEW T \in SUBSET Nat, 0 \in T, \A n \in T : n + 1 \in T
  PROVE  T = Nat
  BY DockFits, Dock!NatSetInduction

(* f is the set T, sorted by R.                                               *)
Sorts(f, T, R) ==
  /\ f \in [1..Cardinality(T) -> T]
  /\ \A i, j \in 1..Cardinality(T) : i < j => f[i] # f[j] /\ <<f[i], f[j]>> \in R

Orders(R, S) ==
  /\ \A a, b \in S : <<a, b>> \in R \/ <<b, a>> \in R
  /\ \A a, b, c \in S : <<a, b>> \in R /\ <<b, c>> \in R => <<a, c>> \in R

(* Of what is ordered, a set that is finite and not empty has a last. *)
LEMMA LastIsThere ==
  ASSUME NEW S, IsFiniteSet(S), NEW R, Orders(R, S)
  PROVE  \A T \in SUBSET S : T # {} => \E x \in T : \A y \in T : <<y, x>> \in R
<1> DEFINE HasLast(T) == \E x \in T : \A y \in T : <<y, x>> \in R
           Has == {n \in Nat : \A T \in SUBSET S : Cardinality(T) = n + 1 => HasLast(T)}
<1>1. \A T \in SUBSET S : IsFiniteSet(T) /\ Cardinality(T) \in Nat
  BY FS_Subset, FS_CardinalityType
<1>2. 0 \in Has
  <2> SUFFICES ASSUME NEW T \in SUBSET S, Cardinality(T) = 1 PROVE HasLast(T)
    OBVIOUS
  <2>1. PICK x : T = {x}
    BY <1>1, FS_Singleton
  <2> QED BY <2>1 DEF Orders
<1>3. ASSUME NEW n \in Has PROVE n + 1 \in Has
  <2> SUFFICES ASSUME NEW T \in SUBSET S, Cardinality(T) = (n + 1) + 1 PROVE HasLast(T)
    OBVIOUS
  <2>1. PICK z : z \in T
    BY <1>1, FS_EmptySet
  <2>2. Cardinality(T \ {z}) = n + 1 /\ T \ {z} \in SUBSET S
    <3>1. Cardinality(T \ {z}) = Cardinality(T) - 1
      BY <1>1, <2>1, FS_RemoveElement
    <3> QED BY <3>1
  <2>3. HasLast(T \ {z})
    <3> HIDE DEF HasLast
    <3> QED BY <2>2
  <2>4. PICK x \in T \ {z} : \A y \in T \ {z} : <<y, x>> \in R
    BY <2>3
  <2>5. CASE <<z, x>> \in R
    BY <2>1, <2>4, <2>5
  <2>6. CASE <<z, x>> \notin R
    <3>1. <<x, z>> \in R /\ <<z, z>> \in R
      BY <2>1, <2>4, <2>6 DEF Orders
    <3>2. \A y \in T : <<y, z>> \in R
      BY <2>1, <2>4, <3>1 DEF Orders
    <3> QED BY <2>1, <3>2
  <2> QED BY <2>5, <2>6
<1>4. Has = Nat
  <2> HIDE DEF Has
  <2> QED BY <1>2, <1>3, NatSet DEF Has
<1> SUFFICES ASSUME NEW T \in SUBSET S, T # {} PROVE HasLast(T)
  OBVIOUS
<1>5. Cardinality(T) # 0 /\ Cardinality(T) \in Nat
  BY <1>1, FS_EmptySet
<1>6. Cardinality(T) - 1 \in Has /\ (Cardinality(T) - 1) + 1 = Cardinality(T)
  <2> HIDE DEF Has
  <2> QED BY <1>4, <1>5
<1> HIDE DEF HasLast
<1> QED BY <1>6

(* What is ordered can be sorted. *)
LEMMA SortExists ==
  ASSUME NEW S, IsFiniteSet(S), NEW R, Orders(R, S)
  PROVE  \E f : Sorts(f, S, R)
<1> DEFINE Has == {n \in Nat : \A T \in SUBSET S : Cardinality(T) = n => \E f : Sorts(f, T, R)}
<1>1. \A T \in SUBSET S : IsFiniteSet(T) /\ Cardinality(T) \in Nat
  BY FS_Subset, FS_CardinalityType
<1>2. 0 \in Has
  <2> SUFFICES ASSUME NEW T \in SUBSET S, Cardinality(T) = 0 PROVE \E f : Sorts(f, T, R)
    OBVIOUS
  <2>1. Sorts([i \in 1..0 |-> 0], T, R)
    BY DEF Sorts
  <2> QED BY <2>1
<1>3. ASSUME NEW n \in Has PROVE n + 1 \in Has
  <2> SUFFICES ASSUME NEW T \in SUBSET S, Cardinality(T) = n + 1
               PROVE  \E f : Sorts(f, T, R)
    OBVIOUS
  <2>1. n \in Nat /\ T # {}
    BY <1>1, FS_EmptySet
  <2>2. PICK x \in T : \A y \in T : <<y, x>> \in R
    BY <2>1, LastIsThere
  <2>3. Cardinality(T \ {x}) = n /\ T \ {x} \in SUBSET S
    <3>1. Cardinality(T \ {x}) = Cardinality(T) - 1
      BY <1>1, <2>2, FS_RemoveElement
    <3> QED BY <2>1, <3>1
  <2>4. PICK g : Sorts(g, T \ {x}, R)
    BY <2>3
  <2> DEFINE f == [i \in 1..(n + 1) |-> IF i <= n THEN g[i] ELSE x]
  <2>5. \A i \in 1..n : g[i] \in T /\ g[i] # x /\ f[i] = g[i]
    <3>1. g \in [1..n -> T \ {x}]
      BY <2>3, <2>4 DEF Sorts
    <3> QED BY <2>1, <3>1
  <2>6. f[n + 1] = x /\ f \in [1..(n + 1) -> T]
    <3>1. \A i \in 1..(n + 1) : i \in 1..n \/ i = n + 1
      BY <2>1
    <3>2. \A i \in 1..(n + 1) : (IF i <= n THEN g[i] ELSE x) \in T
      <4> SUFFICES ASSUME NEW i \in 1..(n + 1) PROVE (IF i <= n THEN g[i] ELSE x) \in T
        OBVIOUS
      <4>1. CASE i \in 1..n
        <5>1. i <= n /\ g[i] \in T
          BY <2>1, <2>5, <4>1
        <5> QED BY <5>1
      <4>2. CASE i = n + 1
        BY <2>1, <2>2, <4>2
      <4> QED BY <3>1, <4>1, <4>2
    <3> QED BY <2>1, <3>2
  <2> HIDE DEF f
  <2>7. ASSUME NEW i \in 1..(n + 1), NEW j \in 1..(n + 1), i < j
        PROVE  f[i] # f[j] /\ <<f[i], f[j]>> \in R
    <3>1. i \in 1..n
      BY <2>7, <2>1
    <3>2. CASE j = n + 1
      BY <2>2, <2>5, <2>6, <3>1, <3>2
    <3>3. CASE j \in 1..n
      <4>1. f[i] = g[i] /\ f[j] = g[j]
        BY <2>5, <3>1, <3>3
      <4>2. g[i] # g[j] /\ <<g[i], g[j]>> \in R
        BY <2>3, <2>4, <2>7, <3>1, <3>3 DEF Sorts
      <4> QED BY <4>1, <4>2
    <3> QED BY <2>1, <3>2, <3>3
  <2>8. Sorts(f, T, R)
    BY <2>6, <2>7 DEF Sorts
  <2> QED BY <2>8
<1>4. Has = Nat
  <2> HIDE DEF Has
  <2> QED BY <1>2, <1>3, NatSet DEF Has
<1>5. Cardinality(S) \in Has
  <2> HIDE DEF Has
  <2> QED BY <1>1, <1>4
<1> QED BY <1>5

(* InOrder has each element once, in order.                                   *)
LEMMA InOrderSorts ==
  ASSUME NEW S, IsFiniteSet(S), NEW R, Orders(R, S)
  PROVE  /\ Cardinality(S) \in Nat
         /\ InOrder(S, R) \in [1..Cardinality(S) -> S]
         /\ \A i, j \in 1..Cardinality(S) : i # j => InOrder(S, R)[i] # InOrder(S, R)[j]
         /\ \A x \in S : \E i \in 1..Cardinality(S) : InOrder(S, R)[i] = x
<1> DEFINE n == Cardinality(S)
           f == InOrder(S, R)
<1>1. n \in Nat /\ IsFiniteSet(1..n) /\ Cardinality(1..n) = n
  <2>1. n \in Nat
    BY FS_CardinalityType
  <2> HIDE DEF n
  <2> QED BY <2>1, FS_Interval
<1>2. Sorts(f, S, R)
  <2>1. f = CHOOSE g \in [1..n -> S] :
              \A i, j \in 1..n : i < j => g[i] # g[j] /\ <<g[i], g[j]>> \in R
    BY DEF InOrder
  <2>2. \E g \in [1..n -> S] : \A i, j \in 1..n : i < j => g[i] # g[j] /\ <<g[i], g[j]>> \in R
    BY SortExists DEF Sorts
  <2> HIDE DEF n, f
  <2>3. /\ f \in [1..n -> S]
        /\ \A i, j \in 1..n : i < j => f[i] # f[j] /\ <<f[i], f[j]>> \in R
    BY <2>1, <2>2
  <2> QED BY <2>3 DEF Sorts, n
<1>3. f \in [1..n -> S] /\ \A i, j \in 1..n : i < j => f[i] # f[j]
  BY <1>2 DEF Sorts
<1> HIDE DEF f
<1>4. \A i, j \in 1..n : i # j => f[i] # f[j]
  <2> HIDE DEF n
  <2> QED BY <1>1, <1>3
<1>5. f \in Injection(1..n, S)
  BY <1>3, <1>4 DEF Injection, IsInjective
<1>6. f \in Surjection(1..n, S)
  BY <1>1, <1>5, FS_Injection
<1>7. \A x \in S : \E i \in 1..n : f[i] = x
  BY <1>6 DEF Surjection
<1> QED BY <1>1, <1>3, <1>4, <1>7 DEF f

(* So does Ascending, of numbers. *)
LEMMA AscendingSorts ==
  ASSUME NEW S, S \subseteq Nat, IsFiniteSet(S)
  PROVE  /\ Cardinality(S) \in Nat
         /\ Ascending(S) \in [1..Cardinality(S) -> S]
         /\ \A i, j \in 1..Cardinality(S) : i # j => Ascending(S)[i] # Ascending(S)[j]
         /\ \A x \in S : \E i \in 1..Cardinality(S) : Ascending(S)[i] = x
<1> DEFINE R == {p \in S \X S : p[1] <= p[2]}
<1>1. Orders(R, S)
  BY DEF Orders
<1>2. Ascending(S) = InOrder(S, R)
  BY DEF Ascending
<1> HIDE DEF R
<1> QED BY <1>1, <1>2, InOrderSorts

--------------------------------------------------------------------------------
(* The list in the slots. *)

(* The links of a cache as a list of the dock's. *)
ListOf(c) == [head |-> c.head, tail |-> c.tail, prev |-> [i \in Slots |-> c.slots[i].prev],
              next |-> [i \in Slots |-> c.slots[i].next]]

Pointers == Slots \union {0}
Slot == [name : Keys \union {NoKey}, surf : Surfaces \union {0}, prev : Pointers, next : Pointers]
CacheType == [slots : [Slots -> Slot], head : Pointers, tail : Pointers]

(* A cache of the right type gives a list of the right type. *)
LEMMA ListTyped ==
  ASSUME NEW c \in CacheType
  PROVE  /\ ListOf(c) \in Dock!ListType /\ ListOf(c).head = c.head /\ ListOf(c).tail = c.tail
         /\ \A i \in Slots : ListOf(c).prev[i] = c.slots[i].prev /\ ListOf(c).next[i] = c.slots[i].next
  BY DEF ListOf, CacheType, Slot, Pointers, Dock!ListType, Dock!Pointers

(* Unlinking changes links only, and as in the dock's list. *)
LEMMA UnlinkMaps ==
  ASSUME NEW c \in CacheType, NEW m \in Nat, NEW s \in [1..m -> Slots], NEW p \in 1..m,
         Dock!Spells(ListOf(c), s, m)
  PROVE  /\ Unlink(c, s[p]) \in CacheType
         /\ ListOf(Unlink(c, s[p])) = Dock!Unlink(ListOf(c), s[p])
         /\ \A i \in Slots : /\ Unlink(c, s[p]).slots[i].name = c.slots[i].name
                             /\ Unlink(c, s[p]).slots[i].surf = c.slots[i].surf
<1> DEFINE e == s[p]
           u == Unlink(c, e)
           l == ListOf(c)
           d == Dock!Unlink(l, e)
<1>1. /\ e \in Slots /\ 0 \notin Slots /\ \A i \in 1..m : s[i] \in Slots
      /\ c.slots[e] \in Slot
  BY CacheAssumption DEF Slots, CacheType
<1>2. /\ l.head = c.head /\ l.tail = c.tail
      /\ \A i \in Slots : l.prev[i] = c.slots[i].prev /\ l.next[i] = c.slots[i].next
  BY ListTyped
<1>3. /\ c.slots[e].prev = (IF p = 1 THEN 0 ELSE s[p - 1])
      /\ c.slots[e].next = (IF p = m THEN 0 ELSE s[p + 1])
      /\ c.head = s[1] /\ c.tail = s[m] /\ 1 \in 1..m /\ m \in 1..m
      /\ \A i, j \in 1..m : s[i] = s[j] => i = j
  BY <1>1, <1>2 DEF Dock!Spells
<1> DEFINE a == c.slots[e].prev
           z == c.slots[e].next
<1>4. /\ a # e /\ z # e /\ (a = z => a = 0) /\ a \in Pointers /\ z \in Pointers
      /\ (c.head = e <=> a = 0) /\ (c.tail = e <=> z = 0)
  <2>1. (p # 1 => p - 1 \in 1..m) /\ (p # m => p + 1 \in 1..m)
    OBVIOUS
  <2>2. (p # 1 => s[p - 1] # s[p] /\ s[1] # s[p]) /\ (p # m => s[p + 1] # s[p] /\ s[m] # s[p])
    BY <1>3, <2>1
  <2>3. p # 1 /\ p # m => s[p - 1] # s[p + 1]
    BY <1>3, <2>1
  <2> QED BY <1>1, <1>3, <2>1, <2>2, <2>3 DEF Pointers
<1>5. /\ u.head = (IF a = 0 THEN z ELSE c.head) /\ u.tail = (IF z = 0 THEN a ELSE c.tail)
      /\ d.head = (IF a = 0 THEN z ELSE c.head) /\ d.tail = (IF z = 0 THEN a ELSE c.tail)
  BY <1>1, <1>2, <1>4 DEF Unlink, Dock!Unlink
<1>6. ASSUME NEW i \in Slots
      PROVE  /\ u.slots[i] \in Slot
             /\ u.slots[i].name = c.slots[i].name /\ u.slots[i].surf = c.slots[i].surf
             /\ u.slots[i].prev = d.prev[i] /\ u.slots[i].next = d.next[i]
  <2>1. c.slots[i] \in Slot
    BY DEF CacheType
  <2>2. /\ d.prev[i] = (IF i = e THEN 0 ELSE IF i = z THEN a ELSE c.slots[i].prev)
        /\ d.next[i] = (IF i = e THEN 0 ELSE IF i = a THEN z ELSE c.slots[i].next)
    BY <1>1, <1>2 DEF Dock!Unlink
  <2>3. CASE i = e
    <3>1. u.slots[i] = [c.slots[i] EXCEPT !.prev = 0, !.next = 0]
      BY <1>4, <2>3 DEF Unlink
    <3> HIDE DEF u, d, a, z
    <3> QED BY <2>1, <2>2, <2>3, <3>1 DEF Slot, Pointers
  <2>4. CASE i # e /\ i = a
    <3>1. i # z
      <4> HIDE DEF a, z
      <4> QED BY <1>1, <1>4, <2>4
    <3>2. u.slots[i] = [c.slots[i] EXCEPT !.next = z]
      BY <2>4, <3>1 DEF Unlink
    <3> HIDE DEF u, d, a, z
    <3> QED BY <1>4, <2>1, <2>2, <2>4, <3>1, <3>2 DEF Slot, Pointers
  <2>5. CASE i # e /\ i # a /\ i = z
    <3>1. u.slots[i] = [c.slots[i] EXCEPT !.prev = a]
      BY <2>5 DEF Unlink
    <3> HIDE DEF u, d, a, z
    <3> QED BY <1>4, <2>1, <2>2, <2>5, <3>1 DEF Slot, Pointers
  <2>6. CASE i # e /\ i # a /\ i # z
    <3>1. u.slots[i] = c.slots[i]
      BY <2>6 DEF Unlink
    <3> HIDE DEF u, d, a, z
    <3> QED BY <2>1, <2>2, <2>6, <3>1
  <2> QED BY <2>3, <2>4, <2>5, <2>6
<1>7. u \in CacheType
  <2>1. /\ u = [slots |-> u.slots, head |-> u.head, tail |-> u.tail]
        /\ u.slots = [i \in Slots |-> u.slots[i]]
    BY DEF Unlink
  <2>2. u.head \in Pointers /\ u.tail \in Pointers
    BY <1>4, <1>5 DEF CacheType
  <2> HIDE DEF u, d
  <2>3. u.slots \in [Slots -> Slot]
    BY <1>6, <2>1
  <2> QED BY <2>1, <2>2, <2>3 DEF CacheType
<1>8. ListOf(u) = d
  <2> HIDE DEF u, l, a, z
  <2> QED BY <1>5, <1>6 DEF ListOf, Dock!Unlink
<1> QED BY <1>6, <1>7, <1>8

--------------------------------------------------------------------------------
(* Linking an entry first changes links only, and as in the dock's list. *)
LEMMA LinkHeadMaps ==
  ASSUME NEW c \in CacheType, c.head = 0 <=> c.tail = 0, NEW e \in Slots, e # c.head
  PROVE  /\ LinkHead(c, e) \in CacheType
         /\ ListOf(LinkHead(c, e)) = Dock!LinkHead(ListOf(c), e)
         /\ \A i \in Slots : /\ LinkHead(c, e).slots[i].name = c.slots[i].name
                             /\ LinkHead(c, e).slots[i].surf = c.slots[i].surf
<1> DEFINE u == LinkHead(c, e)
           l == ListOf(c)
           d == Dock!LinkHead(l, e)
<1>1. 0 \notin Slots
  BY CacheAssumption DEF Slots
<1>2. /\ l.head = c.head /\ l.tail = c.tail
      /\ \A i \in Slots : l.prev[i] = c.slots[i].prev /\ l.next[i] = c.slots[i].next
  BY ListTyped
<1>5. u.head = d.head /\ u.tail = d.tail
  BY <1>2 DEF LinkHead, Dock!LinkHead
<1>6. ASSUME NEW i \in Slots
      PROVE  /\ u.slots[i] \in Slot
             /\ u.slots[i].name = c.slots[i].name /\ u.slots[i].surf = c.slots[i].surf
             /\ u.slots[i].prev = d.prev[i] /\ u.slots[i].next = d.next[i]
  <2>1. c.slots[i] \in Slot /\ c.head \in Pointers /\ e \in Pointers
    BY DEF CacheType, Pointers
  <2>2. /\ d.prev[i] = (IF i = e THEN 0 ELSE IF i = c.head THEN e ELSE c.slots[i].prev)
        /\ d.next[i] = (IF i = e THEN c.head ELSE c.slots[i].next)
    BY <1>2 DEF Dock!LinkHead
  <2>3. CASE i = e
    <3>1. u.slots[i] = [c.slots[i] EXCEPT !.prev = 0, !.next = c.head]
      BY <2>3 DEF LinkHead
    <3> HIDE DEF u, d
    <3> QED BY <2>1, <2>2, <2>3, <3>1 DEF Slot, Pointers
  <2>4. CASE i # e /\ i = c.head
    <3>1. u.slots[i] = [c.slots[i] EXCEPT !.prev = e]
      BY <2>4 DEF LinkHead
    <3> HIDE DEF u, d
    <3> QED BY <2>1, <2>2, <2>4, <3>1 DEF Slot, Pointers
  <2>5. CASE i # e /\ i # c.head
    <3>1. u.slots[i] = c.slots[i]
      BY <2>5 DEF LinkHead
    <3> HIDE DEF u, d
    <3> QED BY <2>1, <2>2, <2>5, <3>1
  <2> QED BY <2>3, <2>4, <2>5
<1>7. u \in CacheType
  <2>1. /\ u = [slots |-> u.slots, head |-> u.head, tail |-> u.tail]
        /\ u.slots = [i \in Slots |-> u.slots[i]]
    BY DEF LinkHead
  <2>2. u.head \in Pointers /\ u.tail \in Pointers
    BY DEF LinkHead, CacheType, Pointers
  <2> HIDE DEF u, d
  <2>3. u.slots \in [Slots -> Slot]
    BY <1>6, <2>1
  <2> QED BY <2>1, <2>2, <2>3 DEF CacheType
<1>8. ListOf(u) = d
  <2> HIDE DEF u, l
  <2> QED BY <1>5, <1>6 DEF ListOf, Dock!LinkHead
<1> QED BY <1>6, <1>7, <1>8

(* Touching an entry changes links only, and as in the dock's list. *)
LEMMA TouchMaps ==
  ASSUME NEW c \in CacheType, NEW m \in Nat, NEW s \in [1..m -> Slots], NEW p \in 1..m,
         Dock!Spells(ListOf(c), s, m)
  PROVE  /\ Touch(c, s[p]) \in CacheType
         /\ ListOf(Touch(c, s[p])) = Dock!Touch(ListOf(c), s[p])
         /\ \A i \in Slots : /\ Touch(c, s[p]).slots[i].name = c.slots[i].name
                             /\ Touch(c, s[p]).slots[i].surf = c.slots[i].surf
<1>1. ListOf(c).head = c.head
  BY ListTyped
<1>2. CASE c.head = s[p]
  BY <1>1, <1>2 DEF Touch, Dock!Touch
<1>3. CASE c.head # s[p]
  <2> DEFINE e == s[p]
             u == Unlink(c, e)
  <2>1. /\ u \in CacheType /\ ListOf(u) = Dock!Unlink(ListOf(c), e) /\ e \in Slots
        /\ \A i \in Slots : u.slots[i].name = c.slots[i].name /\ u.slots[i].surf = c.slots[i].surf
    BY UnlinkMaps
  <2>2. (u.head = 0 <=> u.tail = 0) /\ u.head # e
    <3>1. /\ Dock!Without(s, p, m) \in [1..(m - 1) -> Slots]
          /\ Dock!Spells(Dock!Unlink(ListOf(c), s[p]), Dock!Without(s, p, m), m - 1)
      BY ListTyped, DockFits, Dock!UnlinkSpells
    <3>2. 0 \notin Slots /\ m - 1 \in Nat /\ (m - 1 # 0 => 1 \in 1..(m - 1) /\ m - 1 \in 1..(m - 1))
      BY CacheAssumption DEF Slots
    <3>3. ListOf(u).head = u.head /\ ListOf(u).tail = u.tail
      BY <2>1, ListTyped
    <3> DEFINE w == Dock!Without(s, p, m)
               d == ListOf(u)
    <3>4. Dock!Spells(d, w, m - 1) /\ w \in [1..(m - 1) -> Slots]
      BY <3>1, <2>1
    <3> HIDE DEF w, d
    <3>5. d.head = 0 <=> d.tail = 0
      BY <3>2, <3>4 DEF Dock!Spells
    <3>6. \A i \in 1..(m - 1) : w[i] # e
      BY DEF w, Dock!Without, Dock!Spells
    <3>7. d.head # e
      BY <2>1, <3>2, <3>4, <3>6 DEF Dock!Spells
    <3> QED BY <3>3, <3>5, <3>7 DEF d
  <2> HIDE DEF u
  <2>3. /\ LinkHead(u, e) \in CacheType /\ ListOf(LinkHead(u, e)) = Dock!LinkHead(ListOf(u), e)
        /\ \A i \in Slots : /\ LinkHead(u, e).slots[i].name = u.slots[i].name
                            /\ LinkHead(u, e).slots[i].surf = u.slots[i].surf
    BY <2>1, <2>2, LinkHeadMaps
  <2>4. Touch(c, e) = LinkHead(u, e) /\ Dock!Touch(ListOf(c), e) = Dock!LinkHead(ListOf(u), e)
    BY <1>1, <1>3, <2>1 DEF Touch, Dock!Touch, u
  <2> QED BY <2>1, <2>3, <2>4
<1> QED BY <1>2, <1>3

(* A set of numbers that is not empty has its least. *)
LEMMA LeastIs ==
  ASSUME NEW S, S \subseteq Nat, S # {}
  PROVE  Min(S) \in S
<1> DEFINE Below == {0..k : k \in S}
           R == StrictSubsetOrdering(Nat)
<1>1. Below \subseteq FiniteSubsetsOf(Nat)
  <2> SUFFICES ASSUME NEW k \in S PROVE 0..k \in FiniteSubsetsOf(Nat)
    OBVIOUS
  <2>1. k \in Int /\ 0 \in Int /\ 0..k \subseteq Nat
    OBVIOUS
  <2>2. IsFiniteSet(0..k)
    BY <2>1, FS_Interval
  <2> QED BY <2>1, <2>2 DEF FiniteSubsetsOf
<1>2. Below # {}
  OBVIOUS
<1>3. IsWellFoundedOn(R, FiniteSubsetsOf(Nat))
  BY FS_StrictSubsetOrderingWellFounded
<1> HIDE DEF R
<1>4. \E x \in Below : \A y \in Below : <<y, x>> \notin R
  <2> HIDE DEF Below
  <2> QED BY <1>1, <1>2, <1>3, WFMin
<1>5. PICK m \in S : \A k \in S : <<0..k, 0..m>> \notin R
  BY <1>4
<1>6. \A k \in S : m <= k
  <2> SUFFICES ASSUME NEW k \in S, k < m PROVE FALSE
    OBVIOUS
  <2>1. k \in Nat /\ m \in Nat
    OBVIOUS
  <2>2. 0..k \subseteq 0..m /\ m \in 0..m /\ m \notin 0..k
    BY <2>1
  <2>3. <<0..k, 0..m>> \in R
    BY <2>1, <2>2 DEF R, StrictSubsetOrdering
  <2> QED BY <1>5, <2>3
<1> QED BY <1>6 DEF Min

(* What is so of the cache between two requests. *)
Vacant(c) == \A i \in Slots : c.slots[i].surf = 0 => c.slots[i].name = NoKey
Sound == /\ cache \in CacheType /\ answer \in Keys \union {NoKey}
         /\ Vacant(cache) /\ Dock!Inv

(* The list of a sound cache spells the slots in use. *)
LEMMA SoundList ==
  ASSUME Sound
  PROVE  /\ Dock!List = ListOf(cache)
         /\ \E s \in [1..Cardinality(Used(cache)) -> Slots] :
              /\ Dock!Spells(ListOf(cache), s, Cardinality(Used(cache)))
              /\ Used(cache) = {s[i] : i \in 1..Cardinality(Used(cache))}
<1>1. Dock!List = ListOf(cache)
  BY DEF Dock!List, ListOf, PrevTo, NextTo
<1>2. Dock!ListIntact
  BY DEF Sound, Dock!Inv
<1> QED BY <1>1, <1>2 DEF Dock!ListIntact

(* The slot of a key has that key. *)
LEMMA SlotIs ==
  ASSUME NEW c, NEW k
  PROVE  /\ SlotIn(c, k) = 0 => \A i \in Used(c) : c.slots[i].name # k
         /\ SlotIn(c, k) # 0 => SlotIn(c, k) \in Used(c) /\ c.slots[SlotIn(c, k)].name = k
<1> DEFINE at == {i \in Used(c) : c.slots[i].name = k}
<1>1. SlotIn(c, k) = IF at = {} THEN 0 ELSE Min(at)
  BY DEF SlotIn
<1>2. at \subseteq Nat /\ 0 \notin at
  BY CacheAssumption DEF Used, Slots
<1>3. at # {} => Min(at) \in at
  BY <1>2, LeastIs
<1> QED BY <1>1, <1>2, <1>3

--------------------------------------------------------------------------------
(* A name that is cached is found as in the dock's cache. *)
LEMMA HitMaps ==
  ASSUME Sound, NEW n \in Names, Lookup(n) # 0,
         cache' = Touch(cache, Lookup(n)), answer' = Norm[n]
  PROVE  /\ cache' \in CacheType /\ Vacant(cache')
         /\ \A i \in Slots : cache'.slots[i].surf = cache.slots[i].surf
         /\ Lookup(n) \in Used(cache)
         /\ Norm[n] \in Keys /\ Dock!GetHit(Norm[n])
<1> DEFINE k == Norm[n]
           e == Lookup(n)
           M == Cardinality(Used(cache))
<1>1. k \in Keys /\ k # NoKey
  BY CacheAssumption
<1>2. e = SlotOf[k]
  BY <1>1 DEF Lookup, SlotOf, SlotIn
<1>3. e \in Used(cache) /\ cache.slots[e].name = k
  <2>1. e = SlotIn(cache, k)
    BY <1>1, <1>2 DEF SlotOf
  <2> QED BY <2>1, SlotIs
<1>4. PICK s \in [1..M -> Slots] :
        Dock!Spells(ListOf(cache), s, M) /\ Used(cache) = {s[i] : i \in 1..M}
  BY SoundList
<1>5. PICK p \in 1..M : e = s[p]
  BY <1>3, <1>4
<1>6. M \in Nat
  BY DEF Sound, Dock!Inv, Dock!TypeOK
<1> DEFINE t == Touch(cache, e)
<1>7. /\ t \in CacheType /\ ListOf(t) = Dock!Touch(ListOf(cache), e)
      /\ \A i \in Slots : /\ t.slots[i].name = cache.slots[i].name
                          /\ t.slots[i].surf = cache.slots[i].surf
  <2> HIDE DEF M, e
  <2>1. cache \in CacheType
    BY DEF Sound
  <2> QED BY <1>4, <1>5, <1>6, <2>1, TouchMaps
<1> HIDE DEF t, e
<1>8. cache' = t
  BY DEF t, e
<1>9. KeyAt' = KeyAt /\ Used(cache)' = Used(cache)
  BY <1>7, <1>8 DEF KeyAt, Used
<1>10. SlotOf' = SlotOf
  <2>1. \A k2 \in Keys : {i \in Used(cache)' : cache'.slots[i].name = k2}
                         = {i \in Used(cache) : cache.slots[i].name = k2}
    BY <1>7, <1>8, <1>9 DEF Used
  <2> QED BY <2>1 DEF SlotOf, SlotIn
<1>11. Dock!SetList(Dock!Touch(Dock!List, SlotOf[k]))
  <2>1. Dock!List = ListOf(cache)
    BY SoundList
  <2>2. Dock!Touch(Dock!List, SlotOf[k]) = ListOf(t)
    BY <1>2, <1>7, <2>1
  <2> QED BY <1>8, <2>2 DEF Dock!SetList, ListOf, PrevTo, NextTo
<1>12. Dock!Returns(k, KeyAt[SlotOf[k]])
  <2>1. KeyAt[SlotOf[k]] = k
    BY <1>2, <1>3 DEF KeyAt, Used
  <2> QED BY <2>1 DEF Dock!Returns
<1>13. SlotOf[k] # 0
  BY <1>2 DEF e
<1>14. Dock!GetHit(k)
  BY <1>1, <1>9, <1>10, <1>11, <1>12, <1>13 DEF Dock!GetHit
<1>15. Vacant(cache')
  BY <1>7, <1>8 DEF Sound, Vacant
<1> QED BY <1>1, <1>3, <1>7, <1>8, <1>14, <1>15 DEF e

--------------------------------------------------------------------------------
(* How many slots are in use, and when one is free. *)
LEMMA SlotsCounted ==
  ASSUME NEW c
  PROVE  /\ IsFiniteSet(Used(c)) /\ Cardinality(Used(c)) \in Nat
         /\ Cardinality(Used(c)) = Capacity => Used(c) = Slots
         /\ FreeSlot(c) = 0 => Used(c) = Slots /\ Cardinality(Used(c)) = Capacity
         /\ FreeSlot(c) # 0 => FreeSlot(c) \in Slots \ Used(c)
<1>1. Capacity \in Nat \ {0} /\ 1 \in Int /\ Capacity \in Int
  BY CacheAssumption
<1>2. IsFiniteSet(Slots) /\ Cardinality(Slots) = Capacity
  BY <1>1, FS_Interval DEF Slots
<1>3. Used(c) \in SUBSET Slots
  BY DEF Used
<1>4. IsFiniteSet(Used(c)) /\ (Cardinality(Slots) = Cardinality(Used(c)) => Slots = Used(c))
  BY <1>2, <1>3, FS_Subset
<1>5. Cardinality(Used(c)) \in Nat
  BY <1>4, FS_CardinalityType
<1> DEFINE free == Slots \ Used(c)
<1>6. FreeSlot(c) = IF free = {} THEN 0 ELSE Min(free)
  BY DEF FreeSlot
<1>7. free \subseteq Nat /\ 0 \notin free
  BY DEF Slots
<1>8. free # {} => Min(free) \in free
  BY <1>7, LeastIs
<1> QED BY <1>2, <1>3, <1>4, <1>5, <1>6, <1>7, <1>8

(* Room is made in both caches alike. *)
LEMMA RoomMaps ==
  ASSUME Sound
  PROVE  /\ Room \in CacheType /\ Vacant(Room)
         /\ FreeSlot(Room) \in Slots \ Used(Room)
         /\ ListOf(Room) = Dock!MakeRoom.list
         /\ Used(Room) = Dock!MakeRoom.live
         /\ Cardinality(Used(Room)) = Dock!MakeRoom.size
         /\ Cardinality(Used(Room)) = Dock!MakeRoom.alive
         /\ Dock!MakeRoom.map = [k \in Keys |-> SlotIn(Room, k)]
         /\ \A i \in Used(Room) : /\ Room.slots[i].name = cache.slots[i].name
                                  /\ Room.slots[i].surf = cache.slots[i].surf
         /\ Used(Room) = IF FreeSlot(cache) = 0 THEN Used(cache) \ {cache.tail} ELSE Used(cache)
         /\ FreeSlot(cache) = 0 => cache.tail \in Used(cache)
<1> DEFINE M == Cardinality(Used(cache))
           tl == cache.tail
<1>1. /\ M \in Nat /\ M <= Capacity /\ Capacity \in Nat \ {0} /\ 0 \notin Slots
      /\ cache \in CacheType /\ Vacant(cache) /\ IsFiniteSet(Used(cache))
  BY CacheAssumption, SlotsCounted DEF Sound, Dock!Inv, Dock!Bounded, Slots
<1>2. PICK s \in [1..M -> Slots] :
        Dock!Spells(ListOf(cache), s, M) /\ Used(cache) = {s[i] : i \in 1..M}
  BY SoundList
<1>3. Dock!List = ListOf(cache)
  BY SoundList
<1>4. CASE FreeSlot(cache) # 0
  <2>1. M # Capacity
    BY <1>4, SlotsCounted
  <2>2. Room = cache /\ Dock!MakeRoom = Dock!Whole
    BY <1>1, <1>4, <2>1 DEF Room, Dock!MakeRoom
  <2>3. Dock!Whole = [list |-> Dock!List, map |-> SlotOf, live |-> Used(cache), size |-> M, alive |-> M]
    BY DEF Dock!Whole
  <2> HIDE DEF M
  <2> QED BY <1>1, <1>3, <1>4, <2>2, <2>3, SlotsCounted DEF SlotOf, M
<1>5. CASE FreeSlot(cache) = 0
  <2>1. M = Capacity /\ Used(cache) = Slots
    BY <1>5, SlotsCounted
  <2>2. M \in 1..M /\ tl = s[M] /\ tl \in Slots /\ tl # 0 /\ tl \in Used(cache)
    <3>1. ListOf(cache).tail = tl
      BY <1>1, ListTyped
    <3> HIDE DEF M, tl
    <3> QED BY <1>1, <1>2, <2>1, <3>1 DEF Dock!Spells
  <2> DEFINE u == Unlink(cache, tl)
             r == Room
  <2>3. /\ u \in CacheType /\ ListOf(u) = Dock!Unlink(ListOf(cache), tl)
        /\ \A i \in Slots : /\ u.slots[i].name = cache.slots[i].name
                            /\ u.slots[i].surf = cache.slots[i].surf
    <3> HIDE DEF M, tl
    <3> QED BY <1>1, <1>2, <2>2, UnlinkMaps
  <2>4. r = [u EXCEPT !.slots[tl] = Blank]
    BY <1>5 DEF Room, Vacated
  <2> HIDE DEF u, r
  <2>5. /\ r \in CacheType /\ r.slots[tl] = Blank /\ r.head = u.head /\ r.tail = u.tail
        /\ \A i \in Slots \ {tl} : r.slots[i] = u.slots[i]
    BY <2>2, <2>3, <2>4, CacheAssumption DEF CacheType, Slot, Pointers, Blank
  <2>6. u.slots[tl].prev = 0 /\ u.slots[tl].next = 0
    <3>1. /\ ListOf(u).prev[tl] = u.slots[tl].prev /\ ListOf(u).next[tl] = u.slots[tl].next
      BY <2>2, <2>3, ListTyped
    <3>2. Dock!Unlink(ListOf(cache), tl).prev[tl] = 0 /\ Dock!Unlink(ListOf(cache), tl).next[tl] = 0
      BY <2>2 DEF Dock!Unlink
    <3> QED BY <2>3, <3>1, <3>2
  <2>7. ListOf(r) = ListOf(u)
    <3>1. \A i \in Slots : r.slots[i].prev = u.slots[i].prev /\ r.slots[i].next = u.slots[i].next
      BY <2>2, <2>5, <2>6 DEF Blank
    <3> QED BY <2>5, <3>1 DEF ListOf
  <2>8. Used(r) = Used(cache) \ {tl}
    <3>1. r.slots[tl].surf = 0 /\ \A i \in Slots \ {tl} : r.slots[i].surf = cache.slots[i].surf
      BY <2>3, <2>5 DEF Blank
    <3> HIDE DEF tl
    <3>2. \A i \in Slots : r.slots[i].surf # 0 <=> cache.slots[i].surf # 0 /\ i # tl
      BY <3>1
    <3> QED BY <3>2 DEF Used
  <2>9. \A i \in Used(r) : /\ r.slots[i].name = cache.slots[i].name
                           /\ r.slots[i].surf = cache.slots[i].surf
    BY <2>3, <2>5, <2>8 DEF Used
  <2>10. Vacant(r)
    BY <1>1, <2>3, <2>5 DEF Vacant, Blank
  <2>11. /\ Dock!MakeRoom.list = Dock!Unlink(Dock!List, tl)
         /\ Dock!MakeRoom.map = [SlotOf EXCEPT ![KeyAt[tl]] = 0]
         /\ Dock!MakeRoom.live = Used(cache) \ {tl}
         /\ Dock!MakeRoom.size = M - 1 /\ Dock!MakeRoom.alive = M - 1
    <3>1. M >= Capacity
      BY <1>1, <2>1
    <3> QED BY <2>2, <3>1 DEF Dock!MakeRoom
  <2>12. Cardinality(Used(r)) = M - 1
    <3> DEFINE X == Used(cache)
    <3>1. IsFiniteSet(X) /\ tl \in X /\ M = Cardinality(X) /\ Used(r) = X \ {tl}
      BY <1>1, <2>2, <2>8
    <3> HIDE DEF X, M, tl, r
    <3>2. Cardinality(X \ {tl}) = Cardinality(X) - 1
      BY <3>1, FS_RemoveElement
    <3> QED BY <3>1, <3>2
  <2>13. FreeSlot(r) # 0
    BY <2>8, <2>2, SlotsCounted
  <2>14. [SlotOf EXCEPT ![KeyAt[tl]] = 0] = [k \in Keys |-> SlotIn(r, k)]
    <3> DEFINE q == cache.slots[tl].name
    <3>1. \A i \in Used(cache) : /\ cache.slots[i].name \in Keys
                                 /\ SlotIn(cache, cache.slots[i].name) = i
      <4>1. \A i \in Used(cache) : KeyAt[i] \in Keys /\ SlotOf[KeyAt[i]] = i
        BY DEF Sound, Dock!Inv, Dock!MapAgrees
      <4>2. \A i \in Used(cache) : KeyAt[i] = cache.slots[i].name
        BY DEF KeyAt, Used
      <4>3. \A k \in Keys : SlotOf[k] = SlotIn(cache, k)
        BY DEF SlotOf
      <4> QED BY <4>1, <4>2, <4>3
    <3>2. KeyAt[tl] = q /\ q \in Keys /\ SlotIn(cache, q) = tl
      BY <2>2, <3>1 DEF KeyAt
    <3>3. ASSUME NEW k \in Keys, k # q PROVE SlotIn(r, k) = SlotIn(cache, k)
      <4>1. {i \in Used(r) : r.slots[i].name = k} = {i \in Used(cache) : cache.slots[i].name = k}
        BY <2>8, <2>9, <3>3
      <4> QED BY <4>1 DEF SlotIn
    <3>4. SlotIn(r, q) = 0
      <4>1. \A i \in Used(r) : r.slots[i].name # q
        BY <2>8, <2>9, <3>1, <3>2
      <4> QED BY <4>1, SlotIs
    <3>5. SlotOf = [k \in Keys |-> SlotIn(cache, k)]
      BY DEF SlotOf
    <3> HIDE DEF q
    <3> QED BY <3>2, <3>3, <3>4, <3>5
  <2> QED BY <1>3, <1>5, <2>2, <2>3, <2>5, <2>7, <2>8, <2>9, <2>10, <2>11, <2>12, <2>13, <2>14,
             SlotsCounted DEF r
<1> QED BY <1>4, <1>5

--------------------------------------------------------------------------------
(* A name that is not is inserted as in the dock's cache. *)
LEMMA MissMaps ==
  ASSUME Sound, NEW n \in Names \ Paths, Lookup(n) = 0, Fresh(n) \in Surfaces,
         cache' = Inserted(n), answer' = Norm[n]
  PROVE  /\ cache' \in CacheType /\ Vacant(cache')
         /\ \A i \in Slots : cache'.slots[i].surf =
              IF i = FreeSlot(Room) THEN Fresh(n) ELSE Room.slots[i].surf
         /\ Norm[n] \in Keys /\ Dock!GetMiss(Norm[n])
<1> DEFINE k == Norm[n]
           f == Fresh(n)
           r == Room
           e == FreeSlot(r)
           new == [Blank EXCEPT !.name = k, !.surf = f]
           c == [r EXCEPT !.slots[e] = new]
           d == Dock!MakeRoom
<1>1. k \in Keys /\ k # NoKey /\ f \in Surfaces /\ f # 0 /\ 0 \notin Slots
  BY CacheAssumption DEF Slots
<1>2. SlotOf[k] = 0
  BY <1>1 DEF Lookup, SlotOf, SlotIn
<1>3. \A i \in Used(cache) : cache.slots[i].name # k
  BY <1>1, <1>2, SlotIs DEF SlotOf
<1>4. /\ r \in CacheType /\ Vacant(r) /\ e \in Slots \ Used(r) /\ ListOf(r) = d.list
      /\ Used(r) = d.live /\ Cardinality(Used(r)) = d.size /\ Cardinality(Used(r)) = d.alive
      /\ d.map = [q \in Keys |-> SlotIn(r, q)]
      /\ \A i \in Used(r) : r.slots[i].name = cache.slots[i].name
      /\ Used(r) \subseteq Used(cache)
  BY RoomMaps
<1>5. Dock!Roomy(d)
  BY DockFits, Dock!MakeRoomGivesRoom DEF Sound
<1>6. cache' = LinkHead(c, e)
  BY DEF Inserted
<1> HIDE DEF r, f, e, d
<1>7. /\ c \in CacheType /\ c.head = r.head /\ c.tail = r.tail
      /\ c.slots[e].name = k /\ c.slots[e].surf = f
      /\ \A i \in Slots \ {e} : c.slots[i] = r.slots[i]
  BY <1>1, <1>4, CacheAssumption DEF CacheType, Slot, Pointers, Blank
<1> HIDE DEF c
<1>8. (c.head = 0 <=> c.tail = 0) /\ e # c.head
  <2>1. PICK s \in [1..d.size -> Slots] : /\ Dock!Spells(d.list, s, d.size)
                                         /\ d.live = {s[i] : i \in 1..d.size}
    BY <1>5 DEF Dock!Roomy
  <2>2. d.size \in Nat /\ d.list.head = r.head /\ d.list.tail = r.tail
    BY <1>4, <1>5, ListTyped DEF Dock!Roomy
  <2>3. d.size # 0 => 1 \in 1..d.size /\ d.size \in 1..d.size
    BY <2>2
  <2>4. d.list.head = (IF d.size = 0 THEN 0 ELSE s[1]) /\ d.list.tail = (IF d.size = 0 THEN 0 ELSE s[d.size])
    BY <2>1 DEF Dock!Spells
  <2>5. \A i \in 1..d.size : s[i] # 0 /\ s[i] # e
    <3>1. d.live = Used(r)
      BY <1>4
    <3>2. \A i \in 1..d.size : s[i] \in d.live /\ s[i] \in Slots
      BY <2>1
    <3> QED BY <1>1, <1>4, <3>1, <3>2
  <2>6. e # 0
    BY <1>1, <1>4
  <2> QED BY <1>7, <2>2, <2>3, <2>4, <2>5, <2>6
<1>9. /\ cache' \in CacheType /\ ListOf(cache') = Dock!LinkHead(ListOf(c), e)
      /\ \A i \in Slots : cache'.slots[i].name = c.slots[i].name /\ cache'.slots[i].surf = c.slots[i].surf
  BY <1>4, <1>6, <1>7, <1>8, LinkHeadMaps
<1>10. Dock!LinkHead(ListOf(c), e) = Dock!LinkHead(d.list, e)
  <2> DEFINE a == ListOf(c)
             b == ListOf(r)
  <2>1. /\ a.head = b.head /\ a.tail = b.tail
        /\ \A i \in Slots \ {e} : a.prev[i] = b.prev[i] /\ a.next[i] = b.next[i]
    BY <1>4, <1>7, ListTyped
  <2> HIDE DEF a, b
  <2>2. Dock!LinkHead(a, e) = Dock!LinkHead(b, e)
    BY <2>1 DEF Dock!LinkHead
  <2> QED BY <1>4, <2>2 DEF a, b
<1>11. Dock!SetList(Dock!LinkHead(d.list, e))
  BY <1>9, <1>10 DEF Dock!SetList, ListOf, PrevTo, NextTo
<1>12. Used(cache)' = Used(r) \union {e}
  <2>1. \A i \in Slots : cache'.slots[i].surf # 0 <=> r.slots[i].surf # 0 \/ i = e
    BY <1>1, <1>7, <1>9
  <2> QED BY <2>1, <1>4 DEF Used
<1>13. Cardinality(Used(cache)') = d.size + 1
  <2> DEFINE X == Used(r)
  <2>1. IsFiniteSet(X) /\ e \notin X /\ Cardinality(X) = d.size
    BY <1>4, SlotsCounted
  <2> HIDE DEF X
  <2>2. Cardinality(X \union {e}) = d.size + 1
    BY <2>1, FS_AddElement
  <2> QED BY <1>12, <2>2 DEF X
<1>14. \A i \in Slots : cache'.slots[i].name =
         IF i = e THEN k ELSE IF i \in Used(r) THEN cache.slots[i].name ELSE NoKey
  <2> SUFFICES ASSUME NEW i \in Slots
               PROVE  cache'.slots[i].name =
                        IF i = e THEN k ELSE IF i \in Used(r) THEN cache.slots[i].name ELSE NoKey
    OBVIOUS
  <2>1. CASE i = e
    BY <1>7, <1>9, <2>1
  <2>2. CASE i # e /\ i \in Used(r)
    BY <1>4, <1>7, <1>9, <2>2
  <2>3. CASE i # e /\ i \notin Used(r)
    BY <1>4, <1>7, <1>9, <2>3 DEF Vacant, Used
  <2> QED BY <2>1, <2>2, <2>3
<1>15. KeyAt' = [i \in Slots |-> IF i = e THEN k ELSE IF i \in d.live THEN KeyAt[i] ELSE NoKey]
  <2>1. KeyAt' = [i \in Slots |-> cache'.slots[i].name]
    BY DEF KeyAt
  <2>2. \A i \in Slots : KeyAt[i] = cache.slots[i].name
    BY DEF KeyAt
  <2> QED BY <1>4, <1>14, <2>1, <2>2
<1>16. SlotOf' = [d.map EXCEPT ![k] = e]
  <2>1. SlotOf' = [q \in Keys |-> SlotIn(cache', q)]
    BY DEF SlotOf
  <2>2. SlotIn(cache', k) = e
    <3>1. e \in Used(cache') /\ cache'.slots[e].name = k /\ e # 0
      BY <1>1, <1>4, <1>12, <1>14 DEF Used
    <3>2. \A i \in Used(cache') : cache'.slots[i].name = k => i = e
      BY <1>3, <1>4, <1>12, <1>14 DEF Used
    <3> QED BY <3>1, <3>2, SlotIs
  <2>3. ASSUME NEW q \in Keys, q # k PROVE SlotIn(cache', q) = SlotIn(r, q)
    <3>1. {i \in Used(cache') : cache'.slots[i].name = q} = {i \in Used(r) : r.slots[i].name = q}
      <4>1. Used(cache') = Used(r) \union {e} /\ Used(r) \subseteq Slots
        BY <1>12 DEF Used
      <4>2. \A i \in Used(r) : i # e /\ cache'.slots[i].name = r.slots[i].name
        BY <1>4, <1>14, <4>1
      <4>3. cache'.slots[e].name # q
        BY <1>4, <1>14, <2>3
      <4> QED BY <4>1, <4>2, <4>3
    <3> QED BY <3>1 DEF SlotIn
  <2> QED BY <1>1, <1>4, <2>1, <2>2, <2>3
<1>17. Dock!Returns(k, k)
  BY DEF Dock!Returns
<1>18. Dock!GetMiss(k)
  <2>1. e \in Slots \ d.live /\ Used(cache)' = d.live \union {e} /\ d.alive = d.size
    BY <1>4, <1>12
  <2> QED BY <1>1, <1>2, <1>11, <1>13, <1>15, <1>16, <1>17, <2>1 DEF Dock!GetMiss, d
<1>19. Vacant(cache')
  BY <1>1, <1>4, <1>7, <1>9 DEF Vacant
<1>20. \A i \in Slots : cache'.slots[i].surf = IF i = e THEN f ELSE r.slots[i].surf
  BY <1>7, <1>9
<1> QED BY <1>1, <1>9, <1>18, <1>19, <1>20 DEF r, f, e

--------------------------------------------------------------------------------
(* References. *)

(* Where a surface is. *)
SlotsWith(c, s) == {i \in Slots : c.slots[i].surf = s}
HandsWith(g, s) == {h \in Holders : g[h] = s}

Counted == /\ Sound /\ held \in [Holders -> Surfaces \union {0}]
           /\ refs \in [Surfaces -> Nat] /\ EveryReferenceCounted

(* There are finitely many slots and holders. *)
LEMMA PlacesCounted ==
  /\ IsFiniteSet(Slots) /\ Cardinality(Slots) = Capacity /\ Capacity \in Nat
  /\ IsFiniteSet(Holders) /\ Cardinality(Holders) \in Nat
  /\ \A c, s : IsFiniteSet(SlotsWith(c, s)) /\ Cardinality(SlotsWith(c, s)) \in Nat
  /\ \A g, s : IsFiniteSet(HandsWith(g, s)) /\ Cardinality(HandsWith(g, s)) \in Nat
<1>1. Capacity \in Nat /\ 1 \in Int /\ Capacity \in Int /\ Capacity # 0 /\ IsFiniteSet(Holders)
  BY CacheAssumption
<1>2. IsFiniteSet(Slots) /\ Cardinality(Slots) = Capacity
  BY <1>1, FS_Interval DEF Slots
<1>3. Cardinality(Holders) \in Nat
  BY <1>1, FS_CardinalityType
<1>4. ASSUME NEW c, NEW s PROVE IsFiniteSet(SlotsWith(c, s)) /\ Cardinality(SlotsWith(c, s)) \in Nat
  <2>1. SlotsWith(c, s) \in SUBSET Slots
    BY DEF SlotsWith
  <2> QED BY <1>2, <2>1, FS_Subset, FS_CardinalityType
<1>5. ASSUME NEW g, NEW s PROVE IsFiniteSet(HandsWith(g, s)) /\ Cardinality(HandsWith(g, s)) \in Nat
  <2>1. HandsWith(g, s) \in SUBSET Holders
    BY DEF HandsWith
  <2> QED BY <1>1, <2>1, FS_Subset, FS_CardinalityType
<1> QED BY <1>1, <1>2, <1>3, <1>4, <1>5

(* The references counted, in the words of the definitions above. *)
LEMMA CountsAre ==
  EveryReferenceCounted <=>
    \A s \in Surfaces : refs[s] = Cardinality(SlotsWith(cache, s)) + Cardinality(HandsWith(held, s))
  BY DEF EveryReferenceCounted, SlotsWith, HandsWith

(* The values of a function are no more than its arguments. *)
LEMMA ImageIsFinite ==
  ASSUME NEW D, IsFiniteSet(D), NEW T, NEW g \in [D -> T]
  PROVE  /\ IsFiniteSet({g[x] : x \in D}) /\ Cardinality({g[x] : x \in D}) \in Nat
         /\ Cardinality({g[x] : x \in D}) <= Cardinality(D)
<1> DEFINE I == {g[x] : x \in D}
<1>1. g \in Surjection(D, I)
  BY DEF Surjection
<1> HIDE DEF I
<1>2. IsFiniteSet(I) /\ Cardinality(I) <= Cardinality(D)
  BY <1>1, FS_Surjection
<1>3. Cardinality(I) \in Nat
  BY <1>2, FS_CardinalityType
<1> QED BY <1>2, <1>3 DEF I

(* There is always a free address: the surfaces in use are in slots and hands. *)
LEMMA FreshIsFree ==
  ASSUME Counted, NEW n \in Names
  PROVE  Fresh(n) \in Surfaces /\ refs[Fresh(n)] = 0
<1> DEFINE P == Pool[Norm[n]]
           a == [i \in Slots |-> cache.slots[i].surf]
           A == {a[i] : i \in Slots}
           B == {held[h] : h \in Holders}
           free == {s \in P : refs[s] = 0}
<1>1. /\ P \subseteq Surfaces /\ IsFiniteSet(Surfaces) /\ Surfaces \subseteq Nat
      /\ Cardinality(P) > Capacity + Cardinality(Holders)
  BY CacheAssumption
<1>2. IsFiniteSet(A) /\ Cardinality(A) \in Nat /\ Cardinality(A) <= Capacity
  <2>1. a \in [Slots -> {cache.slots[i].surf : i \in Slots}]
    OBVIOUS
  <2> DEFINE D == Slots
  <2> HIDE DEF a, D
  <2>2. IsFiniteSet(D) /\ Cardinality(D) = Capacity
    BY PlacesCounted DEF D
  <2>3. /\ IsFiniteSet({a[x] : x \in D}) /\ Cardinality({a[x] : x \in D}) \in Nat
        /\ Cardinality({a[x] : x \in D}) <= Cardinality(D)
    BY <2>1, <2>2, ImageIsFinite DEF D
  <2> QED BY <2>2, <2>3 DEF D
<1>3. IsFiniteSet(B) /\ Cardinality(B) \in Nat /\ Cardinality(B) <= Cardinality(Holders)
  <2>1. held \in [Holders -> Surfaces \union {0}]
    BY DEF Counted
  <2> QED BY <2>1, PlacesCounted, ImageIsFinite
<1>4. ASSUME NEW s \in Surfaces, refs[s] # 0 PROVE s \in A \union B
  <2>1. refs[s] = Cardinality(SlotsWith(cache, s)) + Cardinality(HandsWith(held, s))
    BY CountsAre DEF Counted
  <2>2. SlotsWith(cache, s) # {} \/ HandsWith(held, s) # {}
    BY <1>4, <2>1, FS_EmptySet
  <2> QED BY <2>2 DEF SlotsWith, HandsWith
<1>5. free # {}
  <2> HIDE DEF A, B, P
  <2>1. SUFFICES ASSUME free = {} PROVE FALSE
    OBVIOUS
  <2>2. P \in SUBSET (A \union B)
    BY <1>1, <1>4, <2>1
  <2>3. /\ IsFiniteSet(A \union B)
        /\ Cardinality(A \union B) = Cardinality(A) + Cardinality(B) - Cardinality(A \intersect B)
    BY <1>2, <1>3, FS_Union
  <2>4. Cardinality(A \intersect B) \in Nat
    BY <1>2, FS_Intersection, FS_CardinalityType
  <2>5. Cardinality(P) <= Cardinality(A \union B)
    BY <2>2, <2>3, FS_Subset
  <2>6. Cardinality(P) \in Nat
    BY <1>1, FS_Subset, FS_CardinalityType
  <2> QED BY <1>1, <1>2, <1>3, <2>3, <2>4, <2>5, <2>6, PlacesCounted
<1>6. Min(free) \in free
  BY <1>1, <1>5, LeastIs
<1>7. Fresh(n) = Min(free)
  BY DEF Fresh
<1> QED BY <1>1, <1>6, <1>7

(* A free address is in no slot and in no hands. *)
LEMMA FreshIsNowhere ==
  ASSUME Counted, NEW f \in Surfaces, refs[f] = 0
  PROVE  SlotsWith(cache, f) = {} /\ HandsWith(held, f) = {}
<1>1. Cardinality(SlotsWith(cache, f)) = 0 /\ Cardinality(HandsWith(held, f)) = 0
  BY CountsAre, PlacesCounted DEF Counted
<1> QED BY <1>1, PlacesCounted, FS_EmptySet

(* The references in r are those of the cache c and of the hands g, and one   *)
(* more to the surface x.                                                     *)
OneOver(r, c, g, x) ==
  /\ r \in [Surfaces -> Nat]
  /\ \A s \in Surfaces : r[s] = Cardinality(SlotsWith(c, s)) + Cardinality(HandsWith(g, s))
                                + (IF s = x THEN 1 ELSE 0)

(* When room is made, the reference of the slot given up goes. *)
LEMMA LeftCounts ==
  ASSUME Counted
  PROVE  /\ Left \in [Surfaces -> Nat]
         /\ \A s \in Surfaces :
              Left[s] = Cardinality(SlotsWith(Room, s)) + Cardinality(HandsWith(held, s))
<1> DEFINE tl == cache.tail
           v == cache.slots[tl].surf
<1>1. /\ cache \in CacheType /\ refs \in [Surfaces -> Nat] /\ 0 \notin Slots /\ 0 \notin Surfaces
      /\ \A s \in Surfaces :
           refs[s] = Cardinality(SlotsWith(cache, s)) + Cardinality(HandsWith(held, s))
  BY CountsAre, CacheAssumption DEF Counted, Sound, Slots
<1>2. CASE FreeSlot(cache) # 0
  <2>1. Room = cache /\ Left = refs
    BY <1>2 DEF Room, Left
  <2> QED BY <1>1, <2>1
<1>3. CASE FreeSlot(cache) = 0
  <2>1. /\ Used(Room) = Used(cache) \ {tl} /\ tl \in Used(cache)
        /\ \A i \in Used(Room) : Room.slots[i].surf = cache.slots[i].surf
    BY <1>3, RoomMaps DEF Counted
  <2>2. tl \in Slots /\ tl # 0 /\ v \in Surfaces
    BY <1>1, <2>1 DEF Used, CacheType, Slot
  <2>3. Left = [refs EXCEPT ![v] = @ - 1]
    BY <1>3, <2>2 DEF Left
  <2>4. ASSUME NEW s \in Surfaces PROVE SlotsWith(Room, s) = SlotsWith(cache, s) \ {tl}
    <3>1. s # 0
      BY <1>1
    <3>2. \A i \in Slots : Room.slots[i].surf = s <=> cache.slots[i].surf = s /\ i # tl
      <4> SUFFICES ASSUME NEW i \in Slots
                   PROVE  Room.slots[i].surf = s <=> cache.slots[i].surf = s /\ i # tl
        OBVIOUS
      <4>1. CASE i \in Used(Room)
        BY <2>1, <4>1
      <4>2. CASE i \notin Used(Room)
        <5>1. Room.slots[i].surf = 0
          BY <4>2 DEF Used
        <5>2. i = tl \/ cache.slots[i].surf = 0
          BY <2>1, <4>2 DEF Used
        <5> QED BY <3>1, <5>1, <5>2
      <4> QED BY <4>1, <4>2
    <3> HIDE DEF tl
    <3> QED BY <3>2 DEF SlotsWith
  <2>5. tl \in SlotsWith(cache, v) /\ \A s \in Surfaces \ {v} : tl \notin SlotsWith(cache, s)
    BY <2>2 DEF SlotsWith
  <2> HIDE DEF v, tl
  <2>6. ASSUME NEW s \in Surfaces
        PROVE  Cardinality(SlotsWith(Room, s)) =
                 IF s = v THEN Cardinality(SlotsWith(cache, s)) - 1
                 ELSE Cardinality(SlotsWith(cache, s))
    <3>1. IsFiniteSet(SlotsWith(cache, s))
      BY PlacesCounted
    <3>2. Cardinality(SlotsWith(cache, s) \ {tl}) =
            IF tl \in SlotsWith(cache, s) THEN Cardinality(SlotsWith(cache, s)) - 1
            ELSE Cardinality(SlotsWith(cache, s))
      BY <3>1, FS_RemoveElement
    <3> QED BY <2>4, <2>5, <3>2
  <2>7. \A s \in Surfaces : /\ Cardinality(SlotsWith(Room, s)) \in Nat
                            /\ Cardinality(SlotsWith(cache, s)) \in Nat
                            /\ Cardinality(HandsWith(held, s)) \in Nat
    BY PlacesCounted
  <2>8. \A s \in Surfaces : Left[s] = IF s = v THEN refs[s] - 1 ELSE refs[s]
    BY <1>1, <2>3
  <2>9. \A s \in Surfaces :
          Left[s] = Cardinality(SlotsWith(Room, s)) + Cardinality(HandsWith(held, s))
    BY <1>1, <2>6, <2>7, <2>8
  <2>10. \A s \in Surfaces : Left[s] \in Nat
    BY <2>7, <2>9
  <2>11. Left = [s \in Surfaces |-> Left[s]]
    BY <1>1, <2>3
  <2> QED BY <2>9, <2>10, <2>11
<1> QED BY <1>2, <1>3

(* A request leaves the surface it gives with one reference over, for the     *)
(* caller.                                                                    *)
LEMMA LoadedCounts ==
  ASSUME Counted, NEW n \in Names, cache' = Loaded(n).cache, Answers(n)
  PROVE  /\ cache' \in CacheType /\ Vacant(cache') /\ answer' \in Keys \union {NoKey}
         /\ Loaded(n).surf \in Surfaces
         /\ OneOver(Loaded(n).refs, cache', held, Loaded(n).surf)
         /\ \/ Norm[n] \in Keys /\ Dock!GetHit(Norm[n])
            \/ Norm[n] \in Keys /\ Dock!GetMiss(Norm[n])
            \/ cache' = cache /\ answer' = answer
<1> DEFINE f == Fresh(n)
<1>1. /\ cache \in CacheType /\ refs \in [Surfaces -> Nat] /\ 0 \notin Slots /\ 0 \notin Surfaces
      /\ Sound /\ answer \in Keys \union {NoKey} /\ Norm[n] \in Keys
      /\ \A s \in Surfaces :
           refs[s] = Cardinality(SlotsWith(cache, s)) + Cardinality(HandsWith(held, s))
  BY CountsAre, CacheAssumption DEF Counted, Sound, Slots
<1>2. f \in Surfaces /\ refs[f] = 0 /\ SlotsWith(cache, f) = {} /\ HandsWith(held, f) = {}
  BY FreshIsFree, FreshIsNowhere
<1>3. \A s \in Surfaces : /\ Cardinality(SlotsWith(cache, s)) \in Nat
                          /\ Cardinality(HandsWith(held, s)) \in Nat
  BY PlacesCounted
<1>4. CASE Lookup(n) # 0
  <2> DEFINE x == cache.slots[Lookup(n)].surf
  <2>1. n \notin Paths
    BY <1>4 DEF Lookup
  <2>2. /\ cache' = Touch(cache, Lookup(n)) /\ answer' = Norm[n]
        /\ Loaded(n).surf = x /\ Loaded(n).refs = [refs EXCEPT ![x] = @ + 1]
    BY <1>4, <2>1 DEF Loaded, Answers
  <2>3. /\ cache' \in CacheType /\ Vacant(cache') /\ Lookup(n) \in Used(cache)
        /\ \A i \in Slots : cache'.slots[i].surf = cache.slots[i].surf
        /\ Dock!GetHit(Norm[n])
    BY <1>1, <1>4, <2>2, HitMaps
  <2>4. x \in Surfaces
    BY <1>1, <2>3 DEF Used, CacheType, Slot
  <2> HIDE DEF x
  <2>5. \A s \in Surfaces : SlotsWith(cache', s) = SlotsWith(cache, s)
    BY <2>3 DEF SlotsWith
  <2>6. OneOver([refs EXCEPT ![x] = @ + 1], cache', held, x)
    BY <1>1, <1>3, <2>4, <2>5 DEF OneOver
  <2> QED BY <1>1, <2>2, <2>3, <2>4, <2>6
<1>5. CASE Lookup(n) = 0 /\ n \in Paths
  <2>1. /\ cache' = cache /\ answer' = answer
        /\ Loaded(n).surf = f /\ Loaded(n).refs = [refs EXCEPT ![f] = 1]
    BY <1>5 DEF Loaded, Answers
  <2> HIDE DEF f
  <2>2. Cardinality(SlotsWith(cache, f)) = 0 /\ Cardinality(HandsWith(held, f)) = 0
    BY <1>2, FS_EmptySet
  <2>3. OneOver([refs EXCEPT ![f] = 1], cache, held, f)
    BY <1>1, <1>2, <1>3, <2>2 DEF OneOver
  <2>4. Vacant(cache)
    BY <1>1 DEF Sound
  <2> QED BY <1>1, <1>2, <2>1, <2>3, <2>4
<1>6. CASE Lookup(n) = 0 /\ n \notin Paths
  <2> DEFINE e == FreeSlot(Room)
  <2>1. /\ cache' = Inserted(n) /\ answer' = Norm[n]
        /\ Loaded(n).surf = f /\ Loaded(n).refs = [Left EXCEPT ![f] = 2]
    BY <1>6 DEF Loaded, Answers
  <2>2. /\ cache' \in CacheType /\ Vacant(cache') /\ Dock!GetMiss(Norm[n])
        /\ \A i \in Slots : cache'.slots[i].surf = IF i = e THEN f ELSE Room.slots[i].surf
    BY <1>1, <1>2, <1>6, <2>1, MissMaps
  <2>3. e \in Slots \ Used(Room) /\ Room.slots[e].surf = 0
        /\ \A i \in Used(Room) : i \in Used(cache) /\ Room.slots[i].surf = cache.slots[i].surf
    BY <1>1, RoomMaps DEF Used
  <2> HIDE DEF e, f
  <2>4. SlotsWith(cache', f) = {e}
    <3>1. \A i \in Slots : Room.slots[i].surf # f
      <4> SUFFICES ASSUME NEW i \in Slots PROVE Room.slots[i].surf # f
        OBVIOUS
      <4>1. CASE i \in Used(Room)
        BY <1>2, <2>3, <4>1 DEF SlotsWith
      <4>2. CASE i \notin Used(Room)
        BY <1>1, <1>2, <4>2 DEF Used
      <4> QED BY <4>1, <4>2
    <3> QED BY <2>2, <2>3, <3>1 DEF SlotsWith
  <2>5. \A s \in Surfaces \ {f} : SlotsWith(cache', s) = SlotsWith(Room, s)
    BY <1>1, <2>2, <2>3 DEF SlotsWith
  <2>6. Cardinality(SlotsWith(cache', f)) = 1 /\ Cardinality(HandsWith(held, f)) = 0
    BY <1>2, <2>4, FS_Singleton, FS_EmptySet
  <2>7. /\ Left \in [Surfaces -> Nat]
        /\ \A s \in Surfaces :
             Left[s] = Cardinality(SlotsWith(Room, s)) + Cardinality(HandsWith(held, s))
    BY LeftCounts
  <2>8. OneOver([Left EXCEPT ![f] = 2], cache', held, f)
    <3>1. [Left EXCEPT ![f] = 2] \in [Surfaces -> Nat]
      BY <2>7
    <3>2. ASSUME NEW s \in Surfaces
          PROVE  [Left EXCEPT ![f] = 2][s] =
                   Cardinality(SlotsWith(cache', s)) + Cardinality(HandsWith(held, s))
                   + (IF s = f THEN 1 ELSE 0)
      <4>1. CASE s = f
        BY <2>6, <2>7, <4>1
      <4>2. CASE s # f
        BY <2>5, <2>7, <4>2
      <4> QED BY <4>1, <4>2
    <3> QED BY <3>1, <3>2 DEF OneOver
  <2> QED BY <1>1, <1>2, <2>1, <2>2, <2>8 DEF f
<1> QED BY <1>4, <1>5, <1>6

--------------------------------------------------------------------------------
(* A request that is answered with nothing leaves it sound. *)
LEMMA UnchangedSound ==
  ASSUME Sound, cache' = cache, answer' \in Keys \union {NoKey}
  PROVE  Sound'
<1>1. /\ KeyAt' = KeyAt /\ NextTo' = NextTo /\ PrevTo' = PrevTo /\ SlotOf' = SlotOf
      /\ Used(cache)' = Used(cache)
  BY DEF KeyAt, NextTo, PrevTo, SlotOf, SlotIn, Used
<1>2. Dock!TypeOK'
  <2>1. Dock!TypeOK
    BY DEF Sound, Dock!Inv
  <2> QED BY <1>1, <2>1 DEF Dock!TypeOK
<1>3. Dock!ServesTheKey'
  BY DEF Dock!ServesTheKey
<1>4. Dock!Inv'
  <2>1. Dock!Inv
    BY DEF Sound
  <2>2. Dock!List' = Dock!List
    BY <1>1 DEF Dock!List
  <2>3. Dock!ListIntact' /\ Dock!MapAgrees' /\ Dock!Bounded' /\ Dock!SurfacesAccounted'
    BY <1>1, <2>1, <2>2 DEF Dock!Inv, Dock!ListIntact, Dock!MapAgrees, Dock!Bounded, Dock!SurfacesAccounted
  <2>4. Dock!SurfacesMatchKeys'
    BY <1>1, <2>1 DEF Dock!Inv, Dock!SurfacesMatchKeys
  <2> QED BY <1>2, <1>3, <2>3, <2>4 DEF Dock!Inv
<1> QED BY <1>4 DEF Sound, Vacant

(* What a request leaves of the cache is sound. *)
LEMMA LoadedSound ==
  ASSUME Counted, NEW n \in Names, cache' = Loaded(n).cache, Answers(n)
  PROVE  Sound'
<1>1. /\ cache' \in CacheType /\ Vacant(cache') /\ answer' \in Keys \union {NoKey}
      /\ \/ Norm[n] \in Keys /\ Dock!GetHit(Norm[n])
         \/ Norm[n] \in Keys /\ Dock!GetMiss(Norm[n])
         \/ cache' = cache /\ answer' = answer
  BY LoadedCounts
<1>2. Dock!Inv /\ Sound
  BY DEF Counted, Sound
<1>3. CASE Norm[n] \in Keys /\ Dock!GetHit(Norm[n])
  <2>1. Dock!Inv'
    BY <1>2, <1>3, DockFits, Dock!GetHitInv
  <2> QED BY <1>1, <2>1 DEF Sound, Vacant
<1>4. CASE Norm[n] \in Keys /\ Dock!GetMiss(Norm[n])
  <2>1. Dock!Inv'
    BY <1>2, <1>4, DockFits, Dock!GetMissInv
  <2> QED BY <1>1, <2>1 DEF Sound, Vacant
<1>5. CASE cache' = cache /\ answer' = answer
  BY <1>1, <1>2, <1>5, UnchangedSound
<1> QED BY <1>1, <1>3, <1>4, <1>5

--------------------------------------------------------------------------------
(* The same after a step. *)
LEMMA CountsAreNext ==
  (\A s \in Surfaces : refs'[s] = Cardinality(SlotsWith(cache', s)) + Cardinality(HandsWith(held', s)))
    => EveryReferenceCounted'
  BY DEF EveryReferenceCounted, SlotsWith, HandsWith

(* The surface one over goes to a holder whose hands were empty. *)
LEMMA TakeCounts ==
  ASSUME Counted, NEW h \in Holders, held[h] = 0, NEW tries, Take(h, tries)
  PROVE  Counted' /\ \A g \in Holders \ {h} : held'[g] = held[g]
<1>1. /\ Sound /\ held \in [Holders -> Surfaces \union {0}] /\ refs \in [Surfaces -> Nat]
      /\ 0 \notin Surfaces /\ EveryReferenceCounted
  BY CacheAssumption DEF Counted
<1>2. CASE \E n \in Names :
             /\ Gives(tries, n) /\ Answers(n)
             /\ cache' = Loaded(n).cache /\ refs' = Loaded(n).refs
             /\ held' = [held EXCEPT ![h] = Loaded(n).surf]
  <2>1. PICK n \in Names : /\ Answers(n) /\ cache' = Loaded(n).cache /\ refs' = Loaded(n).refs
                           /\ held' = [held EXCEPT ![h] = Loaded(n).surf]
    BY <1>2
  <2> DEFINE x == Loaded(n).surf
  <2>2. Sound'
    BY <2>1, LoadedSound
  <2>3. x \in Surfaces /\ OneOver(refs', cache', held, x)
    BY <2>1, LoadedCounts
  <2>4. held' = [held EXCEPT ![h] = x]
    BY <2>1
  <2> HIDE DEF x
  <2>5. held' \in [Holders -> Surfaces \union {0}] /\ \A g \in Holders \ {h} : held'[g] = held[g]
    BY <1>1, <2>3, <2>4
  <2>6. HandsWith(held', x) = HandsWith(held, x) \union {h} /\ h \notin HandsWith(held, x)
    BY <1>1, <2>3, <2>4 DEF HandsWith
  <2>7. \A s \in Surfaces \ {x} : HandsWith(held', s) = HandsWith(held, s)
    BY <1>1, <2>3, <2>4 DEF HandsWith
  <2>8. Cardinality(HandsWith(held', x)) = Cardinality(HandsWith(held, x)) + 1
    <3> DEFINE X == HandsWith(held, x)
    <3>1. IsFiniteSet(X) /\ h \notin X
      BY <2>6, PlacesCounted
    <3> HIDE DEF X
    <3>2. Cardinality(X \union {h}) = Cardinality(X) + 1
      BY <3>1, FS_AddElement
    <3> QED BY <2>6, <3>2 DEF X
  <2>9. ASSUME NEW s \in Surfaces
        PROVE  refs'[s] = Cardinality(SlotsWith(cache', s)) + Cardinality(HandsWith(held', s))
    <3>1. /\ Cardinality(SlotsWith(cache', s)) \in Nat
          /\ Cardinality(HandsWith(held, s)) \in Nat
      BY PlacesCounted
    <3>2. refs'[s] = Cardinality(SlotsWith(cache', s)) + Cardinality(HandsWith(held, s))
                     + (IF s = x THEN 1 ELSE 0)
      BY <2>3 DEF OneOver
    <3>3. CASE s = x
      BY <2>8, <3>1, <3>2, <3>3
    <3>4. CASE s # x
      BY <2>7, <3>1, <3>2, <3>4
    <3> QED BY <3>3, <3>4
  <2>10. EveryReferenceCounted' /\ refs' \in [Surfaces -> Nat]
    BY <2>3, <2>9, CountsAreNext DEF OneOver
  <2> QED BY <2>2, <2>5, <2>10 DEF Counted
<1>3. CASE answer' = NoKey /\ UNCHANGED <<cache, refs, held>>
  <2>1. Sound'
    BY <1>1, <1>3, UnchangedSound
  <2>2. EveryReferenceCounted'
    BY <1>1, <1>3 DEF EveryReferenceCounted
  <2> QED BY <1>1, <1>3, <2>1, <2>2 DEF Counted
<1>4. \/ \E n \in Names :
             /\ Gives(tries, n) /\ Answers(n)
             /\ cache' = Loaded(n).cache /\ refs' = Loaded(n).refs
             /\ held' = [held EXCEPT ![h] = Loaded(n).surf]
      \/ answer' = NoKey /\ UNCHANGED <<cache, refs, held>>
  BY DEF Take
<1> QED BY <1>2, <1>3, <1>4

(* What is drawn is given back at once. *)
LEMMA DrawCounts ==
  ASSUME Counted, NEW n \in Names, Draw(n)
  PROVE  Counted' /\ held' = held
<1>1. /\ Sound /\ held \in [Holders -> Surfaces \union {0}] /\ refs \in [Surfaces -> Nat]
      /\ EveryReferenceCounted
  BY DEF Counted
<1>2. CASE Loadable(n)
  <2> DEFINE x == Loaded(n).surf
             r == Loaded(n).refs
  <2>1. /\ cache' = Loaded(n).cache /\ Answers(n) /\ held' = held /\ refs' = [r EXCEPT ![x] = @ - 1]
    BY <1>2 DEF Draw
  <2>2. Sound'
    BY <2>1, LoadedSound
  <2>3. x \in Surfaces /\ OneOver(r, cache', held, x)
    BY <2>1, LoadedCounts
  <2> HIDE DEF x, r
  <2>4. r \in [Surfaces -> Nat]
    BY <2>3 DEF OneOver
  <2>5. ASSUME NEW s \in Surfaces
        PROVE  /\ refs'[s] = Cardinality(SlotsWith(cache', s)) + Cardinality(HandsWith(held', s))
               /\ refs'[s] \in Nat
    <3>1. /\ Cardinality(SlotsWith(cache', s)) \in Nat
          /\ Cardinality(HandsWith(held, s)) \in Nat
      BY PlacesCounted
    <3>2. r[s] = Cardinality(SlotsWith(cache', s)) + Cardinality(HandsWith(held, s))
                 + (IF s = x THEN 1 ELSE 0)
      BY <2>3 DEF OneOver
    <3>3. refs'[s] = IF s = x THEN r[s] - 1 ELSE r[s]
      BY <2>1, <2>4
    <3> QED BY <2>1, <3>1, <3>2, <3>3
  <2>6. refs' \in [Surfaces -> Nat]
    <3>1. refs' = [s \in Surfaces |-> refs'[s]]
      BY <2>1, <2>4
    <3> QED BY <2>5, <3>1
  <2>7. EveryReferenceCounted'
    BY <2>5, CountsAreNext
  <2> QED BY <1>1, <2>1, <2>2, <2>6, <2>7 DEF Counted
<1>3. CASE ~Loadable(n)
  <2>1. answer' = NoKey /\ UNCHANGED <<cache, refs, held>>
    BY <1>3 DEF Draw
  <2>2. Sound'
    BY <1>1, <2>1, UnchangedSound
  <2>3. EveryReferenceCounted'
    BY <1>1, <2>1 DEF EveryReferenceCounted
  <2> QED BY <1>1, <2>1, <2>2, <2>3 DEF Counted
<1> QED BY <1>2, <1>3

(* Of what is released, each holder's reference goes. *)
LEMMA ReleaseCounts ==
  ASSUME Counted, NEW hs \in SUBSET Holders, Release(hs)
  PROVE  Counted' /\ \A h \in Holders : held'[h] = IF h \in hs THEN 0 ELSE held[h]
<1>1. /\ Sound /\ held \in [Holders -> Surfaces \union {0}] /\ refs \in [Surfaces -> Nat]
      /\ EveryReferenceCounted /\ 0 \notin Surfaces
  BY CacheAssumption DEF Counted
<1>2. /\ refs' = [s \in Surfaces |-> refs[s] - Cardinality({h \in hs : held[h] = s})]
      /\ held' = [h \in Holders |-> IF h \in hs THEN 0 ELSE held[h]]
      /\ cache' = cache /\ answer' = answer
  BY DEF Release
<1>3. Sound'
  BY <1>1, <1>2, UnchangedSound DEF Sound
<1>4. held' \in [Holders -> Surfaces \union {0}]
  BY <1>1, <1>2
<1>5. ASSUME NEW s \in Surfaces
      PROVE  /\ refs'[s] = Cardinality(SlotsWith(cache', s)) + Cardinality(HandsWith(held', s))
             /\ refs'[s] \in Nat
  <2> DEFINE X == {h \in hs : held[h] = s}
             A == HandsWith(held, s)
  <2>1. /\ Cardinality(SlotsWith(cache, s)) \in Nat /\ IsFiniteSet(A) /\ Cardinality(A) \in Nat
    BY PlacesCounted
  <2>2. HandsWith(held', s) = A \ X /\ X \subseteq A
    BY <1>1, <1>2 DEF HandsWith
  <2>3. refs[s] = Cardinality(SlotsWith(cache, s)) + Cardinality(A)
    BY <1>1, CountsAre
  <2>4. refs'[s] = refs[s] - Cardinality(X)
    BY <1>2
  <2> HIDE DEF X, A
  <2>5. IsFiniteSet(A \ X) /\ Cardinality(A \ X) = Cardinality(A) - Cardinality(A \intersect X)
    BY <2>1, FS_Difference
  <2>6. A \intersect X = X
    BY <2>2
  <2>7. IsFiniteSet(X) /\ Cardinality(X) \in Nat /\ Cardinality(A \ X) \in Nat
    BY <2>1, <2>2, <2>5, FS_Subset, FS_CardinalityType
  <2>8. refs'[s] = Cardinality(SlotsWith(cache, s)) + Cardinality(A \ X)
    <3> DEFINE a == Cardinality(SlotsWith(cache, s))
               b == Cardinality(A)
               x == Cardinality(X)
               d == Cardinality(A \ X)
    <3>1. a \in Nat /\ b \in Nat /\ x \in Nat /\ d \in Nat /\ d = b - x
          /\ refs[s] = a + b /\ refs'[s] = refs[s] - x
      BY <2>1, <2>3, <2>4, <2>5, <2>6, <2>7
    <3> HIDE DEF a, b, x, d
    <3>2. refs'[s] = a + d
      BY <3>1
    <3> QED BY <3>2 DEF a, d
  <2>9. SlotsWith(cache', s) = SlotsWith(cache, s)
    BY <1>2 DEF SlotsWith
  <2>10. refs'[s] = Cardinality(SlotsWith(cache', s)) + Cardinality(HandsWith(held', s))
    BY <2>2, <2>8, <2>9
  <2> QED BY <2>1, <2>7, <2>8, <2>10
<1>6. refs' \in [Surfaces -> Nat]
  BY <1>2, <1>5
<1>7. EveryReferenceCounted'
  BY <1>5, CountsAreNext
<1> QED BY <1>2, <1>3, <1>4, <1>6, <1>7 DEF Counted

(* The empty cache is sound and nothing is held. *)
LEMMA InitCounts == CacheInit => Counted
<1> SUFFICES ASSUME CacheInit PROVE Counted
  OBVIOUS
<1>1. /\ cache = [slots |-> [i \in Slots |-> Blank], head |-> 0, tail |-> 0]
      /\ refs = [s \in Surfaces |-> 0] /\ held = [h \in Holders |-> 0] /\ answer = NoKey
      /\ 0 \notin Surfaces /\ NoKey \notin Keys
  BY CacheAssumption DEF CacheInit
<1>2. cache \in CacheType /\ Vacant(cache) /\ Used(cache) = {} /\ Cardinality(Used(cache)) = 0
  <2>1. Used(cache) = {} /\ Vacant(cache)
    BY <1>1 DEF Used, Blank, Vacant
  <2> QED BY <1>1, <2>1, FS_EmptySet DEF CacheType, Slot, Blank, Pointers
<1>3. Dock!Inv
  <2>1. /\ KeyAt = [i \in Slots |-> NoKey] /\ NextTo = [i \in Slots |-> 0]
        /\ PrevTo = [i \in Slots |-> 0] /\ SlotOf = [k \in Keys |-> 0]
    BY <1>1, <1>2 DEF KeyAt, NextTo, PrevTo, SlotOf, SlotIn, Blank
  <2>2. Dock!Init
    BY <1>1, <1>2, <2>1 DEF Dock!Init
  <2> QED BY <2>2, DockFits, Dock!InitInv
<1>4. \A s \in Surfaces : SlotsWith(cache, s) = {} /\ HandsWith(held, s) = {}
  BY <1>1 DEF SlotsWith, HandsWith, Blank
<1>5. EveryReferenceCounted
  BY <1>1, <1>4, CountsAre, FS_EmptySet
<1> QED BY <1>1, <1>2, <1>3, <1>5 DEF Counted, Sound

--------------------------------------------------------------------------------
(* The list of applications, its categories and its icons. *)

(* An icon to load, and several, each for a holder of its own. *)
Job == [for : MenuHolders, by : Seq(Names)]
Owed(js) == js \in Seq(Job) /\ \A i, j \in DOMAIN js : js[i].for = js[j].for => i = j

(* No holder is owed an icon in both. *)
Apart(a, b) == \A i \in DOMAIN a, j \in DOMAIN b : a[i].for # b[j].for

(* What comes of putting b after a is in one of them. *)
FromBoth(a, b) == \A k \in DOMAIN (a \o b) : \/ \E i \in DOMAIN a : (a \o b)[k] = a[i]
                                            \/ \E i \in DOMAIN b : (a \o b)[k] = b[i]

(* Putting owed icons after others with other holders leaves all owed. *)
LEMMA ConcatOwed ==
  ASSUME NEW a, NEW b, Owed(a), Owed(b), Apart(a, b)
  PROVE  Owed(a \o b) /\ FromBoth(a, b)
<1>1. a \in Seq(Job) /\ b \in Seq(Job)
  BY DEF Owed
<1>2. /\ a \o b \in Seq(Job) /\ Len(a \o b) = Len(a) + Len(b)
      /\ \A k \in 1..(Len(a) + Len(b)) :
           (a \o b)[k] = IF k <= Len(a) THEN a[k] ELSE b[k - Len(a)]
  BY <1>1, ConcatProperties
<1>3. /\ DOMAIN (a \o b) = 1..(Len(a) + Len(b)) /\ DOMAIN a = 1..Len(a) /\ DOMAIN b = 1..Len(b)
      /\ Len(a) \in Nat /\ Len(b) \in Nat
  BY <1>1, <1>2, LenProperties
<1> DEFINE c == a \o b
           m == Len(a)
           n == Len(b)
<1>4. /\ c \in Seq(Job) /\ DOMAIN c = 1..(m + n) /\ DOMAIN a = 1..m /\ DOMAIN b = 1..n
      /\ m \in Nat /\ n \in Nat
      /\ \A k \in 1..(m + n) : c[k] = IF k <= m THEN a[k] ELSE b[k - m]
  BY <1>2, <1>3
<1>5. /\ \A i, j \in DOMAIN a : a[i].for = a[j].for => i = j
      /\ \A i, j \in DOMAIN b : b[i].for = b[j].for => i = j
  BY DEF Owed
<1> HIDE DEF c, m, n
<1>10. \A i \in DOMAIN a, j \in DOMAIN b : a[i].for # b[j].for
  BY DEF Apart
<1>6. ASSUME NEW k \in 1..(m + n)
      PROVE  \/ k \in 1..m /\ c[k] = a[k]
             \/ k - m \in 1..n /\ k \notin 1..m /\ c[k] = b[k - m]
  BY <1>4
<1>7. ASSUME NEW i \in 1..(m + n), NEW j \in 1..(m + n), c[i].for = c[j].for
      PROVE  i = j
  <2>1. CASE i \in 1..m /\ j \in 1..m
    BY <1>4, <1>5, <1>6, <1>7, <2>1
  <2>2. CASE i \in 1..m /\ j \notin 1..m
    <3>1. i \in DOMAIN a /\ c[i] = a[i] /\ j - m \in DOMAIN b /\ c[j] = b[j - m]
      BY <1>4, <1>6, <2>2
    <3> QED BY <1>7, <1>10, <3>1
  <2>3. CASE i \notin 1..m /\ j \in 1..m
    <3>1. j \in DOMAIN a /\ c[j] = a[j] /\ i - m \in DOMAIN b /\ c[i] = b[i - m]
      BY <1>4, <1>6, <2>3
    <3> QED BY <1>7, <1>10, <3>1
  <2>4. CASE i \notin 1..m /\ j \notin 1..m
    <3>1. i - m = j - m
      <4>1. i - m \in DOMAIN b /\ c[i] = b[i - m]
        BY <1>4, <1>6, <2>4
      <4>2. j - m \in DOMAIN b /\ c[j] = b[j - m]
        BY <1>4, <1>6, <2>4
      <4>3. b[i - m].for = b[j - m].for
        BY <1>7, <4>1, <4>2
      <4> QED BY <1>5, <4>1, <4>2, <4>3
    <3> QED BY <1>4, <3>1
  <2> QED BY <2>1, <2>2, <2>3, <2>4
<1>8. \A k \in DOMAIN c : (\E i \in DOMAIN a : c[k] = a[i]) \/ (\E i \in DOMAIN b : c[k] = b[i])
  BY <1>4, <1>6
<1>9. Owed(c)
  BY <1>4, <1>7 DEF Owed
<1> QED BY <1>8, <1>9 DEF c, FromBoth

(* A scan lists each application that is on once. *)
LEMMA ScanTyped ==
  ASSUME NEW d \in Databases
  PROVE  /\ Scan(d) \in Seq(AppEntry) /\ Len(Scan(d)) <= Cardinality(Entries)
         /\ Cardinality(Entries) \in Nat
<1> DEFINE D == On(d)
           g == [e \in D |-> [of |-> e, label |-> Label[e][d[e].label]]]
           S == {g[e] : e \in D}
<1>1. /\ IsFiniteSet(Entries) /\ Category \in [Entries -> Nat]
      /\ \A e \in Entries : Label[e] \in [{1, 2} -> Nat]
  BY MenuAssumption
<1>2. D \in SUBSET Entries
  BY DEF On
<1>3. IsFiniteSet(D) /\ Cardinality(D) <= Cardinality(Entries)
      /\ Cardinality(Entries) \in Nat /\ Cardinality(D) \in Nat
  BY <1>1, <1>2, FS_Subset, FS_CardinalityType
<1>4. g \in [D -> AppEntry]
  <2>1. \A e \in D : Label[e][d[e].label] \in Nat
    <3> SUFFICES ASSUME NEW e \in D PROVE Label[e][d[e].label] \in Nat
      OBVIOUS
    <3>1. e \in Entries /\ d[e].label \in {1, 2}
      BY <1>2 DEF Databases
    <3> QED BY <1>1, <3>1
  <2> QED BY <1>2, <2>1 DEF AppEntry
<1>5. S \in SUBSET AppEntry
  <2> HIDE DEF g
  <2> QED BY <1>4
<1>6. IsFiniteSet(S) /\ Cardinality(S) \in Nat /\ Cardinality(S) <= Cardinality(D)
  <2> HIDE DEF g, D
  <2> QED BY <1>3, <1>4, ImageIsFinite
<1>7. Orders(AppOrder, S)
  <2> HIDE DEF S
  <2>1. \A a \in AppEntry : Category[a.of] \in Nat /\ a.label \in Nat
    BY <1>1 DEF AppEntry
  <2>2. ASSUME NEW a \in AppEntry, NEW b \in AppEntry
        PROVE  <<a, b>> \in AppOrder <=>
                 \/ Category[a.of] < Category[b.of]
                 \/ Category[a.of] = Category[b.of] /\ a.label <= b.label
    BY DEF AppOrder
  <2>3. ASSUME NEW a \in S, NEW b \in S PROVE <<a, b>> \in AppOrder \/ <<b, a>> \in AppOrder
    <3>1. a \in AppEntry /\ b \in AppEntry
      BY <1>5
    <3>2. /\ Category[a.of] \in Nat /\ a.label \in Nat /\ Category[b.of] \in Nat /\ b.label \in Nat
      BY <2>1, <3>1
    <3> QED BY <2>2, <3>1, <3>2
  <2>4. ASSUME NEW a \in S, NEW b \in S, NEW c \in S, <<a, b>> \in AppOrder, <<b, c>> \in AppOrder
        PROVE  <<a, c>> \in AppOrder
    <3>1. a \in AppEntry /\ b \in AppEntry /\ c \in AppEntry
      BY <1>5
    <3>2. /\ Category[a.of] \in Nat /\ a.label \in Nat /\ Category[b.of] \in Nat /\ b.label \in Nat
          /\ Category[c.of] \in Nat /\ c.label \in Nat
      BY <2>1, <3>1
    <3> QED BY <2>2, <2>4, <3>1, <3>2
  <2> QED BY <2>3, <2>4 DEF Orders
<1>8. Scan(d) = InOrder(S, AppOrder)
  <2>1. S = {[of |-> e, label |-> Label[e][d[e].label]] : e \in On(d)}
    OBVIOUS
  <2> QED BY <2>1 DEF Scan
<1> HIDE DEF S, D
<1>9. InOrder(S, AppOrder) \in [1..Cardinality(S) -> S]
  BY <1>6, <1>7, InOrderSorts
<1> DEFINE n == Cardinality(S)
           f == Scan(d)
<1>10. n \in Nat /\ f \in [1..n -> AppEntry] /\ n <= Cardinality(Entries)
  BY <1>3, <1>5, <1>6, <1>8, <1>9
<1> HIDE DEF n, f
<1>11. f \in Seq(AppEntry) /\ Len(f) = n
  BY <1>10, IsASeq
<1> QED BY <1>3, <1>10, <1>11 DEF f

(* The categories that there are, in a sequence; each has applications. *)
LEMMA CatsTyped ==
  ASSUME NEW s \in Seq(AppEntry), Len(s) <= Cardinality(Entries)
  PROVE  /\ Cats(s) \in Seq({Category[e] : e \in Entries})
         /\ DOMAIN Cats(s) \subseteq 1..Cardinality(Entries)
         /\ \A c \in DOMAIN Cats(s) : \E i \in DOMAIN s : Category[s[i].of] = Cats(s)[c]
<1> DEFINE D == DOMAIN s
           g == [i \in D |-> Category[s[i].of]]
           S == {g[i] : i \in D}
<1>1. /\ IsFiniteSet(Entries) /\ Category \in [Entries -> Nat] /\ Cardinality(Entries) \in Nat
      /\ Len(s) \in Nat /\ D = 1..Len(s)
  BY MenuAssumption, FS_CardinalityType, LenProperties
<1>2. \A i \in D : s[i].of \in Entries /\ Category[s[i].of] \in Nat
  <2> SUFFICES ASSUME NEW i \in D PROVE s[i].of \in Entries /\ Category[s[i].of] \in Nat
    OBVIOUS
  <2>1. s[i] \in AppEntry
    BY <1>1, ElementOfSeq
  <2>2. s[i].of \in Entries
    BY <2>1 DEF AppEntry
  <2> QED BY <1>1, <2>2
<1>3. g \in [D -> {Category[e] : e \in Entries}] /\ S \subseteq Nat
      /\ S \subseteq {Category[e] : e \in Entries}
  BY <1>2
<1>4. IsFiniteSet(D) /\ Cardinality(D) = Len(s)
  <2>1. 1 \in Int /\ Len(s) \in Int
    BY <1>1
  <2>2. IsFiniteSet(1..Len(s)) /\ Cardinality(1..Len(s)) = IF 1 > Len(s) THEN 0 ELSE Len(s) - 1 + 1
    BY <2>1, FS_Interval
  <2> QED BY <1>1, <2>2
<1>5. IsFiniteSet(S) /\ Cardinality(S) \in Nat /\ Cardinality(S) <= Cardinality(D)
  <2> HIDE DEF g, D
  <2> QED BY <1>3, <1>4, ImageIsFinite
<1>6. Cats(s) = Ascending(S)
  <2>1. S = {Category[s[i].of] : i \in DOMAIN s}
    OBVIOUS
  <2> QED BY <2>1 DEF Cats
<1>7. \A x \in S : \E i \in DOMAIN s : Category[s[i].of] = x
  OBVIOUS
<1> DEFINE n == Cardinality(S)
           f == Cats(s)
<1> HIDE DEF S, D
<1>8. n \in Nat /\ f \in [1..n -> S] /\ n <= Cardinality(Entries)
  <2>1. Ascending(S) \in [1..Cardinality(S) -> S]
    BY <1>3, <1>5, AscendingSorts
  <2>2. n <= Cardinality(Entries)
    BY <1>1, <1>4, <1>5
  <2> QED BY <1>5, <1>6, <2>1, <2>2
<1> HIDE DEF n, f
<1>9. f \in Seq({Category[e] : e \in Entries})
  <2> DEFINE T == {Category[e] : e \in Entries}
  <2>1. f \in [1..n -> T] /\ n \in Nat
    BY <1>3, <1>8
  <2> HIDE DEF T
  <2>2. f \in Seq(T)
    BY <2>1, Dock!FunctionIsSeq
  <2> QED BY <2>2 DEF T
<1>10. DOMAIN f \subseteq 1..Cardinality(Entries) /\ \A c \in DOMAIN f : f[c] \in S
  BY <1>1, <1>8
<1> QED BY <1>7, <1>9, <1>10 DEF f

(* The rows of a submenu point into the list, and a category has some. *)
LEMMA RowsTyped ==
  ASSUME NEW s \in Seq(AppEntry), Len(s) <= Cardinality(Entries), NEW c \in DOMAIN Cats(s)
  PROVE  /\ \A k \in DOMAIN Rows(s, c) : Rows(s, c)[k] \in DOMAIN s
         /\ Rows(s, c) # <<>>
<1> DEFINE S == {i \in DOMAIN s : c \in DOMAIN Cats(s) /\ Category[s[i].of] = Cats(s)[c]}
<1>1. Len(s) \in Nat /\ DOMAIN s = 1..Len(s)
  BY LenProperties
<1>2. PICK i \in DOMAIN s : Category[s[i].of] = Cats(s)[c]
  BY CatsTyped
<1>3. S # {} /\ S \in SUBSET (1..Len(s)) /\ S \subseteq Nat
  BY <1>1, <1>2
<1>4. IsFiniteSet(S)
  <2>1. 1 \in Int /\ Len(s) \in Int
    BY <1>1
  <2>2. IsFiniteSet(1..Len(s))
    BY <2>1, FS_Interval
  <2> HIDE DEF S
  <2> QED BY <1>3, <2>2, FS_Subset
<1>5. Rows(s, c) = Ascending(S)
  BY DEF Rows
<1> DEFINE n == Cardinality(S)
           f == Rows(s, c)
<1> HIDE DEF S
<1>6. n \in Nat /\ f \in [1..n -> S] /\ n # 0
  <2>1. /\ Cardinality(S) \in Nat /\ Ascending(S) \in [1..Cardinality(S) -> S]
    BY <1>3, <1>4, AscendingSorts
  <2>2. Cardinality(S) # 0
    BY <1>3, <1>4, FS_EmptySet
  <2> QED BY <1>5, <2>1, <2>2
<1> HIDE DEF n, f
<1>7. f # <<>>
  <2>1. DOMAIN f = 1..n /\ 1 \in 1..n
    BY <1>6
  <2>2. DOMAIN f # DOMAIN <<>>
    BY <2>1
  <2> QED BY <2>2
<1> QED BY <1>1, <1>3, <1>6, <1>7 DEF f

(* The names tried are names. *)
LEMMA TriesTyped == \A n \in Names \union {None} : Tries(n) \in Seq(Names)
<1> SUFFICES ASSUME NEW n \in Names \union {None} PROVE Tries(n) \in Seq(Names)
  OBVIOUS
<1>1. CASE n = None
  BY <1>1, EmptySeq DEF Tries
<1>2. CASE n # None /\ (n \in Paths \/ n \notin DOMAIN Symbolic)
  <2>1. Tries(n) = <<n>> /\ n \in Names
    BY <1>2 DEF Tries
  <2> QED BY <2>1
<1>3. CASE n # None /\ ~(n \in Paths \/ n \notin DOMAIN Symbolic)
  <2>1. Tries(n) = <<Symbolic[n], n>> /\ n \in Names /\ Symbolic[n] \in Names
    BY <1>3, MenuAssumption DEF Tries
  <2> QED BY <2>1
<1> QED BY <1>1, <1>2, <1>3

(* No icon is owed twice by a menu that is being built. *)
LEMMA WantedOwed ==
  ASSUME NEW s \in Seq(AppEntry), Len(s) <= Cardinality(Entries)
  PROVE  Owed(Wanted(s))
<1> DEFINE of == {i \in DOMAIN s : Icon[s[i].of] # None}
           at == Ascending(of)
           n == Cardinality(of)
           a == [k \in 1..n |-> [for |-> App(at[k]), by |-> Tries(Icon[s[at[k]].of]) \o Tries(Generic)]]
           t == [i \in DOMAIN Tools |-> [for |-> Tool(i), by |-> Tries(Tools[i]) \o Tries(Launcher)]]
           c == [i \in DOMAIN Cats(s) |-> [for |-> Cat(i), by |-> CatIcons[Cats(s)[i]]]]
<1>1. Wanted(s) = (a \o t) \o c
  BY DEF Wanted
<1>2. /\ Cardinality(Entries) \in Nat /\ Len(s) \in Nat /\ DOMAIN s = 1..Len(s)
      /\ \A i \in 1..Cardinality(Entries) : App(i) \in MenuHolders /\ Cat(i) \in MenuHolders
      /\ \A i \in DOMAIN Tools : Tool(i) \in MenuHolders
  BY MenuAssumption, FS_CardinalityType, LenProperties DEF MenuHolders, App, Cat, Tool, Task
<1>3. Owed(a)
  <2>1. of \in SUBSET (1..Len(s)) /\ of \subseteq Nat
    BY <1>2
  <2>2. IsFiniteSet(of)
    <3>1. 1 \in Int /\ Len(s) \in Int
      BY <1>2
    <3>2. IsFiniteSet(1..Len(s))
      BY <3>1, FS_Interval
    <3> HIDE DEF of
    <3> QED BY <2>1, <3>2, FS_Subset
  <2> HIDE DEF of
  <2>3. /\ n \in Nat /\ at \in [1..n -> of] /\ \A i, j \in 1..n : i # j => at[i] # at[j]
    BY <2>1, <2>2, AscendingSorts
  <2> HIDE DEF n, at
  <2>4. ASSUME NEW k \in 1..n
        PROVE  /\ App(at[k]) \in MenuHolders
               /\ Tries(Icon[s[at[k]].of]) \o Tries(Generic) \in Seq(Names)
    <3>1. at[k] \in 1..Len(s) /\ at[k] \in 1..Cardinality(Entries)
      <4>1. at[k] \in of
        BY <2>3
      <4> DEFINE x == at[k]
      <4> HIDE DEF x
      <4>2. x \in 1..Len(s)
        BY <2>1, <4>1 DEF x
      <4>3. x \in 1..Cardinality(Entries)
        BY <1>2, <4>2
      <4> QED BY <4>2, <4>3 DEF x
    <3>2. s[at[k]].of \in Entries
      <4>1. s[at[k]] \in AppEntry
        BY <3>1, ElementOfSeq
      <4> QED BY <4>1 DEF AppEntry
    <3>3. Icon[s[at[k]].of] \in Names \union {None} /\ Generic \in Names \union {None}
      BY <3>2, MenuAssumption
    <3>4. Tries(Icon[s[at[k]].of]) \in Seq(Names) /\ Tries(Generic) \in Seq(Names)
      BY <3>3, TriesTyped
    <3> QED BY <1>2, <3>1, <3>4, ConcatProperties
  <2>5. a \in [1..n -> Job]
    BY <2>4 DEF Job
  <2>6. \A k \in 1..n : a[k].for = App(at[k])
    OBVIOUS
  <2> HIDE DEF a
  <2>7. a \in Seq(Job) /\ DOMAIN a = 1..n
    BY <2>3, <2>5, Dock!FunctionIsSeq
  <2>8. \A i, j \in 1..n : a[i].for = a[j].for => i = j
    <3>1. \A i, j \in 1..n : App(at[i]) = App(at[j]) => at[i] = at[j]
      BY DEF App
    <3> QED BY <2>3, <2>6, <3>1
  <2> QED BY <2>7, <2>8 DEF Owed
<1>4. Owed(t)
  <2>1. Tools \in Seq(Names) /\ Len(Tools) \in Nat /\ DOMAIN Tools = 1..Len(Tools)
    BY MenuAssumption, LenProperties
  <2>2. ASSUME NEW i \in DOMAIN Tools
        PROVE  Tool(i) \in MenuHolders /\ Tries(Tools[i]) \o Tries(Launcher) \in Seq(Names)
    <3>1. Tools[i] \in Names /\ Launcher \in Names
      BY <2>1, ElementOfSeq, MenuAssumption
    <3>2. Tries(Tools[i]) \in Seq(Names) /\ Tries(Launcher) \in Seq(Names)
      BY <3>1, TriesTyped
    <3> QED BY <1>2, <3>2, ConcatProperties
  <2>3. t \in [1..Len(Tools) -> Job]
    BY <2>1, <2>2 DEF Job
  <2>4. \A k \in DOMAIN Tools : t[k].for = Tool(k)
    OBVIOUS
  <2> HIDE DEF t
  <2>5. t \in Seq(Job) /\ DOMAIN t = DOMAIN Tools
    BY <2>1, <2>3, Dock!FunctionIsSeq
  <2> QED BY <2>4, <2>5 DEF Owed, Tool
<1>5. Owed(c)
  <2> DEFINE w == Cats(s)
  <2>1. w \in Seq({Category[e] : e \in Entries}) /\ DOMAIN w \subseteq 1..Cardinality(Entries)
    BY CatsTyped
  <2> HIDE DEF w
  <2>2. Len(w) \in Nat /\ DOMAIN w = 1..Len(w)
    BY <2>1, LenProperties
  <2>3. ASSUME NEW i \in DOMAIN w
        PROVE  Cat(i) \in MenuHolders /\ CatIcons[w[i]] \in Seq(Names)
    <3>1. w[i] \in {Category[e] : e \in Entries}
      BY <2>1, <2>2, ElementOfSeq
    <3> QED BY <1>2, <2>1, <3>1, MenuAssumption
  <2>4. c = [i \in DOMAIN w |-> [for |-> Cat(i), by |-> CatIcons[w[i]]]]
    BY DEF w
  <2> HIDE DEF c
  <2>5. c \in [1..Len(w) -> Job]
    BY <2>2, <2>3, <2>4 DEF Job
  <2>6. \A k \in DOMAIN w : c[k].for = Cat(k)
    BY <2>4
  <2>7. c \in Seq(Job) /\ DOMAIN c = DOMAIN w
    BY <2>2, <2>5, Dock!FunctionIsSeq
  <2> QED BY <2>6, <2>7 DEF Owed, Cat
<1>6. /\ \A k \in DOMAIN a : \E i : a[k].for = App(i)
      /\ \A k \in DOMAIN t : \E i : t[k].for = Tool(i)
      /\ \A k \in DOMAIN c : \E i : c[k].for = Cat(i)
  OBVIOUS
<1>7. \A i, j : App(i) # Tool(j) /\ App(i) # Cat(j) /\ Tool(i) # Cat(j)
  BY DEF App, Tool, Cat
<1> HIDE DEF a, t, c
<1>8. Owed(a \o t) /\ FromBoth(a, t)
  <2>1. Apart(a, t)
    <3> SUFFICES ASSUME NEW i \in DOMAIN a, NEW j \in DOMAIN t PROVE a[i].for # t[j].for
      BY DEF Apart
    <3> QED BY <1>6, <1>7
  <2> QED BY <1>3, <1>4, <2>1, ConcatOwed
<1> DEFINE b == a \o t
<1>9. Apart(b, c)
  <2> SUFFICES ASSUME NEW k \in DOMAIN b, NEW j \in DOMAIN c PROVE b[k].for # c[j].for
    BY DEF Apart
  <2>1. PICK x : c[j].for = Cat(x)
    BY <1>6
  <2>2. (\E i \in DOMAIN a : b[k] = a[i]) \/ (\E i \in DOMAIN t : b[k] = t[i])
    BY <1>8 DEF FromBoth
  <2>3. \E y : b[k].for = App(y) \/ b[k].for = Tool(y)
    BY <1>6, <2>2
  <2> QED BY <1>7, <2>1, <2>3
<1>10. Owed(b)
  BY <1>8
<1> HIDE DEF b
<1>11. Owed(b \o c)
  BY <1>5, <1>9, <1>10, ConcatOwed
<1> QED BY <1>1, <1>11 DEF b

(* When an icon is loaded the others are still owed. *)
LEMMA TailOwed ==
  ASSUME NEW js, Owed(js), js # <<>>
  PROVE  /\ Head(js) = js[1] /\ 1 \in DOMAIN js /\ Head(js) \in Job /\ Owed(Tail(js))
         /\ \A i \in DOMAIN Tail(js) : /\ i + 1 \in DOMAIN js /\ Tail(js)[i] = js[i + 1]
                                       /\ Tail(js)[i].for # Head(js).for
<1>1. js \in Seq(Job) /\ \A i, j \in DOMAIN js : js[i].for = js[j].for => i = j
  BY DEF Owed
<1> DEFINE t == Tail(js)
           n == Len(js)
<1>2. /\ t \in Seq(Job) /\ Len(t) = n - 1 /\ n \in Nat /\ n # 0 /\ Head(js) \in Job /\ Head(js) = js[1]
      /\ \A i \in 1..Len(t) : t[i] = js[i + 1]
  <2>1. Len(js) \in Nat \ {0}
    BY <1>1, EmptySeq
  <2>2. /\ Head(js) \in Job /\ Tail(js) \in Seq(Job) /\ Len(Tail(js)) = Len(js) - 1
        /\ \A i \in 1..Len(Tail(js)) : Tail(js)[i] = js[i + 1]
    BY <1>1, HeadTailProperties
  <2>3. Head(js) = js[1]
    BY <1>1, <2>1
  <2> QED BY <2>1, <2>2, <2>3
<1>3. DOMAIN t = 1..(n - 1) /\ DOMAIN js = 1..n
  <2>1. DOMAIN js = 1..n
    BY <1>1, LenProperties
  <2>2. DOMAIN t = 1..Len(t)
    BY <1>2, LenProperties
  <2> QED BY <1>2, <2>1, <2>2
<1> HIDE DEF t, n
<1>4. \A i \in DOMAIN t : i + 1 \in DOMAIN js /\ i + 1 # 1 /\ t[i] = js[i + 1]
  BY <1>2, <1>3
<1>5. 1 \in DOMAIN js
  BY <1>2, <1>3
<1>6. \A i, j \in DOMAIN t : t[i].for = t[j].for => i = j
  <2> SUFFICES ASSUME NEW i \in DOMAIN t, NEW j \in DOMAIN t, t[i].for = t[j].for PROVE i = j
    OBVIOUS
  <2>1. i + 1 = j + 1
    BY <1>1, <1>4
  <2> QED BY <1>2, <1>3, <2>1
<1> QED BY <1>1, <1>2, <1>4, <1>5, <1>6 DEF Owed, t

--------------------------------------------------------------------------------
(* The menu. *)

MenuTyped ==
  /\ db \in Databases /\ read \in Databases \union {None}
  /\ now \in 0..MaxNow /\ edits \in 0..MaxEdits
  /\ up \in BOOLEAN /\ sub \in BOOLEAN /\ active \in 1..Cardinality(Entries)
  /\ apps \in Seq(AppEntry) /\ Len(apps) <= Cardinality(Entries)
  /\ \A i \in DOMAIN items : items[i] \in DOMAIN apps
  /\ pc \in {"rest", "scan", "stamp", "load"} /\ raced \in BOOLEAN

(* Who is owed an icon has none, and nothing is owed at rest. *)
JobsOwed == /\ Owed(jobs) /\ \A i \in DOMAIN jobs : held[jobs[i].for] = 0
            /\ pc \in {"rest", "scan"} => jobs = <<>>

(* The menu has no icons when it begins to build. *)
HandsFree == (pc = "rest" /\ ~up) \/ pc \in {"scan", "stamp"} =>
               \A h \in MenuHolders : held[h] = 0

(* It has no submenu until it is up. *)
NoRows == pc # "rest" \/ ~up => ~sub /\ items = <<>>

OnACategory == sub => active \in DOMAIN Cats(apps)

Inv == /\ Counted /\ MenuTyped /\ JobsOwed /\ HandsFree /\ NoRows /\ OnACategory
       /\ SubmenuCurrent

(* A step that does not touch the icons keeps them counted. *)
LEMMA CountedKept == Counted /\ UNCHANGED icons => Counted'
<1> SUFFICES ASSUME Counted, UNCHANGED icons PROVE Counted'
  OBVIOUS
<1>1. cache' = cache /\ refs' = refs /\ held' = held /\ answer' = answer
  BY DEF icons
<1>2. Sound'
  BY <1>1, UnchangedSound DEF Counted, Sound
<1> QED BY <1>1, <1>2 DEF Counted, EveryReferenceCounted

(* The panel starts in the invariant. *)
LEMMA InitMenu == Init => Inv
<1> SUFFICES ASSUME Init PROVE Inv
  OBVIOUS
<1>1. Counted
  BY InitCounts DEF Init
<1>2. Cardinality(Entries) \in Nat \ {0} /\ MaxNow \in Nat /\ MaxEdits \in Nat
  <2>1. Cardinality(Entries) # 0
    BY MenuAssumption, FS_EmptySet
  <2> QED BY <2>1, MenuAssumption, FS_CardinalityType
<1>3. db \in Databases
  BY <1>2 DEF Init, Databases
<1>4. MenuTyped
  <2>1. apps \in Seq(AppEntry) /\ Len(apps) = 0
    BY EmptySeq DEF Init
  <2>2. items = <<>> /\ DOMAIN items = {}
    BY EmptySeq DEF Init
  <2>3. /\ read \in Databases \union {None} /\ now \in 0..MaxNow /\ edits \in 0..MaxEdits
        /\ up \in BOOLEAN /\ sub \in BOOLEAN /\ active \in 1..Cardinality(Entries)
        /\ pc \in {"rest", "scan", "stamp", "load"} /\ raced \in BOOLEAN
    <3> DEFINE N == Cardinality(Entries)
    <3> HIDE DEF N
    <3>1. 1 \in 1..N /\ 0 \in 0..MaxNow /\ 0 \in 0..MaxEdits
      BY <1>2 DEF N
    <3> QED BY <3>1 DEF N, Init
  <2> QED BY <1>2, <1>3, <2>1, <2>2, <2>3 DEF MenuTyped
<1>5. JobsOwed
  <2>1. jobs = <<>> /\ jobs \in Seq(Job) /\ DOMAIN jobs = {}
    BY EmptySeq DEF Init
  <2> QED BY <2>1 DEF JobsOwed, Owed
<1>6. HandsFree
  BY DEF HandsFree, Init, CacheInit, MenuHolders
<1> QED BY <1>1, <1>4, <1>5, <1>6 DEF Inv, Init, NoRows, OnACategory, SubmenuCurrent

(* An edit or a tick of the clock leaves the menu as it is. *)
LEMMA EditInv == Inv /\ (\E e \in Entries : Edit(e)) => Inv'
<1> SUFFICES ASSUME Inv, NEW e \in Entries, Edit(e) PROVE Inv'
  OBVIOUS
<1>1. /\ UNCHANGED icons /\ UNCHANGED menu /\ read' = read /\ pc' = pc /\ jobs' = jobs /\ now' = now
      /\ edits' = edits + 1 /\ edits < MaxEdits /\ raced' \in BOOLEAN
  BY DEF Edit
<1>2. db' \in Databases
  <2>1. PICK s \in {"on", "off", "gone"}, l \in {1, 2} :
           db' = [db EXCEPT ![e] = [status |-> s, label |-> l, at |-> now]]
    BY DEF Edit
  <2>2. db \in Databases /\ now \in 0..MaxNow
    BY DEF Inv, MenuTyped
  <2> QED BY <2>1, <2>2 DEF Databases
<1>3. Counted'
  BY <1>1, CountedKept DEF Inv
<1>4. edits' \in 0..MaxEdits
  BY <1>1, MenuAssumption DEF Inv, MenuTyped
<1>5. UNCHANGED <<up, apps, active, sub, items, catPic, subPic>> /\ held' = held
  BY <1>1 DEF menu, icons
<1>6. MenuTyped'
  BY <1>1, <1>2, <1>4, <1>5 DEF Inv, MenuTyped
<1> QED BY <1>1, <1>3, <1>5, <1>6 DEF Inv, JobsOwed, HandsFree, NoRows, OnACategory, SubmenuCurrent

LEMMA SecondInv == Inv /\ Second => Inv'
<1> SUFFICES ASSUME Inv, Second PROVE Inv'
  OBVIOUS
<1>1. /\ UNCHANGED icons /\ UNCHANGED <<up, apps, active, sub, items, catPic, subPic>> /\ held' = held
      /\ UNCHANGED <<db, edits, read, raced, pc, jobs>> /\ now' = now + 1 /\ now < MaxNow
  BY DEF Second, menu, icons
<1>2. Counted'
  BY <1>1, CountedKept DEF Inv
<1>3. now' \in 0..MaxNow
  BY <1>1, MenuAssumption DEF Inv, MenuTyped
<1>4. MenuTyped'
  BY <1>1, <1>3 DEF Inv, MenuTyped
<1> QED BY <1>1, <1>2, <1>4 DEF Inv, JobsOwed, HandsFree, NoRows, OnACategory, SubmenuCurrent

(* Freeing the list takes all icons and rows of the menu away. *)
LEMMA FreedFrees ==
  ASSUME Inv, Freed
  PROVE  /\ Counted' /\ \A h \in MenuHolders : held'[h] = 0
         /\ apps' = <<>> /\ items' = <<>> /\ active' = 1
         /\ apps' \in Seq(AppEntry) /\ Len(apps') = 0
         /\ active' \in 1..Cardinality(Entries) /\ DOMAIN items' = {}
<1>1. Release(MenuHolders) /\ apps' = <<>> /\ items' = <<>> /\ active' = 1
  BY DEF Freed
<1>2. Counted' /\ \A h \in Holders : held'[h] = IF h \in MenuHolders THEN 0 ELSE held[h]
  <2>1. MenuHolders \in SUBSET Holders
    BY DEF MenuHolders
  <2> QED BY <1>1, <2>1, ReleaseCounts DEF Inv
<1>3. Cardinality(Entries) \in Nat \ {0}
  BY MenuAssumption, FS_CardinalityType, FS_EmptySet
<1>4. apps' \in Seq(AppEntry) /\ Len(apps') = 0
  BY <1>1, EmptySeq
<1>5. \A h \in MenuHolders : h \in Holders
  BY DEF MenuHolders
<1>6. DOMAIN items' = {}
  BY <1>1
<1>7. 1 \in 1..Cardinality(Entries)
  BY <1>3
<1> QED BY <1>1, <1>2, <1>4, <1>5, <1>6, <1>7

(* Closing the menu keeps the invariant. *)
LEMMA CloseInv == Inv /\ Close => Inv'
<1> SUFFICES ASSUME Inv, Close PROVE Inv'
  OBVIOUS
<1>1. /\ pc = "rest" /\ Freed /\ up' = FALSE /\ sub' = FALSE /\ read' = None /\ raced' = FALSE
      /\ UNCHANGED <<db, now, edits, pc, jobs>>
  BY DEF Close, base
<1>2. /\ Counted' /\ \A h \in MenuHolders : held'[h] = 0
      /\ apps' = <<>> /\ items' = <<>> /\ active' = 1
      /\ apps' \in Seq(AppEntry) /\ Len(apps') = 0
      /\ active' \in 1..Cardinality(Entries) /\ DOMAIN items' = {}
  BY <1>1, FreedFrees
<1>3. MenuTyped'
  <2>1. Cardinality(Entries) \in Nat
    BY MenuAssumption, FS_CardinalityType
  <2>2. Len(apps') <= Cardinality(Entries) /\ db' \in Databases /\ read' \in Databases \union {None}
    BY <1>1, <1>2, <2>1 DEF Inv, MenuTyped
  <2>3. \A i \in DOMAIN items' : items'[i] \in DOMAIN apps'
    BY <1>2
  <2>4. pc' \in {"rest", "scan", "stamp", "load"} /\ raced' \in BOOLEAN
        /\ up' \in BOOLEAN /\ sub' \in BOOLEAN /\ now' \in 0..MaxNow /\ edits' \in 0..MaxEdits
    BY <1>1 DEF Inv, MenuTyped
  <2> QED BY <1>2, <2>2, <2>3, <2>4 DEF MenuTyped
<1>4. JobsOwed'
  BY <1>1 DEF Inv, JobsOwed
<1> QED BY <1>1, <1>2, <1>3, <1>4 DEF Inv, HandsFree, NoRows, OnACategory, SubmenuCurrent

(* So does a poll that finds another stamp and frees the list. *)
LEMMA PollInv == Inv /\ Poll => Inv'
<1> SUFFICES ASSUME Inv, Poll PROVE Inv'
  OBVIOUS
<1>1. /\ pc = "rest" /\ Freed /\ sub' = FALSE /\ read' = db /\ raced' = FALSE /\ pc' = "scan"
      /\ UNCHANGED <<db, now, edits, up, jobs>>
  BY DEF Poll, base
<1>2. /\ Counted' /\ \A h \in MenuHolders : held'[h] = 0
      /\ apps' = <<>> /\ items' = <<>> /\ active' = 1
      /\ apps' \in Seq(AppEntry) /\ Len(apps') = 0
      /\ active' \in 1..Cardinality(Entries) /\ DOMAIN items' = {}
  BY <1>1, FreedFrees
<1>3. MenuTyped'
  <2>1. Cardinality(Entries) \in Nat
    BY MenuAssumption, FS_CardinalityType
  <2>2. Len(apps') <= Cardinality(Entries) /\ db' \in Databases /\ read' \in Databases \union {None}
    BY <1>1, <1>2, <2>1 DEF Inv, MenuTyped
  <2>3. \A i \in DOMAIN items' : items'[i] \in DOMAIN apps'
    BY <1>2
  <2>4. pc' \in {"rest", "scan", "stamp", "load"} /\ raced' \in BOOLEAN
        /\ up' \in BOOLEAN /\ sub' \in BOOLEAN /\ now' \in 0..MaxNow /\ edits' \in 0..MaxEdits
    BY <1>1 DEF Inv, MenuTyped
  <2> QED BY <1>2, <2>2, <2>3, <2>4 DEF MenuTyped
<1>4. JobsOwed'
  BY <1>1 DEF Inv, JobsOwed
<1> QED BY <1>1, <1>2, <1>3, <1>4 DEF Inv, HandsFree, NoRows, OnACategory, SubmenuCurrent

(* A scan of the database owes each holder at most one icon. *)
LEMMA ScansOwe ==
  ASSUME Inv, Scans
  PROVE  /\ apps' \in Seq(AppEntry) /\ Len(apps') <= Cardinality(Entries)
         /\ Owed(jobs') /\ \A i \in DOMAIN jobs' : jobs'[i].for \in MenuHolders
<1>1. apps' = Scan(db) /\ jobs' = Wanted(Scan(db)) /\ db \in Databases
  BY DEF Scans, Inv, MenuTyped
<1>2. Scan(db) \in Seq(AppEntry) /\ Len(Scan(db)) <= Cardinality(Entries)
  BY <1>1, ScanTyped
<1>3. Owed(Wanted(Scan(db)))
  BY <1>2, WantedOwed
<1>4. \A js : Owed(js) => \A i \in DOMAIN js : js[i].for \in MenuHolders
  <2> SUFFICES ASSUME NEW js, Owed(js), NEW i \in DOMAIN js PROVE js[i].for \in MenuHolders
    OBVIOUS
  <2>1. js \in Seq(Job) /\ DOMAIN js = 1..Len(js)
    BY LenProperties DEF Owed
  <2>2. js[i] \in Job
    BY <2>1, ElementOfSeq
  <2> QED BY <2>2 DEF Job
<1> QED BY <1>1, <1>2, <1>3, <1>4

(* So does the scan of an opening, which finds the menu without icons. *)
LEMMA OpenInv == Inv /\ Open => Inv'
<1> SUFFICES ASSUME Inv, Open PROVE Inv'
  OBVIOUS
<1>1. /\ pc = "rest" /\ ~up /\ Scans /\ pc' = "stamp" /\ UNCHANGED icons /\ held' = held
      /\ UNCHANGED <<db, now, edits, up, active, sub, items, catPic, subPic, read, raced>>
  BY DEF Open, base, icons
<1>2. /\ apps' \in Seq(AppEntry) /\ Len(apps') <= Cardinality(Entries)
      /\ Owed(jobs') /\ \A i \in DOMAIN jobs' : jobs'[i].for \in MenuHolders
  BY <1>1, ScansOwe
<1>3. Counted'
  BY <1>1, CountedKept DEF Inv
<1>4. items = <<>> /\ ~sub /\ \A h \in MenuHolders : held[h] = 0
  BY <1>1 DEF Inv, NoRows, HandsFree
<1>5. MenuTyped'
  BY <1>1, <1>2, <1>4 DEF Inv, MenuTyped
<1>6. JobsOwed' /\ HandsFree'
  BY <1>1, <1>2, <1>4 DEF JobsOwed, HandsFree
<1> QED BY <1>1, <1>3, <1>4, <1>5, <1>6 DEF Inv, NoRows, OnACategory, SubmenuCurrent

(* So does the scan after a poll. *)
LEMMA PollScanInv == Inv /\ PollScan => Inv'
<1> SUFFICES ASSUME Inv, PollScan PROVE Inv'
  OBVIOUS
<1>1. /\ pc = "scan" /\ Scans /\ pc' = "load" /\ UNCHANGED icons /\ held' = held
      /\ UNCHANGED <<db, now, edits, up, active, sub, items, catPic, subPic, read, raced>>
  BY DEF PollScan, base, icons
<1>2. /\ apps' \in Seq(AppEntry) /\ Len(apps') <= Cardinality(Entries)
      /\ Owed(jobs') /\ \A i \in DOMAIN jobs' : jobs'[i].for \in MenuHolders
  BY <1>1, ScansOwe
<1>3. Counted'
  BY <1>1, CountedKept DEF Inv
<1>4. items = <<>> /\ ~sub /\ \A h \in MenuHolders : held[h] = 0
  BY <1>1 DEF Inv, NoRows, HandsFree
<1>5. MenuTyped'
  BY <1>1, <1>2, <1>4 DEF Inv, MenuTyped
<1>6. JobsOwed' /\ HandsFree'
  BY <1>1, <1>2, <1>4 DEF JobsOwed, HandsFree
<1> QED BY <1>1, <1>3, <1>4, <1>5, <1>6 DEF Inv, NoRows, OnACategory, SubmenuCurrent

(* So does reading the stamp of an opening. *)
LEMMA OpenStampInv == Inv /\ OpenStamp => Inv'
<1> SUFFICES ASSUME Inv, OpenStamp PROVE Inv'
  OBVIOUS
<1>1. /\ pc = "stamp" /\ read' = db /\ pc' = "load" /\ UNCHANGED icons /\ held' = held
      /\ UNCHANGED <<db, now, edits, up, apps, active, sub, items, catPic, subPic, raced, jobs>>
  BY DEF OpenStamp, base, menu, icons
<1>2. Counted'
  BY <1>1, CountedKept DEF Inv
<1>3. MenuTyped'
  BY <1>1 DEF Inv, MenuTyped
<1> QED BY <1>1, <1>2, <1>3 DEF Inv, JobsOwed, HandsFree, NoRows, OnACategory, SubmenuCurrent

(* So does showing the menu when all icons are loaded. *)
LEMMA ShownInv == Inv /\ Shown => Inv'
<1> SUFFICES ASSUME Inv, Shown PROVE Inv'
  OBVIOUS
<1>1. /\ pc = "load" /\ jobs = <<>> /\ pc' = "rest" /\ up' = TRUE /\ catPic' = CatRows(apps)
      /\ UNCHANGED icons /\ held' = held
      /\ UNCHANGED <<db, now, edits, apps, active, sub, items, subPic, read, raced, jobs>>
  BY DEF Shown, base, icons
<1>2. Counted'
  BY <1>1, CountedKept DEF Inv
<1>3. MenuTyped'
  BY <1>1 DEF Inv, MenuTyped
<1> QED BY <1>1, <1>2, <1>3 DEF Inv, JobsOwed, HandsFree, NoRows, OnACategory, SubmenuCurrent

(* The holder that is owed the next icon gets it, and no other holder loses one. *)
LEMMA LoadOneInv == Inv /\ LoadOne => Inv'
<1> SUFFICES ASSUME Inv, LoadOne PROVE Inv'
  OBVIOUS
<1> DEFINE h == Head(jobs).for
<1>1. /\ pc = "load" /\ jobs # <<>> /\ jobs' = Tail(jobs) /\ Take(h, Head(jobs).by)
      /\ UNCHANGED <<db, now, edits, up, apps, active, sub, items, catPic, subPic, read, raced, pc>>
  BY DEF LoadOne, base, menu
<1>2. /\ Owed(jobs) /\ \A i \in DOMAIN jobs : held[jobs[i].for] = 0
  BY DEF Inv, JobsOwed
<1>3. /\ Head(jobs) = jobs[1] /\ 1 \in DOMAIN jobs /\ Head(jobs) \in Job /\ Owed(Tail(jobs))
      /\ \A i \in DOMAIN Tail(jobs) : /\ i + 1 \in DOMAIN jobs /\ Tail(jobs)[i] = jobs[i + 1]
                                      /\ Tail(jobs)[i].for # Head(jobs).for
  BY <1>1, <1>2, TailOwed
<1>4. h \in Holders /\ held[h] = 0
  BY <1>2, <1>3 DEF Job, MenuHolders
<1>5. Counted' /\ \A g \in Holders \ {h} : held'[g] = held[g]
  <2> DEFINE x == h
             b == Head(jobs).by
  <2>1. x \in Holders /\ held[x] = 0 /\ Take(x, b)
    BY <1>1, <1>4
  <2> HIDE DEF x, b
  <2>2. Counted' /\ \A g \in Holders \ {x} : held'[g] = held[g]
    BY <2>1, TakeCounts DEF Inv
  <2> QED BY <2>2 DEF x
<1>6. ASSUME NEW i \in DOMAIN jobs' PROVE held'[jobs'[i].for] = 0
  <2>1. /\ i + 1 \in DOMAIN jobs /\ jobs'[i] = jobs[i + 1] /\ jobs'[i].for # h
    BY <1>1, <1>3
  <2>2. jobs[i + 1].for \in Holders
    <3>1. jobs \in Seq(Job) /\ DOMAIN jobs = 1..Len(jobs)
      BY <1>2, LenProperties DEF Owed
    <3>2. jobs[i + 1] \in Job
      BY <2>1, <3>1, ElementOfSeq
    <3> QED BY <3>2 DEF Job, MenuHolders
  <2> QED BY <1>2, <1>5, <2>1, <2>2
<1>7. JobsOwed'
  BY <1>1, <1>3, <1>6 DEF JobsOwed
<1>8. MenuTyped'
  BY <1>1 DEF Inv, MenuTyped
<1> QED BY <1>1, <1>5, <1>7, <1>8 DEF Inv, HandsFree, NoRows, OnACategory, SubmenuCurrent

(* The rows of a category are built whole. *)
LEMMA SubForBuilds ==
  ASSUME Inv, NEW c \in DOMAIN Cats(apps), SubFor(c), apps' = apps
  PROVE  /\ \A k \in DOMAIN items' : items'[k] \in DOMAIN apps'
         /\ active' = c /\ items' = Rows(apps', active') /\ items' # <<>>
         /\ subPic' = [k \in DOMAIN items' |-> apps'[items'[k]]]
         /\ active' \in 1..Cardinality(Entries) /\ active' \in DOMAIN Cats(apps')
<1>1. /\ active' = c /\ items' = Rows(apps, c)
      /\ subPic' = [k \in DOMAIN Rows(apps, c) |-> apps[Rows(apps, c)[k]]]
  BY DEF SubFor
<1>2. apps \in Seq(AppEntry) /\ Len(apps) <= Cardinality(Entries)
  BY DEF Inv, MenuTyped
<1>3. /\ \A k \in DOMAIN Rows(apps, c) : Rows(apps, c)[k] \in DOMAIN apps
      /\ Rows(apps, c) # <<>>
  BY <1>2, RowsTyped
<1>4. c \in 1..Cardinality(Entries)
  BY <1>2, CatsTyped
<1> QED BY <1>1, <1>3, <1>4

(* So does a press on a category. *)
LEMMA PressCategoryInv == ASSUME NEW c PROVE Inv /\ PressCategory(c) => Inv'
<1> SUFFICES ASSUME Inv, PressCategory(c) PROVE Inv'
  OBVIOUS
<1>1. /\ pc = "rest" /\ up /\ UNCHANGED icons /\ held' = held /\ c \in DOMAIN Cats(apps)
      /\ UNCHANGED <<db, now, edits, read, raced, pc, jobs, up, apps, catPic>>
  BY DEF PressCategory, AtRest, base, icons
<1>2. Counted'
  BY <1>1, CountedKept DEF Inv
<1>3. JobsOwed' /\ HandsFree' /\ NoRows'
  BY <1>1 DEF Inv, JobsOwed, HandsFree, NoRows
<1>4. CASE sub /\ active = c
  <2>1. sub' = FALSE /\ UNCHANGED <<active, items>>
    BY <1>4 DEF PressCategory
  <2>2. MenuTyped'
    BY <1>1, <2>1 DEF Inv, MenuTyped
  <2> QED BY <1>1, <1>2, <1>3, <2>1, <2>2 DEF Inv, OnACategory, SubmenuCurrent
<1>5. CASE ~(sub /\ active = c)
  <2>1. sub' = TRUE /\ SubFor(c)
    BY <1>5 DEF PressCategory
  <2>2. /\ \A k \in DOMAIN items' : items'[k] \in DOMAIN apps'
        /\ active' = c /\ items' = Rows(apps', active') /\ items' # <<>>
        /\ subPic' = [k \in DOMAIN items' |-> apps'[items'[k]]]
        /\ active' \in 1..Cardinality(Entries) /\ active' \in DOMAIN Cats(apps')
    BY <1>1, <2>1, SubForBuilds
  <2>3. MenuTyped'
    BY <1>1, <2>1, <2>2 DEF Inv, MenuTyped
  <2> QED BY <1>1, <1>2, <1>3, <2>1, <2>2, <2>3 DEF Inv, OnACategory, SubmenuCurrent
<1> QED BY <1>4, <1>5

(* So does pointing at another category. *)
LEMMA PointAtInv == ASSUME NEW c PROVE Inv /\ PointAt(c) => Inv'
<1> SUFFICES ASSUME Inv, PointAt(c) PROVE Inv'
  OBVIOUS
<1>1. /\ pc = "rest" /\ up /\ UNCHANGED icons /\ held' = held /\ c \in DOMAIN Cats(apps)
      /\ UNCHANGED <<db, now, edits, read, raced, pc, jobs, up, apps, catPic, sub>> /\ SubFor(c)
  BY DEF PointAt, AtRest, base, icons
<1>2. Counted'
  BY <1>1, CountedKept DEF Inv
<1>3. JobsOwed' /\ HandsFree' /\ NoRows'
  BY <1>1 DEF Inv, JobsOwed, HandsFree, NoRows
<1>4. /\ \A k \in DOMAIN items' : items'[k] \in DOMAIN apps'
      /\ active' = c /\ items' = Rows(apps', active') /\ items' # <<>>
      /\ subPic' = [k \in DOMAIN items' |-> apps'[items'[k]]]
      /\ active' \in 1..Cardinality(Entries) /\ active' \in DOMAIN Cats(apps')
  BY <1>1, SubForBuilds
<1>5. MenuTyped'
  BY <1>1, <1>4 DEF Inv, MenuTyped
<1> QED BY <1>1, <1>2, <1>3, <1>4, <1>5 DEF Inv, OnACategory, SubmenuCurrent

(* What the rest of the panel does with icons is nothing to the menu. *)
LEMMA ElsewhereInv ==
  ASSUME Inv, Counted', pc = "rest", UNCHANGED <<base, menu, read, raced, pc, jobs>>,
         \A h \in MenuHolders : held'[h] = held[h]
  PROVE  Inv'
<1>1. UNCHANGED <<db, now, edits, up, apps, active, sub, items, catPic, subPic>>
  BY DEF base, menu
<1>2. MenuTyped'
  BY <1>1 DEF Inv, MenuTyped
<1>3. jobs = <<>>
  BY DEF Inv, JobsOwed
<1>4. JobsOwed' /\ HandsFree'
  BY <1>1, <1>3 DEF Inv, JobsOwed, HandsFree
<1> QED BY <1>1, <1>2, <1>4 DEF Inv, NoRows, OnACategory, SubmenuCurrent

(* Drawing the launcher keeps the invariant. *)
LEMMA DrawPanelInv == Inv /\ DrawPanel => Inv'
<1> SUFFICES ASSUME Inv, DrawPanel PROVE Inv'
  OBVIOUS
<1>1. pc = "rest" /\ Draw(Launcher) /\ UNCHANGED <<base, menu, read, raced, pc, jobs>>
  BY DEF DrawPanel
<1>2. Counted' /\ held' = held
  BY <1>1, DrawCounts, MenuAssumption DEF Inv
<1> QED BY <1>1, <1>2, ElsewhereInv

(* So does giving back the icon of a window. *)
LEMMA RefreshTasksInv == Inv /\ RefreshTasks => Inv'
<1> SUFFICES ASSUME Inv, RefreshTasks PROVE Inv'
  OBVIOUS
<1>1. pc = "rest" /\ Release({Task}) /\ UNCHANGED <<base, menu, read, raced, pc, jobs>>
  BY DEF RefreshTasks
<1>2. Counted' /\ \A h \in Holders : held'[h] = IF h \in {Task} THEN 0 ELSE held[h]
  BY <1>1, ReleaseCounts, MenuAssumption DEF Inv
<1>3. \A h \in MenuHolders : held'[h] = held[h]
  BY <1>2 DEF MenuHolders
<1> QED BY <1>1, <1>2, <1>3, ElsewhereInv

(* So does loading it anew. *)
LEMMA LoadTaskInv == Inv /\ LoadTask => Inv'
<1> SUFFICES ASSUME Inv, LoadTask PROVE Inv'
  OBVIOUS
<1>1. /\ pc = "rest" /\ held[Task] = 0 /\ Take(Task, <<TaskIcon>>)
      /\ UNCHANGED <<base, menu, read, raced, pc, jobs>>
  BY DEF LoadTask
<1>2. Counted' /\ \A h \in Holders \ {Task} : held'[h] = held[h]
  BY <1>1, TakeCounts, MenuAssumption DEF Inv
<1>3. \A h \in MenuHolders : held'[h] = held[h]
  BY <1>2 DEF MenuHolders
<1> QED BY <1>1, <1>2, <1>3, ElsewhereInv

(* The invariant of the panel holds in every reachable state: references are     *)
(* counted, each icon still to be loaded is owed to a holder of its own that has *)
(* none (build_categories, build_category_items), the list is freed before it is *)
(* built anew (apps_free), and no submenu outlives it.                           *)
THEOREM Invariance == Spec => []Inv
<1>1. Inv /\ [Next]_vars => Inv'
  <2> SUFFICES ASSUME Inv, [Next]_vars PROVE Inv'
    OBVIOUS
  <2>1. CASE UNCHANGED vars
    <3>1. UNCHANGED icons /\ UNCHANGED <<db, now, edits, up, apps, active, sub, items, catPic, subPic>>
          /\ UNCHANGED <<read, raced, pc, jobs>> /\ held' = held
      BY <2>1 DEF vars, icons, base, menu
    <3>2. Counted'
      BY <3>1, CountedKept DEF Inv
    <3>3. MenuTyped'
      BY <3>1 DEF Inv, MenuTyped
    <3> QED BY <3>1, <3>2, <3>3 DEF Inv, JobsOwed, HandsFree, NoRows, OnACategory, SubmenuCurrent
  <2>2. CASE Next
    <3>1. \/ \E e \in Entries : Edit(e)
          \/ Second \/ Close
          \/ \E c \in 1..Cardinality(Entries) : PressCategory(c) \/ PointAt(c)
          \/ Open \/ OpenStamp \/ Poll \/ PollScan \/ LoadOne \/ Shown
          \/ DrawPanel \/ RefreshTasks \/ LoadTask
      BY <2>2 DEF Next, Panel, PressAndClose
    <3> QED BY <3>1, EditInv, SecondInv, CloseInv, PressCategoryInv, PointAtInv, OpenInv,
               OpenStampInv, PollInv, PollScanInv, LoadOneInv, ShownInv, DrawPanelInv,
               RefreshTasksInv, LoadTaskInv
  <2> QED BY <2>1, <2>2
<1> QED BY <1>1, InitMenu, PTL DEF Spec

(* Each surface has one reference for each slot of the cache and for each holder   *)
(* that has it, for any names and any capacity: icon_cache_insert, an eviction and *)
(* cairo_surface_destroy never leave one too many or too few.                      *)
THEOREM ReferencesCounted == Spec => []EveryReferenceCounted
<1>1. Inv => EveryReferenceCounted
  BY DEF Inv, Counted
<1> QED BY <1>1, Invariance, PTL

(* While the menu is up, its rows and its submenu are those of the list as it is *)
(* (build_sub_items_for, menu_poll_live_updates), for any applications, any      *)
(* categories and any edits.                                                     *)
THEOREM SubmenuStaysCurrent == Spec => []SubmenuCurrent
<1>1. Inv => SubmenuCurrent
  BY DEF Inv
<1> QED BY <1>1, Invariance, PTL

(* Every variable keeps its type, and every row of the submenu points into the *)
(* list (sub_items[] into apps[]).                                             *)
THEOREM TypeCorrect == Spec => []TypeOK
<1>1. Inv => TypeOK
  <2> SUFFICES ASSUME Inv PROVE TypeOK
    OBVIOUS
  <2>1. CacheTypeOK
    BY DEF Inv, Counted, Sound, CacheTypeOK, CacheType, Slot, Pointers
  <2>2. ASSUME NEW i \in DOMAIN jobs
        PROVE  jobs[i].for \in Holders /\ ToSet(jobs[i].by) \subseteq Names
    <3>1. jobs \in Seq(Job) /\ DOMAIN jobs = 1..Len(jobs)
      BY LenProperties DEF Inv, JobsOwed, Owed
    <3>2. jobs[i] \in Job
      BY <3>1, ElementOfSeq
    <3>3. jobs[i].for \in Holders /\ jobs[i].by \in Seq(Names)
      BY <3>2 DEF Job, MenuHolders
    <3>4. ToSet(jobs[i].by) \subseteq Names
      <4> DEFINE b == jobs[i].by
      <4>1. b \in Seq(Names)
        BY <3>3
      <4> HIDE DEF b
      <4>2. ToSet(b) \subseteq Names
        BY <4>1, LenProperties, ElementOfSeq DEF ToSet
      <4> QED BY <4>2 DEF b
    <3> QED BY <3>3, <3>4
  <2> QED BY <2>1, <2>2 DEF Inv, MenuTyped, TypeOK
<1> QED BY <1>1, Invariance, PTL

--------------------------------------------------------------------------------
(* The cache is a least-recently-used one. *)

(* The walk of the panel's list is that of the dock's. *)
LEMMA SameWalks == Walk = Dock!Walk
  BY Zenon DEF Walk, Dock!Walk, KeysFrom, Dock!KeysFrom, Dock!Pointers

(* The same after a step. *)
LEMMA SameWalksNext == Walk' = Dock!Walk'
  BY Zenon DEF Walk, Dock!Walk, KeysFrom, Dock!KeysFrom, Dock!Pointers

(* The walk depends on the cache only. *)
LEMMA WalkKept == cache' = cache => Walk' = Walk
  BY Zenon DEF Walk, KeysFrom, KeyAt, NextTo, Used

(* A request that a hit or a miss of the dock's cache stands for is one of    *)
(* IconLru.                                                                   *)
LEMMA RequestIsLru ==
  ASSUME Sound, Sound', NEW n \in Names,
         \/ Norm[n] \in Keys /\ Dock!GetHit(Norm[n])
         \/ Norm[n] \in Keys /\ Dock!GetMiss(Norm[n])
         \/ cache' = cache /\ answer' = answer
  PROVE  [Lru!Next]_<<Walk, answer>>
<1>1. Dock!Inv /\ Dock!Inv'
  BY DEF Sound
<1>2. Dock!Answer' = answer'
  BY DEF Sound, Dock!Answer
<1>3. CASE Norm[n] \in Keys /\ Dock!GetHit(Norm[n])
  <2>1. PICK i \in 1..Len(Dock!Walk) : Dock!Lru!Use(i)
    BY <1>1, <1>3, DockFits, Dock!HitUses
  <2>2. Lru!Use(i)
    BY <1>2, <2>1, SameWalks, SameWalksNext
       DEF Dock!Lru!Use, Lru!Use, Dock!Lru!RemoveAt, Lru!RemoveAt
  <2> QED BY <2>1, <2>2, SameWalks DEF Lru!Next
<1>4. CASE Norm[n] \in Keys /\ Dock!GetMiss(Norm[n])
  <2>1. Dock!Lru!Admit(Norm[n])
    <3> DEFINE k == Norm[n]
    <3>1. k \in Keys /\ Dock!GetMiss(k)
      BY <1>4
    <3> HIDE DEF k
    <3>2. [q \in Keys |-> q][k] = k
      BY <3>1
    <3>3. Dock!Lru!Admit([q \in Keys |-> q][k])
      BY <1>1, <3>1, DockFits, Dock!MissAdmits
    <3> QED BY <3>2, <3>3 DEF k
  <2>2. Lru!Admit(Norm[n])
    BY <1>2, <2>1, SameWalks, SameWalksNext
       DEF Dock!Lru!Admit, Lru!Admit, Dock!Lru!Contains, Lru!Contains, Dock!Lru!Front, Lru!Front
  <2> QED BY <1>4, <2>2 DEF Lru!Next
<1>5. CASE cache' = cache /\ answer' = answer
  BY <1>5, WalkKept
<1> QED BY <1>3, <1>4, <1>5

(* A request for nothing that there is refuses, and others leave the cache alone. *)
LEMMA RefusalIsLru == cache' = cache /\ answer' = NoKey => [Lru!Next]_<<Walk, answer>>
<1> SUFFICES ASSUME cache' = cache, answer' = NoKey PROVE Lru!Next
  OBVIOUS
<1>1. Lru!Refuse
  BY WalkKept DEF Lru!Refuse
<1> QED BY <1>1 DEF Lru!Next

(* So is what a holder takes. *)
LEMMA TakeIsLru ==
  ASSUME Counted, Sound', NEW h, NEW tries, Take(h, tries)
  PROVE  [Lru!Next]_<<Walk, answer>>
<1>1. CASE \E n \in Names : Answers(n) /\ cache' = Loaded(n).cache
  <2>1. PICK n \in Names : Answers(n) /\ cache' = Loaded(n).cache
    BY <1>1
  <2>2. \/ Norm[n] \in Keys /\ Dock!GetHit(Norm[n])
        \/ Norm[n] \in Keys /\ Dock!GetMiss(Norm[n])
        \/ cache' = cache /\ answer' = answer
    BY <2>1, LoadedCounts
  <2> QED BY <2>2, RequestIsLru DEF Counted
<1>2. CASE cache' = cache /\ answer' = NoKey
  BY <1>2, RefusalIsLru
<1>3. \/ \E n \in Names : Answers(n) /\ cache' = Loaded(n).cache
      \/ cache' = cache /\ answer' = NoKey
  BY DEF Take
<1> QED BY <1>1, <1>2, <1>3

(* So is what is drawn. *)
LEMMA DrawIsLru ==
  ASSUME Counted, Sound', NEW n \in Names, Draw(n)
  PROVE  [Lru!Next]_<<Walk, answer>>
<1>1. CASE Loadable(n)
  <2>1. Answers(n) /\ cache' = Loaded(n).cache
    BY <1>1 DEF Draw
  <2>2. \/ Norm[n] \in Keys /\ Dock!GetHit(Norm[n])
        \/ Norm[n] \in Keys /\ Dock!GetMiss(Norm[n])
        \/ cache' = cache /\ answer' = answer
    BY <2>1, LoadedCounts
  <2> QED BY <2>2, RequestIsLru DEF Counted
<1>2. CASE ~Loadable(n)
  BY <1>2, RefusalIsLru DEF Draw
<1> QED BY <1>1, <1>2

(* All other steps leave the cache and the answer as they are. *)
LEMMA OthersLeaveIt == cache' = cache /\ answer' = answer => [Lru!Next]_<<Walk, answer>>
  BY WalkKept

(* The panel's cache implements the bounded least-recently-used cache, for any  *)
(* capacity and any names (icon_cache_lookup, icon_cache_insert), whoever asks: *)
(* each step is one of IconLru's or leaves its variables alone.                 *)
THEOREM ImplementsLru == Spec => LruSpec
<1>1. Init => Lru!Init
  <2> SUFFICES ASSUME Init PROVE Lru!Init
    OBVIOUS
  <2>1. CacheInit /\ Inv
    BY InitMenu DEF Init
  <2>2. Dock!Inv /\ answer = NoKey /\ Used(cache) = {}
    BY <2>1, CacheAssumption DEF Inv, Counted, Sound, CacheInit, Used, Blank
  <2>3. Walk = <<>>
    <3>1. \E s \in [1..Cardinality(Used(cache)) -> Slots] :
             Dock!Walk = Dock!Mapped(KeyAt, s, Cardinality(Used(cache)))
      BY <2>2, DockFits, Dock!ListWalked
    <3>2. Cardinality(Used(cache)) = 0
      BY <2>2, FS_EmptySet
    <3>3. \A s, ks : Dock!Mapped(ks, s, 0) = <<>>
      BY DockFits, Dock!NoneMapped
    <3> QED BY <3>1, <3>2, <3>3, SameWalks
  <2> QED BY <2>2, <2>3 DEF Lru!Init
<1>2. Inv /\ Inv' /\ [Next]_vars => [Lru!Next]_<<Walk, answer>>
  <2> SUFFICES ASSUME Inv, Inv', [Next]_vars PROVE [Lru!Next]_<<Walk, answer>>
    OBVIOUS
  <2>1. Counted /\ Sound'
    BY DEF Inv, Counted
  <2>2. CASE LoadOne \/ LoadTask
    BY <2>1, <2>2, TakeIsLru DEF LoadOne, LoadTask
  <2>3. CASE DrawPanel
    BY <2>1, <2>3, DrawIsLru, MenuAssumption DEF DrawPanel
  <2>4. CASE \/ \E e \in Entries : Edit(e)
             \/ Second \/ Close
             \/ \E c \in 1..Cardinality(Entries) : PressCategory(c) \/ PointAt(c)
             \/ Open \/ OpenStamp \/ Poll \/ PollScan \/ Shown
             \/ RefreshTasks \/ UNCHANGED vars
    <3>1. cache' = cache /\ answer' = answer
      BY <2>4 DEF Edit, Second, Close, PressCategory, PointAt, AtRest, Open, OpenStamp, Poll,
                  PollScan, Shown, RefreshTasks, Freed, Release, vars, icons
    <3> QED BY <3>1, OthersLeaveIt
  <2> QED BY <2>2, <2>3, <2>4 DEF Next, Panel, PressAndClose
<1> QED BY <1>1, <1>2, Invariance, PTL DEF Spec, LruSpec, Lru!Spec
================================================================================
