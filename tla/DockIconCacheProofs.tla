-------------------------- MODULE DockIconCacheProofs --------------------------
(****************************************************************************)
(* Proofs about the dock's icon cache for every set of names and cells and  *)
(* every capacity.  The list operations are treated first, as lemmas about  *)
(* a list value and the sequence of cells it spells; the invariant is then  *)
(* carried through each way a get can go.  Last, the list as a walk from    *)
(* its head reads it is shown to behave as a least-recently-used cache.     *)
(****************************************************************************)
EXTENDS DockIconCache, TLAPS, FiniteSetTheorems, SequenceTheorems,
        WellFoundedInduction

ListType == [head : Pointers, tail : Pointers,
             prev : [Cells -> Pointers], next : [Cells -> Pointers]]

(* The sequence of m cells without its p-th, and with e put before it. *)
Without(s, p, m) == [i \in 1..(m - 1) |-> IF i < p THEN s[i] ELSE s[i + 1]]
Before(e, s, m) == [i \in 1..(m + 1) |-> IF i = 1 THEN e ELSE s[i - 1]]

(* The sequence with its p-th cell put before the others.                     *)
Moved(s, p, m) == Before(s[p], Without(s, p, m), m - 1)

--------------------------------------------------------------------------------
(* Unlinking the p-th entry leaves a well-linked list of the others.          *)
LEMMA UnlinkSpells ==
  ASSUME NEW l \in ListType, NEW m \in Nat, NEW s \in [1..m -> Cells],
         NEW p \in 1..m, Spells(l, s, m)
  PROVE  /\ Unlink(l, s[p]) \in ListType
         /\ Without(s, p, m) \in [1..(m - 1) -> Cells]
         /\ Spells(Unlink(l, s[p]), Without(s, p, m), m - 1)
<1> DEFINE u == Unlink(l, s[p])
           t == Without(s, p, m)
<1>1. /\ s[p] \in Cells
      /\ l.prev[s[p]] = IF p = 1 THEN Null ELSE s[p - 1]
      /\ l.next[s[p]] = IF p = m THEN Null ELSE s[p + 1]
  BY DEF Spells
<1>2. \A i \in 1..m : s[i] \in Cells /\ s[i] # Null
  BY NullAssumption
<1>3. u \in ListType
  BY <1>1 DEF Unlink, ListType, Pointers
<1>4. t \in [1..(m - 1) -> Cells]
  BY <1>2 DEF Without
<1>5. \A i, j \in 1..(m - 1) : t[i] = t[j] => i = j
  BY DEF Without, Spells
<1>6. u.head = IF m - 1 = 0 THEN Null ELSE t[1]
  BY <1>1, <1>2 DEF Unlink, Without, Spells
<1>7. u.tail = IF m - 1 = 0 THEN Null ELSE t[m - 1]
  BY <1>1, <1>2 DEF Unlink, Without, Spells
<1>8. ASSUME NEW i \in 1..(m - 1)
      PROVE  u.prev[t[i]] = IF i = 1 THEN Null ELSE t[i - 1]
  <2>1. CASE i < p
    BY <1>1, <1>2, <2>1 DEF Unlink, Without, Spells
  <2>2. CASE i = p
    BY <1>1, <1>2, <2>2 DEF Unlink, Without, Spells
  <2>3. CASE i > p
    BY <1>1, <1>2, <2>3 DEF Unlink, Without, Spells
  <2> QED BY <2>1, <2>2, <2>3
<1>9. ASSUME NEW i \in 1..(m - 1)
      PROVE  u.next[t[i]] = IF i = m - 1 THEN Null ELSE t[i + 1]
  <2>1. CASE i < p - 1
    BY <1>1, <1>2, <2>1 DEF Unlink, Without, Spells
  <2>2. CASE i = p - 1
    BY <1>1, <1>2, <2>2 DEF Unlink, Without, Spells
  <2>3. CASE i > p - 1
    BY <1>1, <1>2, <2>3 DEF Unlink, Without, Spells
  <2> QED BY <2>1, <2>2, <2>3
<1> QED BY <1>3, <1>4, <1>5, <1>6, <1>7, <1>8, <1>9 DEF Spells

(* Linking a cell that is not in the list puts it at the head.                *)
LEMMA LinkHeadSpells ==
  ASSUME NEW l \in ListType, NEW m \in Nat, NEW s \in [1..m -> Cells],
         Spells(l, s, m), NEW e \in Cells, \A i \in 1..m : s[i] # e
  PROVE  /\ LinkHead(l, e) \in ListType
         /\ Before(e, s, m) \in [1..(m + 1) -> Cells]
         /\ Spells(LinkHead(l, e), Before(e, s, m), m + 1)
<1> DEFINE u == LinkHead(l, e)
           t == Before(e, s, m)
<1>1. \A i \in 1..m : s[i] \in Cells /\ s[i] # Null
  BY NullAssumption
<1>2. u \in ListType
  BY DEF LinkHead, ListType, Pointers
<1>3. t \in [1..(m + 1) -> Cells]
  BY <1>1 DEF Before
<1>4. \A i, j \in 1..(m + 1) : t[i] = t[j] => i = j
  BY DEF Before, Spells
<1>5. u.head = t[1]
  BY DEF LinkHead, Before
<1>6. u.tail = t[m + 1]
  BY <1>1 DEF LinkHead, Before, Spells
<1>7. ASSUME NEW i \in 1..(m + 1)
      PROVE  u.prev[t[i]] = IF i = 1 THEN Null ELSE t[i - 1]
  <2>1. CASE i = 1
    BY <2>1, <1>1 DEF LinkHead, Before, Spells
  <2>2. CASE i = 2
    BY <2>2, <1>1 DEF LinkHead, Before, Spells
  <2>3. CASE i > 2
    BY <2>3, <1>1 DEF LinkHead, Before, Spells
  <2> QED BY <2>1, <2>2, <2>3
<1>8. ASSUME NEW i \in 1..(m + 1)
      PROVE  u.next[t[i]] = IF i = m + 1 THEN Null ELSE t[i + 1]
  <2>1. CASE i = 1
    BY <2>1, <1>1 DEF LinkHead, Before, Spells
  <2>2. CASE i > 1
    BY <2>2, <1>1 DEF LinkHead, Before, Spells
  <2> QED BY <2>1, <2>2
<1> QED BY <1>2, <1>3, <1>4, <1>5, <1>6, <1>7, <1>8 DEF Spells

(* Touching the p-th entry puts it before the others.                         *)
LEMMA TouchMoves ==
  ASSUME NEW l \in ListType, NEW m \in Nat, NEW s \in [1..m -> Cells],
         NEW p \in 1..m, Spells(l, s, m)
  PROVE  /\ Touch(l, s[p]) \in ListType
         /\ Moved(s, p, m) \in [1..m -> Cells]
         /\ Spells(Touch(l, s[p]), Moved(s, p, m), m)
<1>1. CASE l.head = s[p]
  <2>1. p = 1
    BY <1>1 DEF Spells
  <2>2. Moved(s, p, m) = s
    <3>1. ASSUME NEW i \in 1..m PROVE Moved(s, p, m)[i] = s[i]
      BY <2>1 DEF Moved, Before, Without
    <3>2. Moved(s, p, m) = [i \in 1..m |-> Moved(s, p, m)[i]]
      BY DEF Moved, Before
    <3>3. s = [i \in 1..m |-> s[i]]
      OBVIOUS
    <3> QED BY <3>1, <3>2, <3>3
  <2> QED BY <1>1, <2>2 DEF Touch
<1>2. CASE l.head # s[p]
  <2> DEFINE w == Without(s, p, m)
             t == Before(s[p], w, m - 1)
  <2>1. /\ Unlink(l, s[p]) \in ListType
        /\ w \in [1..(m - 1) -> Cells]
        /\ Spells(Unlink(l, s[p]), w, m - 1)
    BY UnlinkSpells
  <2>2. s[p] \in Cells /\ m - 1 \in Nat
    OBVIOUS
  <2>3. \A i \in 1..(m - 1) : w[i] # s[p]
    BY DEF Without, Spells
  <2>4. /\ LinkHead(Unlink(l, s[p]), s[p]) \in ListType
        /\ t \in [1..((m - 1) + 1) -> Cells]
        /\ Spells(LinkHead(Unlink(l, s[p]), s[p]), t, (m - 1) + 1)
    <3> HIDE DEF w, t
    <3> QED BY <2>1, <2>2, <2>3, LinkHeadSpells DEF t
  <2>5. (m - 1) + 1 = m /\ t = Moved(s, p, m)
    BY DEF Moved
  <2> HIDE DEF w, t
  <2> QED BY <1>2, <2>4, <2>5 DEF Touch
<1> QED BY <1>1, <1>2

(* The same entries are listed, in another order.                             *)
LEMMA MovedSame ==
  ASSUME NEW m \in Nat, NEW s \in [1..m -> Cells], NEW p \in 1..m
  PROVE  {Moved(s, p, m)[i] : i \in 1..m} = {s[i] : i \in 1..m}
<1> DEFINE t == Moved(s, p, m)
<1>1. ASSUME NEW i \in 1..m PROVE \E j \in 1..m : t[i] = s[j]
  <2>1. CASE i = 1
    BY <2>1 DEF Moved, Before
  <2>2. CASE i > 1 /\ i - 1 < p
    BY <2>2 DEF Moved, Before, Without
  <2>3. CASE i > 1 /\ i - 1 >= p
    BY <2>3 DEF Moved, Before, Without
  <2> QED BY <2>1, <2>2, <2>3
<1>2. ASSUME NEW j \in 1..m PROVE \E i \in 1..m : t[i] = s[j]
  <2>1. CASE j = p
    BY <2>1 DEF Moved, Before
  <2>2. CASE j < p
    <3>1. j + 1 \in 1..m /\ t[j + 1] = s[j]
      BY <2>2 DEF Moved, Before, Without
    <3> QED BY <3>1
  <2>3. CASE j > p
    <3>1. t[j] = s[j]
      BY <2>3 DEF Moved, Before, Without
    <3> QED BY <3>1
  <2> QED BY <2>1, <2>2, <2>3
<1> HIDE DEF t
<1>3. {t[i] : i \in 1..m} \subseteq {s[i] : i \in 1..m}
  BY <1>1
<1>4. {s[i] : i \in 1..m} \subseteq {t[i] : i \in 1..m}
  BY <1>2
<1> QED BY <1>3, <1>4 DEF t

(* So the list stays well linked and loses no entry.                          *)
LEMMA TouchSpells ==
  ASSUME NEW l \in ListType, NEW m \in Nat, NEW s \in [1..m -> Cells],
         NEW p \in 1..m, Spells(l, s, m)
  PROVE  /\ Touch(l, s[p]) \in ListType
         /\ \E t \in [1..m -> Cells] : /\ Spells(Touch(l, s[p]), t, m)
                                       /\ {t[i] : i \in 1..m} = {s[i] : i \in 1..m}
<1> DEFINE t == Moved(s, p, m)
<1>1. /\ Touch(l, s[p]) \in ListType /\ t \in [1..m -> Cells]
      /\ Spells(Touch(l, s[p]), t, m)
  BY TouchMoves
<1>2. {t[i] : i \in 1..m} = {s[i] : i \in 1..m}
  BY MovedSame
<1> HIDE DEF t
<1> QED BY <1>1, <1>2

--------------------------------------------------------------------------------
(* Each entry's surface was read for a name that normalises to its key.       *)
SurfacesMatchKeys == \A e \in live : Norm[surface[e]] = key[e]

(* The inductive invariant.                                                   *)
Inv == /\ TypeOK /\ ListIntact /\ MapAgrees /\ Bounded /\ SurfacesAccounted
       /\ SurfacesMatchKeys /\ ServesTheKey

(* What a cache with room for one more looks like.                            *)
Roomy(r) ==
  /\ r.list \in ListType
  /\ r.size \in Nat /\ r.size < Capacity /\ r.alive = r.size
  /\ r.live \subseteq live
  /\ r.map \in [Keys -> Pointers]
  /\ \A k \in Keys : r.map[k] # Null => r.map[k] \in r.live /\ key[r.map[k]] = k
  /\ \A e \in r.live : key[e] \in Keys /\ r.map[key[e]] = e
  /\ \A k \in Keys : map[k] = Null => r.map[k] = Null
  /\ \E s \in [1..r.size -> Cells] : /\ Spells(r.list, s, r.size)
                                     /\ r.live = {s[i] : i \in 1..r.size}

LEMMA ListTyped == TypeOK => List \in ListType
  BY DEF TypeOK, List, ListType

(* Evicting the tail leaves room and disturbs no other entry.                 *)
LEMMA MakeRoomGivesRoom ==
  ASSUME Inv
  PROVE  Roomy(MakeRoom)
<1> USE DEF Inv
<1>1. PICK s \in [1..size -> Cells] :
           Spells(List, s, size) /\ live = {s[i] : i \in 1..size}
  BY DEF ListIntact
<1>2. List \in ListType /\ size \in Nat
  BY ListTyped DEF TypeOK
<1>3. CASE size >= Capacity /\ tail # Null
  <2> DEFINE t == Without(s, size, size)
             r == MakeRoom
  <2>1. /\ size \in 1..size
        /\ tail = s[size]
    BY <1>1, <1>2, <1>3, CapacityAssumption DEF Spells, List
  <2>2. /\ Unlink(List, tail) \in ListType
        /\ t \in [1..(size - 1) -> Cells]
        /\ Spells(Unlink(List, tail), t, size - 1)
    BY <1>1, <1>2, <2>1, UnlinkSpells
  <2>3. live \ {tail} = {t[i] : i \in 1..(size - 1)}
    <3>1. \A i \in 1..(size - 1) : t[i] = s[i]
      BY <1>2 DEF Without
    <3>2. \A i \in 1..(size - 1) : s[i] # s[size]
      BY <1>1, <1>2, <2>1 DEF Spells
    <3> QED BY <3>1, <3>2, <1>1, <1>2, <2>1
  <2>4. /\ r.list = Unlink(List, tail) /\ r.size = size - 1
        /\ r.alive = alive - 1 /\ r.live = live \ {tail}
        /\ r.map = [map EXCEPT ![key[tail]] = Null]
    BY <1>3 DEF MakeRoom
  <2>5. tail \in live
    BY <1>1, <2>1
  <2>6. /\ r.map \in [Keys -> Pointers]
        /\ \A k \in Keys : r.map[k] # Null => r.map[k] \in r.live /\ key[r.map[k]] = k
        /\ \A e \in r.live : key[e] \in Keys /\ r.map[key[e]] = e
        /\ \A k \in Keys : map[k] = Null => r.map[k] = Null
    BY <2>4, <2>5 DEF MapAgrees, TypeOK, Pointers
  <2>7. r.size \in Nat /\ r.size < Capacity /\ r.alive = r.size /\ r.live \subseteq live
    BY <1>2, <1>3, <2>1, <2>4, CapacityAssumption
       DEF TypeOK, Bounded, SurfacesAccounted
  <2> QED BY <2>2, <2>3, <2>4, <2>6, <2>7 DEF Roomy
<1>4. CASE ~(size >= Capacity /\ tail # Null)
  <2>1. MakeRoom = Whole
    BY <1>4 DEF MakeRoom
  <2>2. size < Capacity
    <3>1. CASE tail = Null
      BY <3>1, <1>1, <1>2, NullAssumption, CapacityAssumption DEF Spells, List
    <3>2. CASE size < Capacity
      BY <3>2
    <3> QED BY <1>4, <3>1, <3>2, <1>2, CapacityAssumption
  <2> QED BY <1>1, <1>2, <2>1, <2>2
          DEF Roomy, Whole, TypeOK, MapAgrees, SurfacesAccounted
<1> QED BY <1>3, <1>4

(* The contents of the cells that stay allocated are kept.                    *)
LEMMA ForgetFreedKeeps ==
  ASSUME TypeOK, NEW stays, stays \subseteq live, ForgetFreed(stays)
  PROVE  /\ key' \in [Cells -> Keys \cup {NoKey}]
         /\ surface' \in [Cells -> Names \cup {NoIcon}]
         /\ \A e \in stays : key'[e] = key[e] /\ surface'[e] = surface[e]
  BY DEF ForgetFreed, TypeOK

LEMMA InitInv == Init => Inv
<1> SUFFICES ASSUME Init PROVE Inv
  OBVIOUS
<1>1. TypeOK /\ MapAgrees /\ Bounded /\ SurfacesAccounted /\ SurfacesMatchKeys
  BY CapacityAssumption, NullAssumption
     DEF Init, TypeOK, Pointers, MapAgrees, Bounded, SurfacesAccounted, SurfacesMatchKeys
<1>2. ListIntact
  <2> DEFINE s == [i \in 1..0 |-> Null]
  <2>1. s \in [1..0 -> Cells]
    OBVIOUS
  <2>2. Spells(List, s, 0)
    BY DEF Init, Spells, List
  <2>3. {} = {s[i] : i \in 1..0}
    OBVIOUS
  <2> HIDE DEF s
  <2> QED BY <2>1, <2>2, <2>3 DEF Init, ListIntact
<1>3. ServesTheKey
  BY DEF Init, ServesTheKey
<1> QED BY <1>1, <1>2, <1>3 DEF Inv

LEMMA GetNothingInv == Inv /\ (\E n \in Names : GetNothing(n)) => Inv'
<1> SUFFICES ASSUME Inv, NEW n \in Names, GetNothing(n) PROVE Inv'
  OBVIOUS
<1>1. List' = List /\ size' = size /\ live' = live
  BY DEF GetNothing, List
<1>2. ListIntact'
  BY <1>1 DEF Inv, ListIntact
<1>3. TypeOK' /\ ServesTheKey'
  BY DEF Inv, GetNothing, Returns, TypeOK, ServesTheKey
<1>4. MapAgrees' /\ Bounded' /\ SurfacesAccounted' /\ SurfacesMatchKeys'
  BY DEF Inv, GetNothing, MapAgrees, Bounded, SurfacesAccounted, SurfacesMatchKeys
<1> QED BY <1>2, <1>3, <1>4 DEF Inv

LEMMA GetHitInv == Inv /\ (\E n \in Names : GetHit(n)) => Inv'
<1> SUFFICES ASSUME Inv, NEW n \in Names, GetHit(n) PROVE Inv'
  OBVIOUS
<1> DEFINE e == map[Norm[n]]
<1>1. e \in live /\ key[e] = Norm[n] /\ Norm[n] \in Keys
  BY NormAssumption DEF Inv, MapAgrees, GetHit
<1>2. PICK s \in [1..size -> Cells] :
           Spells(List, s, size) /\ live = {s[i] : i \in 1..size}
  BY DEF Inv, ListIntact
<1>3. PICK p \in 1..size : e = s[p]
  BY <1>1, <1>2
<1>4. List \in ListType /\ size \in Nat
  BY ListTyped DEF Inv, TypeOK
<1>5. /\ Touch(List, e) \in ListType
      /\ \E t \in [1..size -> Cells] : /\ Spells(Touch(List, e), t, size)
                                       /\ {t[i] : i \in 1..size} = live
  <2> DEFINE l == List
  <2> HIDE DEF e, l
  <2>1. /\ Touch(l, s[p]) \in ListType
        /\ \E t \in [1..size -> Cells] : /\ Spells(Touch(l, s[p]), t, size)
                                         /\ {t[i] : i \in 1..size} = {s[i] : i \in 1..size}
    BY <1>2, <1>4, TouchSpells DEF l
  <2> QED BY <2>1, <1>2, <1>3 DEF l
<1>6. List' = Touch(List, e) /\ size' = size /\ live' = live
  BY <1>5 DEF GetHit, SetList, List, ListType
<1>7. ListIntact'
  BY <1>5, <1>6 DEF ListIntact
<1>8. TypeOK'
  BY <1>1, <1>5, <1>6 DEF Inv, TypeOK, GetHit, Returns, List, ListType
<1>9. ServesTheKey'
  BY <1>1 DEF Inv, SurfacesMatchKeys, ServesTheKey, GetHit, Returns
<1>10. MapAgrees' /\ Bounded' /\ SurfacesAccounted' /\ SurfacesMatchKeys'
  BY DEF Inv, GetHit, MapAgrees, Bounded, SurfacesAccounted, SurfacesMatchKeys
<1> QED BY <1>7, <1>8, <1>9, <1>10 DEF Inv

LEMMA GetNoMemoryInv == Inv /\ (\E n \in Names : GetNoMemory(n)) => Inv'
<1> SUFFICES ASSUME Inv, NEW n \in Names, GetNoMemory(n) PROVE Inv'
  OBVIOUS
<1> DEFINE r == MakeRoom
<1>1. Roomy(r)
  BY MakeRoomGivesRoom
<1>2. /\ SetList(r.list) /\ map' = r.map /\ live' = r.live /\ size' = r.size
      /\ alive' = r.alive /\ ForgetFreed(r.live) /\ Returns(n, NoIcon)
  BY DEF GetNoMemory
<1> HIDE DEF r
<1>3. List' = r.list
  BY <1>1, <1>2 DEF SetList, List, Roomy, ListType
<1>4. /\ key' \in [Cells -> Keys \cup {NoKey}]
      /\ surface' \in [Cells -> Names \cup {NoIcon}]
      /\ \A e \in r.live : key'[e] = key[e] /\ surface'[e] = surface[e]
  BY <1>1, <1>2, ForgetFreedKeeps DEF Roomy, Inv
<1>5. ListIntact'
  BY <1>1, <1>2, <1>3 DEF ListIntact, Roomy
<1>6. TypeOK'
  BY <1>1, <1>2, <1>3, <1>4 DEF Inv, TypeOK, Roomy, Returns, List, ListType
<1>7. MapAgrees' /\ Bounded' /\ SurfacesAccounted' /\ SurfacesMatchKeys'
  BY <1>1, <1>2, <1>4, CapacityAssumption
     DEF Inv, Roomy, MapAgrees, Bounded, SurfacesAccounted, SurfacesMatchKeys, TypeOK
<1>8. ServesTheKey'
  BY <1>2 DEF ServesTheKey, Returns
<1> QED BY <1>5, <1>6, <1>7, <1>8 DEF Inv

LEMMA GetMissInv == Inv /\ (\E n \in Names : GetMiss(n)) => Inv'
<1> SUFFICES ASSUME Inv, NEW n \in Names, GetMiss(n) PROVE Inv'
  OBVIOUS
<1> DEFINE r == MakeRoom
<1>1. Roomy(r)
  BY MakeRoomGivesRoom
<1>2. PICK e \in Cells \ r.live :
         /\ SetList(LinkHead(r.list, e))
         /\ map' = [r.map EXCEPT ![Norm[n]] = e]
         /\ live' = r.live \cup {e}
         /\ size' = r.size + 1
         /\ alive' = r.alive + 1
         /\ key' = [c \in Cells |-> IF c = e THEN Norm[n]
                                    ELSE IF c \in r.live THEN key[c] ELSE NoKey]
         /\ surface' = [c \in Cells |-> IF c = e THEN n
                                    ELSE IF c \in r.live THEN surface[c] ELSE NoIcon]
  BY DEF GetMiss
<1>3. /\ Norm[n] \in Keys /\ map[Norm[n]] = Null /\ Returns(n, n)
  BY NormAssumption DEF GetMiss
<1> HIDE DEF r
<1>4. PICK s \in [1..r.size -> Cells] : /\ Spells(r.list, s, r.size)
                                       /\ r.live = {s[i] : i \in 1..r.size}
  BY <1>1 DEF Roomy
<1> DEFINE t == Before(e, s, r.size)
           l == LinkHead(r.list, e)
<1>5. /\ l \in ListType
      /\ t \in [1..(r.size + 1) -> Cells]
      /\ Spells(l, t, r.size + 1)
  <2>1. r.list \in ListType /\ r.size \in Nat
    BY <1>1 DEF Roomy
  <2>2. \A i \in 1..r.size : s[i] # e
    BY <1>2, <1>4
  <2>3. e \in Cells
    BY <1>2
  <2> QED BY <1>4, <2>1, <2>2, <2>3, LinkHeadSpells
<1>6. List' = l
  BY <1>2, <1>5 DEF SetList, List, ListType
<1>7. r.live \cup {e} = {t[i] : i \in 1..(r.size + 1)}
  <2>1. t[1] = e /\ \A i \in 2..(r.size + 1) : t[i] = s[i - 1]
    BY <1>1 DEF Before, Roomy
  <2>2. r.size \in Nat
    BY <1>1 DEF Roomy
  <2> HIDE DEF t
  <2>3. {t[i] : i \in 1..(r.size + 1)} \subseteq r.live \cup {e}
    <3> SUFFICES ASSUME NEW i \in 1..(r.size + 1) PROVE t[i] \in r.live \cup {e}
      OBVIOUS
    <3> QED BY <2>1, <2>2, <1>4
  <2>4. e \in {t[i] : i \in 1..(r.size + 1)}
    BY <2>1, <2>2
  <2>5. ASSUME NEW i \in 1..r.size PROVE s[i] \in {t[j] : j \in 1..(r.size + 1)}
    <3>1. i + 1 \in 1..(r.size + 1) /\ t[i + 1] = s[i]
      BY <2>1, <2>2
    <3> QED BY <3>1
  <2> QED BY <2>3, <2>4, <2>5, <1>4
<1> HIDE DEF t, l
<1>8. ListIntact'
  BY <1>2, <1>5, <1>6, <1>7 DEF ListIntact
<1>9. \A c \in r.live : c \in Cells /\ c # e /\ key'[c] = key[c] /\ surface'[c] = surface[c]
  BY <1>1, <1>2 DEF Roomy, Inv, TypeOK
<1>10. key'[e] = Norm[n] /\ surface'[e] = n
  BY <1>2
<1>11. TypeOK'
  <2>1. /\ head' \in Pointers /\ tail' \in Pointers
        /\ prev' \in [Cells -> Pointers] /\ next' \in [Cells -> Pointers]
    BY <1>5, <1>6 DEF List, ListType
  <2>2. map' \in [Keys -> Pointers] /\ live' \in SUBSET Cells
    BY <1>1, <1>2 DEF Roomy, Inv, TypeOK, Pointers
  <2>3. key' \in [Cells -> Keys \cup {NoKey}] /\ surface' \in [Cells -> Names \cup {NoIcon}]
    BY <1>2, <1>3 DEF Inv, TypeOK
  <2>4. size' \in Nat /\ alive' \in Nat
    BY <1>1, <1>2 DEF Roomy
  <2>5. got' \in [asked : Names \cup {NoIcon}, icon : Names \cup {NoIcon}]
    BY <1>3 DEF Returns
  <2> QED BY <2>1, <2>2, <2>3, <2>4, <2>5 DEF TypeOK
<1>12. MapAgrees'
  <2>1. r.map \in [Keys -> Pointers] /\ r.map[Norm[n]] = Null
    BY <1>1, <1>3 DEF Roomy
  <2>2. map'[Norm[n]] = e /\ \A k \in Keys \ {Norm[n]} : map'[k] = r.map[k]
    BY <1>2, <1>3, <2>1
  <2>3. \A k \in Keys : map'[k] # Null => map'[k] \in live' /\ key'[map'[k]] = k
    <3> SUFFICES ASSUME NEW k \in Keys, map'[k] # Null
                 PROVE  map'[k] \in live' /\ key'[map'[k]] = k
      OBVIOUS
    <3>1. CASE k = Norm[n]
      BY <3>1, <1>2, <1>10, <2>2
    <3>2. CASE k # Norm[n]
      <4>1. r.map[k] \in r.live /\ key[r.map[k]] = k
        BY <3>2, <1>1, <2>2 DEF Roomy
      <4>2. map'[k] = r.map[k] /\ live' = r.live \cup {e}
        BY <3>2, <1>2, <2>2
      <4> QED BY <4>1, <4>2, <1>9
    <3> QED BY <3>1, <3>2
  <2>4. ASSUME NEW c \in live' PROVE key'[c] \in Keys /\ map'[key'[c]] = c
    <3>1. CASE c = e
      BY <3>1, <1>3, <1>10, <2>2
    <3>2. CASE c # e
      <4>1. c \in r.live
        BY <3>2, <1>2
      <4>2. key[c] \in Keys /\ r.map[key[c]] = c /\ c # Null
        BY <4>1, <1>1, <1>9, NullAssumption DEF Roomy
      <4> QED BY <4>1, <4>2, <1>9, <2>1, <2>2
    <3> QED BY <3>1, <3>2
  <2> QED BY <2>3, <2>4 DEF MapAgrees
<1>13. Bounded' /\ SurfacesAccounted' /\ SurfacesMatchKeys'
  <2>1. r.size \in Nat /\ r.size < Capacity /\ r.alive = r.size
    BY <1>1 DEF Roomy
  <2>2. \A c \in r.live : surface[c] \in Names /\ Norm[surface[c]] = key[c]
    BY <1>1 DEF Roomy, Inv, SurfacesAccounted, SurfacesMatchKeys
  <2>3. Bounded' /\ alive' = size'
    BY <1>2, <2>1, CapacityAssumption DEF Bounded
  <2>4. \A c \in live' : surface'[c] \in Names /\ Norm[surface'[c]] = key'[c]
    BY <1>2, <1>9, <1>10, <2>2
  <2> QED BY <2>3, <2>4 DEF SurfacesAccounted, SurfacesMatchKeys
<1>14. ServesTheKey'
  BY <1>3 DEF ServesTheKey, Returns
<1> QED BY <1>8, <1>11, <1>12, <1>13, <1>14 DEF Inv

(* The list counts the allocated entries.                                     *)
LEMMA SizeCounts == Inv => Cardinality(live) = size
<1> SUFFICES ASSUME Inv PROVE Cardinality(live) = size
  OBVIOUS
<1>1. PICK s \in [1..size -> Cells] :
           Spells(List, s, size) /\ live = {s[i] : i \in 1..size}
  BY DEF Inv, ListIntact
<1>2. size \in Nat
  BY DEF Inv, TypeOK
<1>3. IsFiniteSet(1..size) /\ Cardinality(1..size) = size
  BY <1>2, FS_Interval
<1>4. s \in Bijection(1..size, live)
  <2>1. \A i, j \in 1..size : s[i] = s[j] => i = j
    BY <1>1 DEF Spells
  <2>2. s \in [1..size -> live]
    BY <1>1
  <2> QED BY <1>1, <2>1, <2>2 DEF Bijection, Injection, Surjection, IsInjective
<1> QED BY <1>3, <1>4, FS_Bijection DEF ExistsBijection

LEMMA ClearInv == Inv /\ Clear => Inv'
<1> SUFFICES ASSUME Inv, Clear PROVE Inv'
  OBVIOUS
<1>1. alive' = 0
  BY SizeCounts DEF Clear, Inv, SurfacesAccounted, TypeOK
<1>2. ListIntact'
  <2> DEFINE s == [i \in 1..0 |-> Null]
  <2>1. s \in [1..0 -> Cells]
    OBVIOUS
  <2>2. Spells(List', s, 0)
    BY DEF Clear, Spells, List
  <2>3. {} = {s[i] : i \in 1..0}
    OBVIOUS
  <2> HIDE DEF s
  <2> QED BY <2>1, <2>2, <2>3 DEF Clear, ListIntact
<1>3. TypeOK' /\ ServesTheKey'
  BY <1>1 DEF Inv, Clear, ForgetFreed, TypeOK, Pointers, ServesTheKey
<1>4. MapAgrees' /\ Bounded' /\ SurfacesAccounted' /\ SurfacesMatchKeys'
  BY <1>1, CapacityAssumption
     DEF Clear, MapAgrees, Bounded, SurfacesAccounted, SurfacesMatchKeys
<1> QED BY <1>2, <1>3, <1>4 DEF Inv

--------------------------------------------------------------------------------
(* The invariant holds in every reachable state.                              *)
THEOREM Invariance == Spec => []Inv
<1>1. Init => Inv
  BY InitInv
<1>2. Inv /\ [Next]_vars => Inv'
  <2> SUFFICES ASSUME Inv, [Next]_vars PROVE Inv'
    OBVIOUS
  <2>1. CASE \E n \in Names : GetNothing(n)
    BY <2>1, GetNothingInv
  <2>2. CASE \E n \in Names : GetHit(n)
    BY <2>2, GetHitInv
  <2>3. CASE \E n \in Names : GetNoMemory(n)
    BY <2>3, GetNoMemoryInv
  <2>4. CASE \E n \in Names : GetMiss(n)
    BY <2>4, GetMissInv
  <2>5. CASE Clear
    BY <2>5, ClearInv
  <2>6. CASE UNCHANGED vars
    BY <2>6 DEF vars, Inv, TypeOK, ListIntact, List, MapAgrees, Bounded,
                SurfacesAccounted, SurfacesMatchKeys, ServesTheKey
  <2> QED BY <2>1, <2>2, <2>3, <2>4, <2>5, <2>6 DEF Next
<1> QED BY <1>1, <1>2, PTL DEF Spec

(* The links always list exactly the allocated entries, both ways             *)
(* (icon_entry_unlink, icon_entry_link_head, icon_entry_touch).               *)
THEOREM ListStaysIntact == Spec => []ListIntact
  BY Invariance, PTL DEF Inv

(* The hash table never leads to a freed entry and never misses a live one.   *)
THEOREM MapStaysInAgreement == Spec => []MapAgrees
  BY Invariance, PTL DEF Inv

(* The cache is bounded by its capacity, whatever fails on the way.           *)
THEOREM CacheIsBounded == Spec => []Bounded
  BY Invariance, PTL DEF Inv

(* alive_surfaces counts the surfaces there are.                              *)
THEOREM NoSurfaceLeaks == Spec => []SurfacesAccounted
  BY Invariance, PTL DEF Inv

(* The surface a get returns was read for a name with the same key.           *)
THEOREM HitsServeTheKey == Spec => []ServesTheKey
  BY Invariance, PTL DEF Inv

(* Every variable keeps its type.                                             *)
THEOREM TypeCorrect == Spec => []TypeOK
  BY Invariance, PTL DEF Inv

--------------------------------------------------------------------------------
(* A set that has 0 and is closed under successor has every natural number:   *)
(* induction on the naturals, for a set instead of a predicate.  The segments *)
(* below the missing numbers are finite, so one of them is smallest.          *)
LEMMA NatSetInduction ==
  ASSUME NEW T \in SUBSET Nat, 0 \in T, \A n \in T : n + 1 \in T
  PROVE  T = Nat
<1> SUFFICES ASSUME NEW k \in Nat, k \notin T PROVE FALSE
  OBVIOUS
<1> DEFINE S == {0..n : n \in Nat \ T}
           R == StrictSubsetOrdering(Nat)
<1>1. S \subseteq FiniteSubsetsOf(Nat)
  <2> SUFFICES ASSUME NEW n \in Nat PROVE 0..n \in FiniteSubsetsOf(Nat)
    OBVIOUS
  <2>1. n \in Int /\ 0 \in Int /\ 0..n \subseteq Nat
    OBVIOUS
  <2>2. IsFiniteSet(0..n)
    BY <2>1, FS_Interval
  <2> QED BY <2>1, <2>2 DEF FiniteSubsetsOf
<1>2. S # {}
  OBVIOUS
<1>3. IsWellFoundedOn(R, FiniteSubsetsOf(Nat))
  BY FS_StrictSubsetOrderingWellFounded
<1> HIDE DEF R
<1>4. \E x \in S : \A y \in S : <<y, x>> \notin R
  <2> HIDE DEF S
  <2> QED BY <1>1, <1>2, <1>3, WFMin
<1>5. PICK m \in Nat \ T : \A n \in Nat \ T : <<0..n, 0..m>> \notin R
  BY <1>4
<1>6. m # 0 /\ m - 1 \in Nat /\ (m - 1) + 1 = m
  BY <1>5
<1>7. m - 1 \notin T
  BY <1>6, <1>5
<1>8. 0..(m - 1) \subseteq 0..m /\ m \in 0..m /\ m \notin 0..(m - 1) /\ 0..m \subseteq Nat
  BY <1>6
<1>9. <<0..(m - 1), 0..m>> \in R
  BY <1>8 DEF R, StrictSubsetOrdering
<1> QED BY <1>5, <1>6, <1>7, <1>9

--------------------------------------------------------------------------------
(* A chain reads ks along nx: f[n][c] has what the first n of the cells from c *)
(* on have there.  Chained is the form of KeysFrom in the model, Unfolded what *)
(* follows for its values.                                                    *)
Chained(f, P, null, nx, ks) ==
  f = [n \in Nat |-> [c \in P |-> IF n = 0 \/ c = null THEN <<>>
                                  ELSE <<ks[c]>> \o f[n - 1][nx[c]]]]

Unfolded(f, P, null, nx, ks) ==
  /\ \A c \in P : f[0][c] = <<>>
  /\ \A n \in Nat, c \in P \ {null} : f[n + 1][c] = <<ks[c]>> \o f[n][nx[c]]

(* The values of a chain are those its equation says.                         *)
LEMMA ChainUnfolds ==
  ASSUME NEW P, NEW null, null \in P, NEW nx, NEW ks, NEW f, Chained(f, P, null, nx, ks)
  PROVE  Unfolded(f, P, null, nx, ks)
<1>1. ASSUME NEW n \in Nat
      PROVE  f[n] = [c \in P |-> IF n = 0 \/ c = null THEN <<>>
                                 ELSE <<ks[c]>> \o f[n - 1][nx[c]]]
  BY DEF Chained
<1>2. ASSUME NEW n \in Nat, NEW c \in P
      PROVE  f[n][c] = IF n = 0 \/ c = null THEN <<>> ELSE <<ks[c]>> \o f[n - 1][nx[c]]
  BY <1>1, Zenon
<1>3. ASSUME NEW n \in Nat, NEW c \in P \ {null} PROVE f[n + 1][c] = <<ks[c]>> \o f[n][nx[c]]
  <2>1. n + 1 \in Nat /\ n + 1 # 0 /\ (n + 1) - 1 = n
    OBVIOUS
  <2>2. c \in P /\ c # null
    OBVIOUS
  <2>3. f[n + 1][c] = IF n + 1 = 0 \/ c = null THEN <<>> ELSE <<ks[c]>> \o f[(n + 1) - 1][nx[c]]
    BY <2>1, <2>2, <1>2, Zenon
  <2> QED BY <2>1, <2>2, <2>3, Zenon
<1>4. null \in P /\ 0 \in Nat
  OBVIOUS
<1> QED BY <1>2, <1>3, <1>4, Zenon DEF Unfolded

(* There is a chain for any links: initial parts of it exist for every length *)
(* and agree with each other.                                                 *)
LEMMA ChainDefined ==
  ASSUME NEW P, NEW null \in P, NEW nx \in [P \ {null} -> P], NEW ks
  PROVE  \E f : Chained(f, P, null, nx, ks)
<1> DEFINE Step(h) == [c \in P |-> IF c = null THEN <<>> ELSE <<ks[c]>> \o h[nx[c]]]
           Zero == [c \in P |-> <<>>]
           Upto(N, g) == /\ g[0] = Zero
                         /\ \A n \in 0..(N - 1) : g[n + 1] = Step(g[n])
           Has == {N \in Nat : \E g : Upto(N, g)}
<1> HIDE DEF Step, Zero
<1>1. Has = Nat
  <2>1. 0 \in Has
    <3>1. Upto(0, [n \in {0} |-> Zero])
      OBVIOUS
    <3> QED BY <3>1
  <2>2. ASSUME NEW N \in Has PROVE N + 1 \in Has
    <3>1. PICK g : Upto(N, g)
      OBVIOUS
    <3> DEFINE h == [n \in 0..(N + 1) |-> IF n <= N THEN g[n] ELSE Step(g[N])]
    <3>2. h[0] = Zero
      BY <3>1
    <3>3. ASSUME NEW n \in 0..N PROVE h[n + 1] = Step(h[n])
      <4>1. CASE n = N
        BY <4>1
      <4>2. CASE n < N
        BY <4>2, <3>1
      <4> QED BY <4>1, <4>2
    <3> HIDE DEF h
    <3>4. (N + 1) - 1 = N /\ N + 1 \in Nat
      OBVIOUS
    <3>5. Upto(N + 1, h)
      BY <3>2, <3>3, <3>4
    <3> HIDE DEF Upto
    <3> QED BY <3>4, <3>5
  <2> HIDE DEF Has
  <2> QED BY <2>1, <2>2, NatSetInduction DEF Has
<1> DEFINE pick == [N \in Nat |-> CHOOSE g : Upto(N, g)]
           F == [n \in Nat |-> pick[n][n]]
<1>2. \A N \in Nat : Upto(N, pick[N])
  <2> SUFFICES ASSUME NEW N \in Nat PROVE Upto(N, pick[N])
    OBVIOUS
  <2>1. \E g : Upto(N, g)
    BY <1>1
  <2> QED BY <2>1
<1>3. ASSUME NEW M \in Nat, NEW N \in Nat, M <= N
      PROVE  \A n \in 0..M : pick[M][n] = pick[N][n]
  <2> DEFINE Same == {n \in Nat : n <= M => pick[M][n] = pick[N][n]}
  <2>1. Upto(M, pick[M]) /\ Upto(N, pick[N])
    BY <1>2
  <2> HIDE DEF pick
  <2>2. 0 \in Same
    BY <2>1
  <2>3. ASSUME NEW n \in Same PROVE n + 1 \in Same
    BY <2>1, <1>3
  <2>4. Same = Nat
    <3> HIDE DEF Same
    <3> QED BY <2>2, <2>3, NatSetInduction DEF Same
  <2> QED BY <2>4
<1>4. F[0] = Zero /\ \A n \in Nat : F[n + 1] = Step(F[n])
  <2>1. F[0] = Zero
    <3>1. Upto(0, pick[0])
      BY <1>2
    <3> HIDE DEF pick
    <3> QED BY <3>1
  <2>2. ASSUME NEW n \in Nat PROVE F[n + 1] = Step(F[n])
    <3>1. Upto(n + 1, pick[n + 1])
      <4> HIDE DEF pick, Upto
      <4> QED BY <1>2
    <3>2. pick[n][n] = pick[n + 1][n]
      <4>1. n + 1 \in Nat /\ n <= n + 1 /\ n \in 0..n
        OBVIOUS
      <4> HIDE DEF pick
      <4> QED BY <1>3, <4>1
    <3>3. F[n] = pick[n][n] /\ F[n + 1] = pick[n + 1][n + 1]
      <4> HIDE DEF pick
      <4> QED OBVIOUS
    <3> HIDE DEF pick, F
    <3> QED BY <3>1, <3>2, <3>3
  <2> QED BY <2>1, <2>2
<1> HIDE DEF F
<1>5. \A n \in Nat : F[n] = [c \in P |-> IF n = 0 \/ c = null THEN <<>>
                                       ELSE <<ks[c]>> \o F[n - 1][nx[c]]]
  <2> SUFFICES ASSUME NEW n \in Nat
               PROVE  F[n] = [c \in P |-> IF n = 0 \/ c = null THEN <<>>
                                          ELSE <<ks[c]>> \o F[n - 1][nx[c]]]
    OBVIOUS
  <2>1. CASE n = 0
    BY <2>1, <1>4 DEF Zero
  <2>2. CASE n # 0
    <3>1. n - 1 \in Nat /\ (n - 1) + 1 = n
      BY <2>2
    <3>2. F[n] = Step(F[n - 1])
      BY <3>1, <1>4
    <3> QED BY <3>2, <2>2 DEF Step
  <2> QED BY <2>1, <2>2
<1>6. F = [n \in Nat |-> F[n]]
  BY DEF F
<1>7. Chained(F, P, null, nx, ks)
  BY <1>5, <1>6 DEF Chained
<1> QED BY <1>7

(* A function on 1..n is a sequence of length n.                              *)
LEMMA FunctionIsSeq ==
  ASSUME NEW n \in Nat, NEW K, NEW g \in [1..n -> K]
  PROVE  g \in Seq(K) /\ Len(g) = n
  OBVIOUS

(* Appending to a sequence of one value shifts the others by one.             *)
LEMMA PutBefore ==
  ASSUME NEW K, NEW k \in K, NEW n \in Nat, NEW b \in [1..n -> K], NEW d \in [1..(n + 1) -> K],
         d[1] = k, \A i \in 1..n : d[i + 1] = b[i]
  PROVE  <<k>> \o b = d
<1> DEFINE a == <<k>>
<1>1. a \in Seq(K) /\ Len(a) = 1 /\ a[1] = k
  OBVIOUS
<1>2. b \in Seq(K) /\ Len(b) = n /\ d \in Seq(K) /\ Len(d) = n + 1
  BY FunctionIsSeq
<1> DEFINE ab == a \o b
<1> HIDE DEF a
<1>3. /\ ab \in Seq(K) /\ Len(ab) = Len(a) + Len(b)
      /\ \A i \in 1..(Len(a) + Len(b)) : ab[i] = IF i <= Len(a) THEN a[i] ELSE b[i - Len(a)]
  BY <1>1, <1>2, ConcatProperties
<1> HIDE DEF ab
<1>4. ASSUME NEW i \in 1..(n + 1) PROVE ab[i] = d[i]
  <2>1. i \in 1..(1 + n)
    OBVIOUS
  <2>2. CASE i = 1
    BY <2>1, <2>2, <1>1, <1>2, <1>3
  <2>3. CASE i # 1
    <3>1. i - 1 \in 1..n /\ (i - 1) + 1 = i
      BY <2>3
    <3>2. ab[i] = b[i - 1]
      BY <2>1, <2>3, <1>1, <1>2, <1>3
    <3> QED BY <3>1, <3>2
  <2> QED BY <2>2, <2>3
<1>5. Len(ab) = Len(d)
  BY <1>1, <1>2, <1>3
<1>6. ab = d
  BY <1>2, <1>3, <1>4, <1>5, SeqEqual
<1> QED BY <1>6 DEF a, ab

(* Room made in a full cache shortens the list by its last cell.              *)
LEMMA MakeRoomTrims ==
  ASSUME Inv, NEW s \in [1..size -> Cells], Spells(List, s, size),
         live = {s[i] : i \in 1..size}
  PROVE  LET r == MakeRoom
         IN  /\ r.size = IF size = Capacity THEN size - 1 ELSE size
             /\ [i \in 1..r.size |-> s[i]] \in [1..r.size -> Cells]
             /\ Spells(r.list, [i \in 1..r.size |-> s[i]], r.size)
             /\ \A i \in 1..r.size : s[i] \in r.live
<1> DEFINE r == MakeRoom
<1>1. List \in ListType /\ size \in Nat /\ size <= Capacity
  BY ListTyped DEF Inv, TypeOK, Bounded
<1>2. CASE size = Capacity
  <2>1. size \in 1..size /\ tail = s[size] /\ tail \in Cells /\ tail # Null
    BY <1>1, <1>2, CapacityAssumption, NullAssumption DEF Spells, List
  <2>2. /\ r.list = Unlink(List, tail) /\ r.size = size - 1 /\ r.live = live \ {tail}
    BY <1>1, <1>2, <2>1, CapacityAssumption DEF MakeRoom
  <2> HIDE DEF r
  <2>3. Without(s, size, size) = [i \in 1..r.size |-> s[i]]
    BY <1>1, <2>2 DEF Without
  <2>4. /\ Without(s, size, size) \in [1..(size - 1) -> Cells]
        /\ Spells(Unlink(List, s[size]), Without(s, size, size), size - 1)
    BY <1>1, <2>1, UnlinkSpells
  <2>5. \A i \in 1..(size - 1) : s[i] # s[size]
    BY <1>1, <2>1 DEF Spells
  <2>6. \A i \in 1..r.size : s[i] \in r.live
    BY <1>1, <2>1, <2>2, <2>5
  <2> QED BY <1>2, <2>1, <2>2, <2>3, <2>4, <2>6 DEF r
<1>3. CASE size # Capacity
  <2>1. r.size = size /\ r.list = List /\ r.live = live
    BY <1>1, <1>3, CapacityAssumption DEF MakeRoom, Whole
  <2> HIDE DEF r
  <2>2. [i \in 1..r.size |-> s[i]] = s
    BY <2>1
  <2> QED BY <1>3, <2>1, <2>2 DEF r
<1> QED BY <1>2, <1>3

(* What CHOOSE gives for a chain over the cells is one.                       *)
LEMMA ChainIs ==
  ASSUME NEW nx \in [Cells -> Pointers], NEW ks,
         NEW f, f = CHOOSE g : Chained(g, Pointers, Null, nx, ks)
  PROVE  Chained(f, Pointers, Null, nx, ks)
<1>1. Null \in Pointers /\ Pointers \ {Null} = Cells
  BY NullAssumption DEF Pointers
<1>2. \E g : Chained(g, Pointers, Null, nx, ks)
  BY <1>1, ChainDefined
<1> QED BY <1>2

(* From h on, nx leads along the m cells of s and ends; ks has a key for each *)
(* of them; the sequence of these keys.                                       *)
Leads(nx, h, s, m) ==
  /\ h = IF m = 0 THEN Null ELSE s[1]
  /\ \A i \in 1..m : nx[s[i]] = IF i = m THEN Null ELSE s[i + 1]
Mapped(ks, s, m) == [i \in 1..m |-> ks[s[i]]]
Filed(ks, s, m) == \A i \in 1..m : ks[s[i]] \in Keys

(* Walked from its head on, a list says what ks has for the cells it spells.  *)
LEMMA ChainSpells ==
  ASSUME NEW m \in Nat, NEW s \in [1..m -> Cells],
         NEW nx, NEW h, Leads(nx, h, s, m), NEW ks, Filed(ks, s, m),
         NEW f, Chained(f, Pointers, Null, nx, ks)
  PROVE  f[m][h] = Mapped(ks, s, m)
<1>1. /\ Null \in Pointers /\ \A c \in Cells : c \in Pointers \ {Null}
  BY NullAssumption DEF Pointers
<1>2. /\ \A c \in Pointers : f[0][c] = <<>>
      /\ \A n \in Nat, c \in Pointers \ {Null} : f[n + 1][c] = <<ks[c]>> \o f[n][nx[c]]
  <2>1. Unfolded(f, Pointers, Null, nx, ks)
    BY <1>1, ChainUnfolds
  <2> QED BY <2>1 DEF Unfolded
<1> DEFINE At(n) == IF n = 0 THEN Null ELSE s[m - n + 1]
           Last(n) == [i \in 1..n |-> ks[s[m - n + i]]]
           T == {n \in Nat : n <= m => f[n][At(n)] = Last(n)}
<1>3. 0 \in T
  BY <1>1, <1>2
<1>4. ASSUME NEW n \in T, n + 1 <= m PROVE f[n + 1][At(n + 1)] = Last(n + 1)
  <2> DEFINE c == s[m - n]
  <2>1. n \in Nat /\ m - n \in 1..m /\ c \in Cells
    BY <1>4
  <2>2. At(n + 1) = c /\ nx[c] = At(n)
    BY <2>1 DEF Leads
  <2>3. f[n + 1][c] = <<ks[c]>> \o f[n][At(n)]
    <3> HIDE DEF c, At, Last
    <3> QED BY <1>1, <1>2, <2>1, <2>2, Zenon
  <2>4. f[n][At(n)] = Last(n)
    BY <1>4, <2>1
  <2>5. Last(n) \in [1..n -> Keys] /\ Last(n + 1) \in [1..(n + 1) -> Keys] /\ ks[c] \in Keys
    BY <1>4, <2>1 DEF Filed
  <2>6. /\ Last(n + 1)[1] = ks[c]
        /\ \A i \in 1..n : Last(n + 1)[i + 1] = Last(n)[i]
    BY <2>1
  <2>7. <<ks[c]>> \o Last(n) = Last(n + 1)
    <3> HIDE DEF c, Last
    <3> QED BY <2>1, <2>5, <2>6, PutBefore
  <2> HIDE DEF At, Last
  <2> QED BY <2>2, <2>3, <2>4, <2>7
<1>5. T = Nat
  <2>1. ASSUME NEW n \in T PROVE n + 1 \in T
    <3> HIDE DEF At, Last
    <3>1. n + 1 \in Nat
      OBVIOUS
    <3> QED BY <3>1, <1>4
  <2> HIDE DEF T
  <2> QED BY <1>3, <2>1, NatSetInduction DEF T
<1>6. f[m][At(m)] = Last(m)
  <2> HIDE DEF At, Last
  <2> QED BY <1>5
<1>7. At(m) = h
  BY DEF Leads
<1>8. Last(m) = Mapped(ks, s, m)
  BY DEF Mapped
<1> QED BY <1>6, <1>7, <1>8

(* The sequence operators of IconLru, as the functions used here.             *)
LEMMA RemoveAtIs ==
  ASSUME NEW K, NEW m \in Nat, NEW x \in [1..m -> K], NEW p \in 1..m
  PROVE  Lru!RemoveAt(x, p) = Without(x, p, m)
<1> DEFINE a == SubSeq(x, 1, p - 1)
           b == SubSeq(x, p + 1, m)
           w == Without(x, p, m)
<1>1. x \in Seq(K) /\ Len(x) = m /\ p \in Int /\ p - 1 \in Int /\ p + 1 \in Int /\ m \in Int
  BY FunctionIsSeq
<1>2. w \in [1..(m - 1) -> K] /\ m - 1 \in Nat
  BY DEF Without
<1>3. w \in Seq(K) /\ Len(w) = m - 1
  BY <1>2, FunctionIsSeq
<1>4. /\ a \in Seq(K) /\ Len(a) = p - 1
      /\ \A i \in 1..(p - 1) : a[i] = x[i]
  <2>1. \A i \in 1..(p - 1) : x[i] \in K
    OBVIOUS
  <2>2. /\ a \in Seq(K) /\ Len(a) = IF 1 <= p - 1 THEN (p - 1) - 1 + 1 ELSE 0
        /\ \A i \in 1..((p - 1) - 1 + 1) : a[i] = x[1 + i - 1]
    BY <1>1, <2>1, SubSeqProperties
  <2> HIDE DEF a
  <2> QED BY <2>2
<1>5. /\ b \in Seq(K) /\ Len(b) = m - p
      /\ \A i \in 1..(m - p) : b[i] = x[p + i]
  <2>1. \A i \in (p + 1)..m : x[i] \in K
    OBVIOUS
  <2>2. /\ b \in Seq(K) /\ Len(b) = IF p + 1 <= m THEN m - (p + 1) + 1 ELSE 0
        /\ \A i \in 1..(m - (p + 1) + 1) : b[i] = x[(p + 1) + i - 1]
    BY <1>1, <2>1, SubSeqProperties
  <2> HIDE DEF b
  <2> QED BY <2>2
<1> HIDE DEF a, b
<1> DEFINE ab == a \o b
<1>6. /\ ab \in Seq(K) /\ Len(ab) = Len(a) + Len(b)
      /\ \A i \in 1..(Len(a) + Len(b)) : ab[i] = IF i <= Len(a) THEN a[i] ELSE b[i - Len(a)]
  BY <1>4, <1>5, ConcatProperties
<1> HIDE DEF ab
<1>7. ASSUME NEW i \in 1..(m - 1) PROVE ab[i] = w[i]
  <2>1. i \in 1..(Len(a) + Len(b)) /\ Len(a) = p - 1
    BY <1>4, <1>5
  <2>2. CASE i < p
    <3>1. w[i] = x[i] /\ i \in 1..(p - 1)
      BY <2>2 DEF Without
    <3> HIDE DEF w
    <3> QED BY <2>1, <3>1, <1>4, <1>6
  <2>3. CASE i >= p
    <3>1. w[i] = x[i + 1] /\ i - (p - 1) \in 1..(m - p) /\ p + (i - (p - 1)) = i + 1
      BY <2>3 DEF Without
    <3>2. ab[i] = b[i - (p - 1)]
      BY <2>1, <2>3, <1>6
    <3> HIDE DEF w
    <3> QED BY <3>1, <3>2, <1>5
  <2> QED BY <2>2, <2>3
<1>8. Len(ab) = m - 1
  BY <1>4, <1>5, <1>6
<1> HIDE DEF w
<1>9. ab = w
  BY <1>3, <1>6, <1>7, <1>8, SeqEqual
<1> QED BY <1>1, <1>9 DEF ab, a, b, w, Lru!RemoveAt

Shortened(x, n) == [i \in 1..n |-> x[i]]

LEMMA FrontIs ==
  ASSUME NEW K, NEW m \in Nat \ {0}, NEW x \in [1..m -> K]
  PROVE  Lru!Front(x) = Shortened(x, m - 1)
<1> DEFINE a == SubSeq(x, 1, m - 1)
           b == [i \in 1..(m - 1) |-> x[i]]
<1>1. Len(x) = m /\ m - 1 \in Int /\ m - 1 \in Nat
  BY FunctionIsSeq
<1>2. b \in [1..(m - 1) -> K]
  OBVIOUS
<1>3. b \in Seq(K) /\ Len(b) = m - 1 /\ \A i \in 1..(m - 1) : b[i] = x[i]
  <2>1. \A i \in 1..(m - 1) : b[i] = x[i]
    OBVIOUS
  <2> HIDE DEF b
  <2> QED BY <1>1, <1>2, <2>1, FunctionIsSeq
<1>4. \A i \in 1..(m - 1) : x[i] \in K
  OBVIOUS
<1>5. /\ a \in Seq(K) /\ Len(a) = IF 1 <= m - 1 THEN (m - 1) - 1 + 1 ELSE 0
      /\ \A i \in 1..((m - 1) - 1 + 1) : a[i] = x[1 + i - 1]
  BY <1>1, <1>4, SubSeqProperties
<1> HIDE DEF a, b
<1>6. Len(a) = Len(b) /\ \A i \in 1..Len(a) : a[i] = b[i]
  BY <1>1, <1>3, <1>5
<1>7. a = b
  BY <1>3, <1>5, <1>6, SeqEqual
<1> QED BY <1>1, <1>7 DEF a, b, Lru!Front, Shortened

(* The same for the chain that CHOOSE gives.                                  *)
LEMMA WalkOf ==
  ASSUME NEW nx \in [Cells -> Pointers], NEW m \in Nat, NEW s \in [1..m -> Cells],
         NEW h, Leads(nx, h, s, m), NEW ks, Filed(ks, s, m),
         NEW f, f = CHOOSE g : Chained(g, Pointers, Null, nx, ks)
  PROVE  f[m][h] = Mapped(ks, s, m)
<1>1. Chained(f, Pointers, Null, nx, ks)
  BY ChainIs
<1> QED BY <1>1, ChainSpells

(* So the walk of the cache says the keys of the cells its list spells, in a  *)
(* state and in the next.                                                     *)
LEMMA WalkSpells ==
  ASSUME TypeOK, NEW s \in [1..size -> Cells], Spells(List, s, size), Filed(key, s, size)
  PROVE  Walk = Mapped(key, s, size)
<1>1. KeysFrom = CHOOSE g : Chained(g, Pointers, Null, next, key)
  BY DEF KeysFrom, Chained
<1>2. next \in [Cells -> Pointers] /\ size \in Nat /\ Leads(next, head, s, size)
  BY DEF TypeOK, Leads, Spells, List
<1> QED BY <1>1, <1>2, WalkOf DEF Walk

LEMMA WalkSpellsNext ==
  ASSUME TypeOK', NEW s \in [1..size' -> Cells], Spells(List', s, size'), Filed(key', s, size')
  PROVE  Walk' = Mapped(key', s, size')
<1>1. KeysFrom' = CHOOSE g : Chained(g, Pointers, Null, next', key')
  BY DEF KeysFrom, Chained
<1>2. next' \in [Cells -> Pointers] /\ size' \in Nat /\ Leads(next', head', s, size')
  BY DEF TypeOK, Leads, Spells, List
<1> QED BY <1>1, <1>2, WalkOf DEF Walk

(* Keys of cells form a sequence of keys; those of no cell, the empty one.    *)
LEMMA MappedTyped ==
  ASSUME NEW m \in Nat, NEW s, NEW ks, Filed(ks, s, m)
  PROVE  Mapped(ks, s, m) \in [1..m -> Keys] /\ Len(Mapped(ks, s, m)) = m
<1>1. Mapped(ks, s, m) \in [1..m -> Keys]
  BY DEF Mapped, Filed
<1> QED BY <1>1, FunctionIsSeq

LEMMA NoneMapped == \A s, ks : Mapped(ks, s, 0) = <<>>
  BY DEF Mapped

(* The keys of a list whose p-th entry was touched, and of one with an entry  *)
(* linked before the others.                                                  *)
LEMMA MovedKeys ==
  ASSUME NEW m \in Nat, NEW s \in [1..m -> Cells], NEW ks, Filed(ks, s, m), NEW p \in 1..m
  PROVE  LET w == Mapped(ks, s, m)
         IN  Mapped(ks, Moved(s, p, m), m) = <<w[p]>> \o Lru!RemoveAt(w, p)
<1> DEFINE w == Mapped(ks, s, m)
           b == Without(w, p, m)
           d == Mapped(ks, Moved(s, p, m), m)
<1>1. w \in [1..m -> Keys] /\ \A i \in 1..m : w[i] = ks[s[i]]
  BY MappedTyped DEF Mapped
<1>2. d \in [1..m -> Keys] /\ d[1] = w[p] /\ \A i \in 1..(m - 1) : d[i + 1] = b[i]
  <2>1. ASSUME NEW i \in 1..m
        PROVE  d[i] = IF i = 1 THEN w[p] ELSE IF i - 1 < p THEN w[i - 1] ELSE w[i]
    BY <1>1 DEF Mapped, Moved, Before, Without
  <2>2. d = [i \in 1..m |-> d[i]]
    BY DEF Mapped
  <2> HIDE DEF w, d
  <2>3. \A i \in 1..m : d[i] \in Keys
    BY <1>1, <2>1
  <2>4. ASSUME NEW i \in 1..(m - 1) PROVE d[i + 1] = b[i]
    <3>1. i + 1 \in 1..m /\ i + 1 # 1 /\ (i + 1) - 1 = i
      OBVIOUS
    <3>2. d[i + 1] = IF i < p THEN w[i] ELSE w[i + 1]
      BY <3>1, <2>1
    <3> QED BY <3>2 DEF Without
  <2>5. d[1] = w[p]
    BY <2>1
  <2>6. d \in [1..m -> Keys]
    BY <2>2, <2>3
  <2> HIDE DEF b
  <2> QED BY <2>4, <2>5, <2>6
<1>3. b \in [1..(m - 1) -> Keys] /\ m - 1 \in Nat /\ (m - 1) + 1 = m /\ w[p] \in Keys
  BY <1>1 DEF Without
<1>4. <<w[p]>> \o b = d
  <2> HIDE DEF w, b, d
  <2> DEFINE n == m - 1
  <2>1. n \in Nat /\ b \in [1..n -> Keys] /\ d \in [1..(n + 1) -> Keys] /\ w[p] \in Keys
        /\ d[1] = w[p] /\ \A i \in 1..n : d[i + 1] = b[i]
    BY <1>2, <1>3
  <2> HIDE DEF n
  <2> QED BY <2>1, PutBefore
<1>5. Lru!RemoveAt(w, p) = b
  <2> HIDE DEF w
  <2> QED BY <1>1, RemoveAtIs
<1> QED BY <1>4, <1>5

LEMMA BeforeKeys ==
  ASSUME NEW m \in Nat, NEW s \in [1..m -> Cells], NEW e \in Cells, NEW ks, Filed(ks, s, m),
         ks[e] \in Keys
  PROVE  /\ Filed(ks, Before(e, s, m), m + 1)
         /\ Mapped(ks, Before(e, s, m), m + 1) = <<ks[e]>> \o Mapped(ks, s, m)
<1> DEFINE b == Mapped(ks, s, m)
           d == Mapped(ks, Before(e, s, m), m + 1)
<1>1. b \in [1..m -> Keys]
  BY MappedTyped
<1>2. Filed(ks, Before(e, s, m), m + 1)
  BY DEF Filed, Before
<1>3. d \in [1..(m + 1) -> Keys]
  <2>1. m + 1 \in Nat
    OBVIOUS
  <2> QED BY <1>2, <2>1, MappedTyped
<1>4. d[1] = ks[e] /\ \A i \in 1..m : d[i + 1] = b[i]
  BY DEF Mapped, Before
<1> HIDE DEF b, d
<1>5. <<ks[e]>> \o b = d
  BY <1>1, <1>3, <1>4, PutBefore
<1> QED BY <1>2, <1>5 DEF b, d

(* What is so of the list in every state that the invariant admits.           *)
LEMMA ListWalked ==
  ASSUME Inv
  PROVE  \E s \in [1..size -> Cells] :
           /\ Spells(List, s, size) /\ live = {s[i] : i \in 1..size}
           /\ Filed(key, s, size) /\ Walk = Mapped(key, s, size)
<1>1. PICK s \in [1..size -> Cells] : Spells(List, s, size) /\ live = {s[i] : i \in 1..size}
  BY DEF Inv, ListIntact
<1>2. Filed(key, s, size)
  BY <1>1 DEF Inv, MapAgrees, Filed
<1> QED BY <1>1, <1>2, WalkSpells DEF Inv

(* A step that leaves the list and its keys alone leaves the walk alone.      *)
LEMMA SameWalk ==
  ASSUME Inv, Inv', UNCHANGED <<head, tail, prev, next, size, key>>
  PROVE  Walk' = Walk
<1>1. PICK s \in [1..size -> Cells] :
        Spells(List, s, size) /\ Filed(key, s, size) /\ Walk = Mapped(key, s, size)
  BY ListWalked
<1>2. List' = List /\ size' = size /\ key' = key /\ TypeOK'
  BY DEF List, Inv
<1>3. Walk' = Mapped(key', s, size')
  BY <1>1, <1>2, WalkSpellsNext
<1> QED BY <1>1, <1>2, <1>3

(* A hit makes the key it found the most recent one.                          *)
LEMMA HitUses ==
  ASSUME Inv, Inv', NEW n \in Names, GetHit(n)
  PROVE  \E i \in 1..Len(Walk) : Lru!Use(i)
<1> DEFINE e == map[Norm[n]]
<1>1. /\ e \in live /\ key[e] = Norm[n] /\ surface[e] # NoIcon /\ Norm[surface[e]] = key[e]
      /\ size \in Nat /\ List \in ListType
  BY NormAssumption, IconAssumption, ListTyped
     DEF Inv, TypeOK, MapAgrees, SurfacesAccounted, SurfacesMatchKeys, GetHit
<1>2. PICK s \in [1..size -> Cells] :
        /\ Spells(List, s, size) /\ live = {s[i] : i \in 1..size}
        /\ Filed(key, s, size) /\ Walk = Mapped(key, s, size)
  BY ListWalked
<1>3. PICK p \in 1..size : e = s[p]
  BY <1>1, <1>2
<1>4. /\ Touch(List, s[p]) \in ListType /\ Moved(s, p, size) \in [1..size -> Cells]
      /\ Spells(Touch(List, s[p]), Moved(s, p, size), size)
  <2> DEFINE l == List
             m == size
  <2>1. l \in ListType /\ m \in Nat /\ s \in [1..m -> Cells] /\ p \in 1..m /\ Spells(l, s, m)
    BY <1>1, <1>2
  <2> HIDE DEF l, m
  <2>2. /\ Touch(l, s[p]) \in ListType /\ Moved(s, p, m) \in [1..m -> Cells]
        /\ Spells(Touch(l, s[p]), Moved(s, p, m), m)
    BY <2>1, TouchMoves
  <2> QED BY <2>2 DEF l, m
<1>5. List' = Touch(List, s[p]) /\ size' = size /\ key' = key /\ TypeOK'
  BY <1>3, <1>4 DEF GetHit, SetList, List, ListType, Inv
<1>6. Filed(key, Moved(s, p, size), size)
  BY <1>1, <1>2 DEF Filed, Moved, Before, Without
<1>7. Walk' = Mapped(key, Moved(s, p, size), size)
  BY <1>4, <1>5, <1>6, WalkSpellsNext
<1>8. Walk' = <<Walk[p]>> \o Lru!RemoveAt(Walk, p)
  BY <1>1, <1>2, <1>7, MovedKeys
<1>9. Walk[p] = key[e] /\ Len(Walk) = size
  BY <1>1, <1>2, <1>3, MappedTyped DEF Mapped
<1>10. Answer' = Walk[p]
  BY <1>1, <1>9 DEF GetHit, Returns, Answer
<1> QED BY <1>8, <1>9, <1>10 DEF Lru!Use

(* A name without a key or without a file leaves the cache as it is.          *)
LEMMA NothingRefuses ==
  ASSUME Inv, Inv', NEW n \in Names, GetNothing(n)
  PROVE  Lru!Refuse
<1>1. Walk' = Walk
  BY SameWalk DEF GetNothing
<1>2. Answer' = NoKey
  BY DEF GetNothing, Returns, Answer
<1> QED BY <1>1, <1>2 DEF Lru!Refuse

(* The walk of the cache once room is made.                                   *)
Trimmed == IF Len(Walk) = Capacity THEN Lru!Front(Walk) ELSE Walk

(* Making room gives up the key at the end of the walk, of a full cache only. *)
LEMMA MakeRoomWalks ==
  ASSUME Inv, NEW s \in [1..size -> Cells], Spells(List, s, size),
         live = {s[i] : i \in 1..size}, Filed(key, s, size), Walk = Mapped(key, s, size)
  PROVE  Mapped(key, [i \in 1..MakeRoom.size |-> s[i]], MakeRoom.size) = Trimmed
<1> DEFINE k == MakeRoom.size
           t == [i \in 1..k |-> s[i]]
<1>1. size \in Nat
  BY DEF Inv, TypeOK
<1>2. k = IF size = Capacity THEN size - 1 ELSE size
  BY MakeRoomTrims
<1>3. Walk \in [1..size -> Keys] /\ Len(Walk) = size
  BY <1>1, MappedTyped
<1> HIDE DEF k
<1>4. Mapped(key, t, k) = [i \in 1..k |-> Walk[i]]
  <2>1. \A i \in 1..k : i \in 1..size
    BY <1>1, <1>2
  <2>2. \A i \in 1..k : t[i] = s[i] /\ Walk[i] = key[s[i]]
    BY <2>1 DEF Mapped
  <2> HIDE DEF t
  <2> QED BY <2>2 DEF Mapped
<1>5. CASE size = Capacity
  <2>1. size \in Nat \ {0} /\ k = size - 1
    BY <1>1, <1>2, <1>5, CapacityAssumption
  <2>2. Lru!Front(Walk) = [i \in 1..k |-> Walk[i]]
    <3> DEFINE x == Walk
               m == size
    <3>1. m \in Nat \ {0} /\ x \in [1..m -> Keys]
      BY <1>3, <2>1
    <3> HIDE DEF x, m
    <3>2. Lru!Front(x) = Shortened(x, m - 1)
      BY <3>1, FrontIs
    <3> QED BY <2>1, <3>2 DEF x, m, Shortened
  <2> QED BY <1>3, <1>4, <1>5, <2>2 DEF Trimmed, k
<1>6. CASE size # Capacity
  <2>1. Walk = [i \in 1..k |-> Walk[i]]
    BY <1>2, <1>3, <1>6
  <2> QED BY <1>3, <1>4, <1>6, <2>1 DEF Trimmed, k
<1> QED BY <1>5, <1>6

(* A failed allocation answers nothing, after room was made.                  *)
LEMMA NoMemoryRefuses ==
  ASSUME Inv, Inv', NEW n \in Names, GetNoMemory(n)
  PROVE  Lru!Refuse
<1> DEFINE r == MakeRoom
           t(s) == [i \in 1..r.size |-> s[i]]
<1>1. PICK s \in [1..size -> Cells] :
        /\ Spells(List, s, size) /\ live = {s[i] : i \in 1..size}
        /\ Filed(key, s, size) /\ Walk = Mapped(key, s, size)
  BY ListWalked
<1>2. /\ t(s) \in [1..r.size -> Cells] /\ Spells(r.list, t(s), r.size)
      /\ \A i \in 1..r.size : s[i] \in r.live
  BY <1>1, MakeRoomTrims
<1>3. Mapped(key, t(s), r.size) = Trimmed
  BY <1>1, MakeRoomWalks
<1>4. Roomy(r)
  BY MakeRoomGivesRoom
<1>5. /\ SetList(r.list) /\ size' = r.size /\ ForgetFreed(r.live) /\ Answer' = NoKey
  BY DEF GetNoMemory, Returns, Answer
<1> HIDE DEF r
<1>6. List' = r.list
  BY <1>4, <1>5 DEF SetList, List, Roomy, ListType
<1>7. \A e \in r.live : key'[e] = key[e] /\ key[e] \in Keys
  BY <1>4, <1>5, ForgetFreedKeeps DEF Roomy, Inv
<1>8. \A i \in 1..r.size : t(s)[i] = s[i] /\ key'[t(s)[i]] = key[t(s)[i]] /\ key[t(s)[i]] \in Keys
  BY <1>2, <1>7
<1> DEFINE u == t(s)
<1> HIDE DEF u, t
<1>9. Filed(key', u, size') /\ Mapped(key', u, size') = Mapped(key, u, r.size)
  BY <1>5, <1>8 DEF Filed, Mapped, u
<1>10. Walk' = Trimmed
  <2>1. u \in [1..size' -> Cells] /\ Spells(List', u, size') /\ TypeOK'
    BY <1>2, <1>5, <1>6 DEF u, Inv
  <2>2. Walk' = Mapped(key', u, size')
    BY <1>9, <2>1, WalkSpellsNext
  <2> QED BY <1>3, <1>9, <2>2 DEF u
<1> QED BY <1>5, <1>10 DEF Lru!Refuse, Trimmed

(* A miss files the new key before the others.                                *)
LEMMA MissAdmits ==
  ASSUME Inv, Inv', NEW n \in Names, GetMiss(n)
  PROVE  Norm[n] \in Keys /\ Lru!Admit(Norm[n])
<1> DEFINE r == MakeRoom
           t(s) == [i \in 1..r.size |-> s[i]]
<1>1. PICK s \in [1..size -> Cells] :
        /\ Spells(List, s, size) /\ live = {s[i] : i \in 1..size}
        /\ Filed(key, s, size) /\ Walk = Mapped(key, s, size)
  BY ListWalked
<1>2. /\ t(s) \in [1..r.size -> Cells] /\ Spells(r.list, t(s), r.size)
      /\ \A i \in 1..r.size : s[i] \in r.live
  BY <1>1, MakeRoomTrims
<1>3. Mapped(key, t(s), r.size) = Trimmed
  BY <1>1, MakeRoomWalks
<1>4. Roomy(r)
  BY MakeRoomGivesRoom
<1>5. PICK e \in Cells \ r.live :
         /\ SetList(LinkHead(r.list, e)) /\ size' = r.size + 1
         /\ key' = [c \in Cells |-> IF c = e THEN Norm[n]
                                    ELSE IF c \in r.live THEN key[c] ELSE NoKey]
  BY DEF GetMiss
<1>6. Norm[n] \in Keys /\ map[Norm[n]] = Null /\ Answer' = Norm[n]
  BY NormAssumption, IconAssumption DEF GetMiss, Returns, Answer
<1> HIDE DEF r
<1>7. r.size \in Nat /\ r.list \in ListType /\ r.live \subseteq Cells
      /\ \A c \in r.live : key[c] \in Keys
  BY <1>4 DEF Roomy, Inv, TypeOK
<1>8. \A i \in 1..r.size : /\ t(s)[i] = s[i] /\ s[i] # e
                           /\ key'[s[i]] = key[s[i]] /\ key[s[i]] \in Keys
  BY <1>2, <1>5, <1>7
<1> DEFINE u == t(s)
<1> HIDE DEF u, t
<1>9. /\ Filed(key', u, r.size) /\ Mapped(key', u, r.size) = Mapped(key, u, r.size)
      /\ \A i \in 1..r.size : u[i] # e
  BY <1>8 DEF Filed, Mapped, u
<1>10. /\ LinkHead(r.list, e) \in ListType
       /\ Before(e, u, r.size) \in [1..(r.size + 1) -> Cells]
       /\ Spells(LinkHead(r.list, e), Before(e, u, r.size), r.size + 1)
  <2> DEFINE l == r.list
             m == r.size
  <2>1. l \in ListType /\ m \in Nat /\ u \in [1..m -> Cells] /\ Spells(l, u, m)
        /\ e \in Cells /\ \A i \in 1..m : u[i] # e
    BY <1>2, <1>5, <1>7, <1>9 DEF u
  <2> HIDE DEF l, m
  <2>2. /\ LinkHead(l, e) \in ListType
        /\ Before(e, u, m) \in [1..(m + 1) -> Cells]
        /\ Spells(LinkHead(l, e), Before(e, u, m), m + 1)
    BY <2>1, LinkHeadSpells
  <2> QED BY <2>2 DEF l, m
<1>11. List' = LinkHead(r.list, e)
  BY <1>5, <1>10 DEF SetList, List, ListType
<1>12. key'[e] = Norm[n]
  BY <1>5
<1>13. /\ Filed(key', Before(e, u, r.size), r.size + 1)
       /\ Mapped(key', Before(e, u, r.size), r.size + 1) = <<Norm[n]>> \o Trimmed
  <2> DEFINE ks == key'
             m == r.size
  <2>1. m \in Nat /\ u \in [1..m -> Cells] /\ e \in Cells /\ Filed(ks, u, m)
        /\ ks[e] \in Keys /\ ks[e] = Norm[n] /\ Mapped(ks, u, m) = Trimmed
    BY <1>2, <1>3, <1>5, <1>6, <1>7, <1>9, <1>12 DEF u
  <2> HIDE DEF ks, m
  <2>2. /\ Filed(ks, Before(e, u, m), m + 1)
        /\ Mapped(ks, Before(e, u, m), m + 1) = <<ks[e]>> \o Mapped(ks, u, m)
    BY <2>1, BeforeKeys
  <2> QED BY <2>1, <2>2 DEF ks, m
<1>14. Walk' = <<Norm[n]>> \o Trimmed
  <2> DEFINE v == Before(e, u, r.size)
  <2>1. v \in [1..size' -> Cells] /\ Spells(List', v, size') /\ TypeOK' /\ Filed(key', v, size')
        /\ Mapped(key', v, size') = <<Norm[n]>> \o Trimmed
    BY <1>5, <1>10, <1>11, <1>13 DEF Inv
  <2> HIDE DEF v
  <2> QED BY <2>1, WalkSpellsNext
<1>15. ~ Lru!Contains(Walk, Norm[n])
  <2>1. size \in Nat /\ Len(Walk) = size /\ \A i \in 1..size : Walk[i] = key[s[i]]
    BY <1>1, MappedTyped DEF Inv, TypeOK, Mapped
  <2>2. \A c \in live : key[c] # Norm[n]
    BY <1>6, NullAssumption DEF Inv, TypeOK, MapAgrees
  <2>3. \A i \in 1..Len(Walk) : Walk[i] # Norm[n]
    BY <1>1, <2>1, <2>2
  <2> QED BY <2>3 DEF Lru!Contains
<1> QED BY <1>6, <1>14, <1>15 DEF Lru!Admit, Trimmed

(* Clearing the cache empties the walk.                                       *)
LEMMA ClearClears ==
  ASSUME Inv, Inv', Clear
  PROVE  Lru!Clear
<1>1. PICK s \in [1..size' -> Cells] : Spells(List', s, size')
  BY DEF Inv, ListIntact
<1>2. size' = 0 /\ TypeOK'
  BY DEF Clear, Inv
<1>3. Filed(key', s, size')
  BY <1>2 DEF Filed
<1>4. Walk' = <<>>
  <2>1. Walk' = Mapped(key', s, size')
    BY <1>1, <1>2, <1>3, WalkSpellsNext
  <2>2. Mapped(key', s, 0) = <<>>
    BY NoneMapped, Zenon
  <2> QED BY <1>2, <2>1, <2>2, Zenon
<1>5. Answer' = Answer
  BY DEF Clear, Answer
<1> QED BY <1>4, <1>5 DEF Lru!Clear

(* The walk of the cache is empty at first.                                   *)
LEMMA InitWalks == Init /\ Inv => Lru!Init
<1> SUFFICES ASSUME Init, Inv PROVE Lru!Init
  OBVIOUS
<1>1. PICK s \in [1..size -> Cells] : Walk = Mapped(key, s, size)
  BY ListWalked
<1>2. Walk = <<>> /\ Answer = NoKey
  BY <1>1, NoneMapped DEF Init, Answer
<1> QED BY <1>2 DEF Lru!Init

(* The dock's cache implements the bounded, least-recently-used cache, for any *)
(* capacity and any set of names (icon_entry_touch, the eviction in           *)
(* nizam_dock_icon_cache_get): each step is one of IconLru's or leaves its    *)
(* variables alone.                                                           *)
THEOREM ImplementsLru == Spec => LruSpec
<1>1. Init => Lru!Init
  BY InitInv, InitWalks
<1>2. Inv /\ Inv' /\ [Next]_vars => [Lru!Next]_<<Walk, Answer>>
  <2> SUFFICES ASSUME Inv, Inv', [Next]_vars PROVE [Lru!Next]_<<Walk, Answer>>
    OBVIOUS
  <2>1. CASE \E n \in Names : GetNothing(n)
    <3>1. Lru!Refuse
      BY <2>1, NothingRefuses
    <3> QED BY <3>1 DEF Lru!Next
  <2>2. CASE \E n \in Names : GetHit(n)
    <3>1. \E i \in 1..Len(Walk) : Lru!Use(i)
      BY <2>2, HitUses
    <3> QED BY <3>1 DEF Lru!Next
  <2>3. CASE \E n \in Names : GetNoMemory(n)
    <3>1. Lru!Refuse
      BY <2>3, NoMemoryRefuses
    <3> QED BY <3>1 DEF Lru!Next
  <2>4. CASE \E n \in Names : GetMiss(n)
    <3>1. \E k \in Keys : Lru!Admit(k)
      BY <2>4, MissAdmits
    <3> QED BY <3>1 DEF Lru!Next
  <2>5. CASE Clear
    <3>1. Lru!Clear
      BY <2>5, ClearClears
    <3> QED BY <3>1 DEF Lru!Next
  <2>6. CASE UNCHANGED vars
    <3>1. UNCHANGED <<head, tail, prev, next, size, key>> /\ Answer' = Answer
      BY <2>6 DEF vars, Answer
    <3>2. Walk' = Walk
      BY <3>1, SameWalk
    <3> QED BY <3>1, <3>2
  <2> QED BY <2>1, <2>2, <2>3, <2>4, <2>5, <2>6 DEF Next
<1> QED BY <1>1, <1>2, Invariance, PTL DEF Spec, LruSpec, Lru!Spec
================================================================================
