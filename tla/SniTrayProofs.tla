----------------------------- MODULE SniTrayProofs -----------------------------
(****************************************************************************)
(* Proofs about the dock's tray for any number of applications, names and   *)
(* messages: the types, one item for a service, clicks that reach their     *)
(* item, that no item of a live application is taken away, and that none    *)
(* is left of an application that has gone.                                 *)
(****************************************************************************)
EXTENDS SniTray, FiniteSetTheorems, SequenceTheorems,
        WellFoundedInduction, TLAPS

Item == [service : Services, owner : Clients, icon : BOOLEAN]

(* The news of a name lost is never about a client that is live: on the bus, *)
(* and having lost no name while it was there.                               *)
LossesTrue(q, live) ==
  \A k \in 1..Len(q) : q[k].kind = "changed" /\ NameLost(q[k]) => q[k].old \notin live

(* What is still to be handled, and a picture that is due only in a turn.    *)
LossesPending == LossesTrue(wire, up \ lost) /\ LossesTrue(inbox, up \ lost)
QuietAtPoll == pc = "poll" => ~redraw

IInv == TypeOK /\ UniqueServices /\ PictureMatches /\ MenuOfItem
        /\ LossesPending /\ QuietAtPoll

--------------------------------------------------------------------------------
(* The search for an item. *)

LEMMA LeastIsThere ==
  ASSUME NEW S, S \subseteq Nat, S # {}
  PROVE  Min(S) \in S /\ \A x \in S : Min(S) <= x
<1> DEFINE Below == {0..k : k \in S}
           R == StrictSubsetOrdering(Nat)
<1>1. Below \subseteq FiniteSubsetsOf(Nat)
  <2> SUFFICES ASSUME NEW k \in S PROVE 0..k \in FiniteSubsetsOf(Nat)
    OBVIOUS
  <2>1. k \in Int /\ 0 \in Int /\ 0..k \subseteq Nat
    OBVIOUS
  <2>2. IsFiniteSet(0..k)
    BY <2>1, FS_Interval
  <2> QED BY <2>1, <2>2 DEF FiniteSubsetsOf
<1>2. Below # {}
  OBVIOUS
<1>3. IsWellFoundedOn(R, FiniteSubsetsOf(Nat))
  BY FS_StrictSubsetOrderingWellFounded
<1> HIDE DEF R
<1>4. \E x \in Below : \A y \in Below : <<y, x>> \notin R
  <2> HIDE DEF Below
  <2> QED BY <1>1, <1>2, <1>3, WFMin
<1>5. PICK m \in S : \A k \in S : <<0..k, 0..m>> \notin R
  BY <1>4
<1>6. \A k \in S : m <= k
  <2> SUFFICES ASSUME NEW k \in S, k < m PROVE FALSE
    OBVIOUS
  <2>1. k \in Nat /\ m \in Nat
    OBVIOUS
  <2>2. 0..k \subseteq 0..m /\ m \in 0..m /\ m \notin 0..k
    BY <2>1
  <2>3. <<0..k, 0..m>> \in R
    BY <2>1, <2>2 DEF R, StrictSubsetOrdering
  <2> QED BY <1>5, <2>3
<1> QED BY <1>6 DEF Min

(* The first item with a service is found when there is one. *)
LEMMA FoundByService ==
  ASSUME items \in Seq(Item), NEW s
  PROVE  /\ FindByService(s) \in 0..Len(items)
         /\ FindByService(s) = 0 => \A j \in DOMAIN items : items[j].service # s
         /\ FindByService(s) # 0 => items[FindByService(s)].service = s
<1> DEFINE at == {j \in 1..Len(items) : items[j].service = s}
<1>1. FindByService(s) = IF at # {} THEN Min(at) ELSE 0
  BY DEF FindByService, SelectInSeq
<1>2. at \subseteq Nat /\ Len(items) \in Nat /\ DOMAIN items = 1..Len(items)
  OBVIOUS
<1>3. CASE at = {}
  BY <1>1, <1>2, <1>3
<1>4. CASE at # {}
  <2>1. Min(at) \in at
    BY <1>2, <1>4, LeastIsThere
  <2> QED BY <1>1, <1>2, <1>4, <2>1
<1> QED BY <1>3, <1>4

LEMMA FoundByOwner ==
  ASSUME items \in Seq(Item), NEW c
  PROVE  /\ FindByOwner(c) \in 0..Len(items)
         /\ FindByOwner(c) = 0 => \A j \in 1..Len(items) : items[j].owner # c
         /\ FindByOwner(c) # 0 => items[FindByOwner(c)].owner = c
<1> DEFINE at == {j \in 1..Len(items) : items[j].owner = c}
<1>1. FindByOwner(c) = IF at # {} THEN Min(at) ELSE 0
  BY DEF FindByOwner, SelectInSeq
<1>2. at \subseteq Nat /\ Len(items) \in Nat
  OBVIOUS
<1>3. CASE at = {}
  BY <1>1, <1>2, <1>3
<1>4. CASE at # {}
  <2>1. Min(at) \in at
    BY <1>2, <1>4, LeastIsThere
  <2> QED BY <1>1, <1>2, <1>4, <2>1
<1> QED BY <1>3, <1>4

(* WithoutItem: the item is gone, the others are all there. *)
LEMMA WithoutIsThere ==
  ASSUME items \in Seq(Item), NEW i \in 1..Len(items)
  PROVE  /\ WithoutItem(i) \in Seq(Item) /\ Len(WithoutItem(i)) = Len(items) - 1
         /\ \A j \in 1..(Len(items) - 1) :
              WithoutItem(i)[j] = items[IF j = i THEN Len(items) ELSE j]
BY DEF WithoutItem

--------------------------------------------------------------------------------
(* What a message does to the items: none goes and one may come, or one goes. *)

Keeps ==
  /\ items' \in Seq(Item) /\ Len(items) <= Len(items')
  /\ \A j \in 1..Len(items) : items'[j].service = items[j].service
  /\ \A j, k \in 1..Len(items') :
       j > Len(items) /\ items'[j].service = items'[k].service => j = k
  /\ redraw' \in BOOLEAN
  /\ ~redraw' => /\ ~redraw
                 /\ \A j \in 1..Len(items') :
                      items'[j].icon => j <= Len(items) /\ items[j].icon
  /\ strayed' = strayed

Removes ==
  \E i \in 1..Len(items) :
    /\ items' = WithoutItem(i) /\ redraw' = TRUE /\ items[i].owner \notin up \ lost
    /\ strayed' = (strayed \/ MovesMenuItem(i))

LEMMA RefreshedIsItem ==
  ASSUME NEW it \in Item, NEW found \in BOOLEAN
  PROVE  /\ Refreshed(it, found) \in Item /\ Refreshed(it, found).service = it.service
         /\ ~found => Refreshed(it, found).icon = it.icon
BY DEF Refreshed, Item

LEMMA OwnerIsClient ==
  ASSUME ownerOf \in [Names -> Clients \union {None}],
         NEW s \in Services, NEW c \in Clients
  PROVE  GetOwner(s, c) \in Clients
BY DEF GetOwner, Services

(* One item is refreshed and the others stay as they are. *)
LEMMA SameItemsKeep ==
  ASSUME items \in Seq(Item), redraw \in BOOLEAN, NEW i \in 1..Len(items),
         NEW it \in Item, NEW found \in BOOLEAN,
         it.service = items[i].service, ~found => it.icon = items[i].icon,
         items' \in Seq(Item), Len(items') = Len(items), items'[i] = it,
         \A j \in 1..Len(items) : j # i => items'[j] = items[j],
         redraw' = (redraw \/ found), strayed' = strayed
  PROVE  Keeps
<1>1. \A j \in 1..Len(items) : items'[j].service = items[j].service
  OBVIOUS
<1>2. redraw' \in BOOLEAN /\ (~redraw' => ~redraw /\ ~found)
  OBVIOUS
<1>3. ~found => \A j \in 1..Len(items) : items'[j].icon = items[j].icon
  OBVIOUS
<1> QED BY <1>1, <1>2, <1>3 DEF Keeps

LEMMA RegisterKeeps ==
  ASSUME TypeOK, NEW m \in Message, Register(m)
  PROVE  Keeps
<1> DEFINE i == FindByService(m.service)
           owner == GetOwner(m.service, m.sender)
           new == [service |-> m.service, owner |-> owner, icon |-> FALSE]
<1>1. m.service \in Services /\ m.sender \in Clients
  BY DEF Register, Message
<1>2. items \in Seq(Item) /\ redraw \in BOOLEAN
  BY DEF TypeOK, Item
<1>3. owner \in Clients
  BY <1>1, OwnerIsClient DEF TypeOK
<1>4. /\ i \in 0..Len(items)
      /\ i = 0 => \A j \in 1..Len(items) : items[j].service # m.service
      /\ i # 0 => items[i].service = m.service
  BY <1>2, FoundByService
<1>5. PICK found \in BOOLEAN :
        /\ items' = IF i = 0 THEN Append(items, Refreshed(new, found))
                    ELSE [items EXCEPT ![i] = Refreshed([items[i] EXCEPT !.owner = owner], found)]
        /\ redraw' = (redraw \/ found)
  BY DEF Register
<1>6. strayed' = strayed
  BY DEF Register
<1> HIDE DEF i, owner
<1>7. CASE i = 0
  <2>1. new \in Item
    BY <1>1, <1>3 DEF Item
  <2> DEFINE it == Refreshed(new, found)
  <2>2. it \in Item /\ it.service = m.service /\ (~found => ~it.icon)
    BY <2>1, RefreshedIsItem
  <2>3. items' = Append(items, it)
    BY <1>5, <1>7
  <2> HIDE DEF it
  <2>4. /\ items' \in Seq(Item) /\ Len(items') = Len(items) + 1 /\ items'[Len(items) + 1] = it
        /\ \A j \in 1..Len(items) : items'[j] = items[j]
    BY <1>2, <2>2, <2>3
  <2>5. \A j, k \in 1..Len(items') :
          j > Len(items) /\ items'[j].service = items'[k].service => j = k
    BY <1>2, <1>4, <1>7, <2>2, <2>4
  <2>6. \A j \in 1..Len(items) : items'[j].service = items[j].service
    BY <2>4
  <2>7. redraw' \in BOOLEAN /\ (~redraw' => ~redraw /\ ~it.icon)
    BY <1>5, <2>2
  <2>8. ~it.icon => \A j \in 1..Len(items') :
                      items'[j].icon => j <= Len(items) /\ items[j].icon
    BY <1>2, <2>4
  <2> QED BY <1>2, <1>6, <2>4, <2>5, <2>6, <2>7, <2>8 DEF Keeps
<1>8. CASE i # 0
  <2>1. i \in 1..Len(items) /\ items[i] \in Item
    BY <1>2, <1>4, <1>8
  <2> DEFINE old == [items[i] EXCEPT !.owner = owner]
             it == Refreshed(old, found)
  <2>2. old \in Item /\ old.service = items[i].service /\ old.icon = items[i].icon
    BY <1>3, <2>1 DEF Item
  <2> HIDE DEF old
  <2>3. it \in Item /\ it.service = items[i].service /\ (~found => it.icon = items[i].icon)
    BY <2>2, RefreshedIsItem
  <2>4. items' = [items EXCEPT ![i] = it]
    BY <1>5, <1>8 DEF old
  <2> HIDE DEF it
  <2>5. /\ items' \in Seq(Item) /\ Len(items') = Len(items) /\ items'[i] = it
        /\ \A j \in 1..Len(items) : j # i => items'[j] = items[j]
    BY <1>2, <2>1, <2>3, <2>4
  <2> QED BY <1>2, <1>5, <1>6, <2>1, <2>3, <2>5, SameItemsKeep
<1> QED BY <1>7, <1>8

LEMMA IconSignalKeeps ==
  ASSUME TypeOK, NEW m \in Message, IconSignal(m)
  PROVE  Keeps
<1> DEFINE i == FindByOwner(m.sender)
<1>1. items \in Seq(Item) /\ redraw \in BOOLEAN
  BY DEF TypeOK, Item
<1>2. i \in 0..Len(items)
  BY <1>1, FoundByOwner
<1>3. strayed' = strayed
  BY DEF IconSignal
<1>4. CASE i = 0
  <2>1. items' = items /\ redraw' = redraw
    BY <1>4 DEF IconSignal
  <2> QED BY <1>1, <1>3, <2>1 DEF Keeps
<1>5. CASE i # 0
  <2>1. PICK found \in BOOLEAN : /\ items' = [items EXCEPT ![i] = Refreshed(items[i], found)]
                                 /\ redraw' = (redraw \/ found)
    BY <1>5 DEF IconSignal
  <2>2. i \in 1..Len(items) /\ items[i] \in Item
    BY <1>1, <1>2, <1>5
  <2> HIDE DEF i
  <2> DEFINE it == Refreshed(items[i], found)
  <2>3. it \in Item /\ it.service = items[i].service /\ (~found => it.icon = items[i].icon)
    BY <2>2, RefreshedIsItem
  <2> HIDE DEF it
  <2>4. /\ items' \in Seq(Item) /\ Len(items') = Len(items) /\ items'[i] = it
        /\ \A j \in 1..Len(items) : j # i => items'[j] = items[j]
    BY <1>1, <2>1, <2>2, <2>3 DEF it
  <2> QED BY <1>1, <1>3, <2>1, <2>2, <2>3, <2>4, SameItemsKeep
<1> QED BY <1>4, <1>5

LEMMA OwnerSignalKeepsOrRemoves ==
  ASSUME TypeOK, NEW m \in Message, OwnerSignal(m),
         m.kind = "changed" /\ NameLost(m) => m.old \notin up \ lost
  PROVE  Keeps \/ Removes
<1> DEFINE i == FindByOwner(m.old)
<1>1. items \in Seq(Item) /\ redraw \in BOOLEAN
  BY DEF TypeOK, Item
<1>2. i \in 0..Len(items) /\ (i # 0 => items[i].owner = m.old)
  BY <1>1, FoundByOwner
<1>3. CASE NameLost(m) /\ i # 0
  <2>1. items' = WithoutItem(i) /\ redraw' = TRUE /\ strayed' = (strayed \/ MovesMenuItem(i))
    BY <1>3 DEF OwnerSignal, RemoveByOwner
  <2>2. items[i].owner \notin up \ lost /\ i \in 1..Len(items)
    BY <1>2, <1>3 DEF OwnerSignal
  <2> HIDE DEF i
  <2> QED BY <2>1, <2>2, Zenon DEF Removes
<1>4. CASE ~(NameLost(m) /\ i # 0)
  <2>1. items' = items /\ redraw' = redraw /\ strayed' = strayed
    BY <1>4 DEF OwnerSignal, RemoveByOwner
  <2> QED BY <1>1, <2>1 DEF Keeps
<1> QED BY <1>3, <1>4

LEMMA DispatchKeepsOrRemoves ==
  ASSUME TypeOK, LossesPending, Dispatch
  PROVE  /\ Keeps \/ Removes
         /\ UNCHANGED <<drawn, menu, pc, bus, lost>>
<1> DEFINE m == Head(inbox)
<1>1. m \in Message /\ m = inbox[1] /\ 1 \in 1..Len(inbox)
  BY DEF TypeOK, Dispatch
<1>2. m.kind = "changed" /\ NameLost(m) => m.old \notin up \ lost
  BY <1>1 DEF LossesPending, LossesTrue
<1>3. Register(m) \/ IconSignal(m) \/ OwnerSignal(m)
  BY DEF Dispatch
<1>4. UNCHANGED <<drawn, menu, pc, bus, lost>>
  BY <1>3 DEF Register, IconSignal, OwnerSignal, Handled
<1> HIDE DEF m
<1> QED BY <1>1, <1>2, <1>3, <1>4, RegisterKeeps, IconSignalKeeps, OwnerSignalKeepsOrRemoves

--------------------------------------------------------------------------------
(* Messages under way. *)

LEMMA LossesConcat ==
  ASSUME NEW p \in Seq(Message), NEW q \in Seq(Message), NEW live,
         LossesTrue(p, live), LossesTrue(q, live)
  PROVE  LossesTrue(p \o q, live)
<1> SUFFICES ASSUME NEW k \in 1..Len(p \o q), (p \o q)[k].kind = "changed",
                    NameLost((p \o q)[k])
             PROVE  (p \o q)[k].old \notin live
  BY DEF LossesTrue
<1>1. CASE k <= Len(p)
  <2>1. k \in 1..Len(p) /\ (p \o q)[k] = p[k]
    BY <1>1
  <2> QED BY <2>1 DEF LossesTrue
<1>2. CASE k > Len(p)
  <2>1. k - Len(p) \in 1..Len(q) /\ (p \o q)[k] = q[k - Len(p)]
    BY <1>2
  <2> QED BY <2>1 DEF LossesTrue
<1> QED BY <1>1, <1>2

LEMMA LossesTail ==
  ASSUME NEW q \in Seq(Message), q # <<>>, NEW live, LossesTrue(q, live)
  PROVE  Tail(q) \in Seq(Message) /\ LossesTrue(Tail(q), live)
<1>1. /\ Tail(q) \in Seq(Message) /\ Len(Tail(q)) = Len(q) - 1
      /\ \A k \in 1..Len(Tail(q)) : Tail(q)[k] = q[k + 1] /\ k + 1 \in 1..Len(q)
  OBVIOUS
<1> QED BY <1>1 DEF LossesTrue

(* Clients do not come back, and what was lost is not forgotten. *)
LEMMA LossesStay ==
  ASSUME NEW q, NEW live, NEW still \in SUBSET live, LossesTrue(q, live)
  PROVE  LossesTrue(q, still)
BY DEF LossesTrue

LEMMA NoLosses == ASSUME NEW live PROVE LossesTrue(<<>>, live) /\ <<>> \in Seq(Message)
BY DEF LossesTrue

(* What is sent is a sequence of messages, true when it is sent. *)
LEMMA SendSends ==
  ASSUME TypeOK, LossesPending, NEW ms \in Seq(Message), Send(ms),
         LossesTrue(ms, up' \ lost'), up' \subseteq up, lost \subseteq lost'
  PROVE  wire' \in Seq(Message) /\ LossesTrue(wire', up' \ lost')
                                /\ LossesTrue(inbox, up' \ lost')
<1>1. wire' = wire \o ms /\ wire \in Seq(Message) /\ wire' \in Seq(Message)
  BY DEF Send, TypeOK
<1>2. up' \ lost' \in SUBSET (up \ lost)
  OBVIOUS
<1>3. LossesTrue(wire, up' \ lost') /\ LossesTrue(inbox, up' \ lost')
  BY <1>2, LossesStay DEF LossesPending
<1> QED BY <1>1, <1>3, LossesConcat

(* The messages that say that names have changed owners. *)
LEMMA ChangedIsMessage ==
  ASSUME NEW n \in Services, NEW old \in Clients \union {None}, NEW new \in Clients \union {None}
  PROVE  /\ Changed(n, old, new) \in Message
         /\ NameLost(Changed(n, old, new)) => new = None
BY DEF Changed, Message, NameLost

LEMMA OneMessage ==
  ASSUME NEW m \in Message, NEW live,
         m.kind = "changed" /\ NameLost(m) => m.old \notin live
  PROVE  <<m>> \in Seq(Message) /\ LossesTrue(<<m>>, live)
<1>1. <<m>> \in Seq(Message) /\ Len(<<m>>) = 1 /\ <<m>>[1] = m
  OBVIOUS
<1> HIDE DEF NameLost
<1> QED BY <1>1 DEF LossesTrue

(* A finite set is listed in some order. *)
LEMMA SetIsListed ==
  ASSUME NEW S, IsFiniteSet(S)
  PROVE  Cardinality(S) \in Nat /\ SetToSeq(S) \in [1..Cardinality(S) -> S]
<1>1. Cardinality(S) \in Nat /\ ExistsBijection(1..Cardinality(S), S)
  BY FS_CardinalityType
<1>2. \E f \in [1..Cardinality(S) -> S] : IsInjective(f)
  BY <1>1 DEF ExistsBijection, Bijection, Injection
<1> QED BY <1>1, <1>2 DEF SetToSeq

(* All of the names of a client that leaves are lost, and then it is. *)
LEMMA QuitLoses ==
  ASSUME NEW c \in Clients, NEW live, c \notin live
  PROVE  LET ms == [i \in 1..Cardinality(NamesOf(c)) |->
                      Changed(SetToSeq(NamesOf(c))[i], c, None)] \o <<Changed(c, c, None)>>
         IN ms \in Seq(Message) /\ LossesTrue(ms, live)
<1> DEFINE n == Cardinality(NamesOf(c))
           names == SetToSeq(NamesOf(c))
           first == [i \in 1..n |-> Changed(names[i], c, None)]
<1>1. NamesOf(c) \in SUBSET Names
  BY DEF NamesOf
<1>2. n \in Nat /\ names \in [1..n -> NamesOf(c)]
  BY <1>1, SetIsListed, FS_Subset, TrayAssumption
<1> HIDE DEF n, names
<1>3. \A s \in Services : Changed(s, c, None) \in Message /\ Changed(s, c, None).old = c
  BY ChangedIsMessage DEF Changed
<1>4. \A i \in 1..n : names[i] \in Services
  BY <1>1, <1>2 DEF Services
<1>5. first \in Seq(Message) /\ Len(first) = n /\ \A i \in 1..n : first[i].old = c
  BY <1>2, <1>3, <1>4
<1>6. LossesTrue(first, live)
  BY <1>5 DEF LossesTrue
<1>7. <<Changed(c, c, None)>> \in Seq(Message) /\ LossesTrue(<<Changed(c, c, None)>>, live)
  BY <1>3, OneMessage DEF Services
<1> HIDE DEF first
<1>8. first \o <<Changed(c, c, None)>> \in Seq(Message)
  BY <1>5, <1>7
<1>9. LossesTrue(first \o <<Changed(c, c, None)>>, live)
  BY <1>5, <1>6, <1>7, LossesConcat
<1> QED BY <1>8, <1>9 DEF first, n, names

(* What applications and the bus do. *)
LEMMA OutsideSends ==
  ASSUME TypeOK, LossesPending, Outside
  PROVE  /\ wire' \in Seq(Message) /\ LossesTrue(wire', up' \ lost')
         /\ LossesTrue(inbox, up' \ lost')
         /\ up' \subseteq Clients /\ lost' \subseteq Clients
         /\ ownerOf' \in [Names -> Clients \union {None}]
         /\ UNCHANGED <<inbox, dock>>
<1>1. /\ up \subseteq Clients /\ ownerOf \in [Names -> Clients \union {None}]
      /\ items \in Seq(Item) /\ lost \subseteq Clients
  BY DEF TypeOK, Item
<1>2. CASE RegisterItem
  <2>1. PICK c \in up, s \in Services :
               /\ Send(<<[kind |-> "register", sender |-> c, service |-> s]>>)
               /\ UNCHANGED <<bus, inbox, dock, lost>>
    BY <1>1, <1>2 DEF RegisterItem, NamesOf, Services
  <2> DEFINE m == [kind |-> "register", sender |-> c, service |-> s]
  <2>2. m \in Message /\ m.kind # "changed"
    BY <1>1 DEF Message
  <2>3. <<m>> \in Seq(Message) /\ LossesTrue(<<m>>, up' \ lost')
    BY <2>2, OneMessage
  <2> QED BY <1>1, <2>1, <2>3, SendSends DEF bus
<1>3. CASE NewIcon
  <2>1. PICK c \in up : /\ Send(<<[kind |-> "icon", sender |-> c]>>)
                        /\ UNCHANGED <<bus, inbox, dock, lost>>
    BY <1>3 DEF NewIcon
  <2> DEFINE m == [kind |-> "icon", sender |-> c]
  <2>2. m \in Message /\ m.kind # "changed"
    BY <1>1 DEF Message
  <2>3. <<m>> \in Seq(Message) /\ LossesTrue(<<m>>, up' \ lost')
    BY <2>2, OneMessage
  <2> QED BY <1>1, <2>1, <2>3, SendSends DEF bus
<1>4. CASE Acquire
  <2>1. PICK c \in up, n \in Names :
               /\ ownerOf' = [ownerOf EXCEPT ![n] = c]
               /\ Send(<<Changed(n, ownerOf[n], c)>>)
               /\ lost' = lost \union ({ownerOf[n]} \ {None})
               /\ UNCHANGED <<up, inbox, dock>>
    BY <1>4 DEF Acquire
  <2>2. ownerOf[n] \in Clients \union {None} /\ c \in Clients /\ c # None /\ n \in Services
    BY <1>1, TrayAssumption DEF Services
  <2>3. Changed(n, ownerOf[n], c) \in Message /\ ~NameLost(Changed(n, ownerOf[n], c))
    BY <2>2, ChangedIsMessage
  <2>4. /\ <<Changed(n, ownerOf[n], c)>> \in Seq(Message)
        /\ LossesTrue(<<Changed(n, ownerOf[n], c)>>, up' \ lost')
    BY <2>3, OneMessage
  <2>5. ownerOf' \in [Names -> Clients \union {None}] /\ lost' \subseteq Clients
    BY <1>1, <2>1, <2>2
  <2> QED BY <1>1, <2>1, <2>4, <2>5, SendSends
<1>5. CASE Release
  <2>1. PICK c \in up, n \in Names :
               /\ ownerOf' = [ownerOf EXCEPT ![n] = None]
               /\ Send(<<Changed(n, c, None)>>) /\ lost' = lost \union {c}
               /\ UNCHANGED <<up, inbox, dock>>
    BY <1>5 DEF Release, NamesOf
  <2>2. Changed(n, c, None) \in Message /\ Changed(n, c, None).old = c
    BY <1>1, ChangedIsMessage DEF Services, Changed
  <2>3. <<Changed(n, c, None)>> \in Seq(Message) /\ LossesTrue(<<Changed(n, c, None)>>, up' \ lost')
    BY <2>1, <2>2, OneMessage
  <2>4. ownerOf' \in [Names -> Clients \union {None}] /\ lost' \subseteq Clients
    BY <1>1, <2>1
  <2> QED BY <1>1, <2>1, <2>3, <2>4, SendSends
<1>6. CASE Quit
  <2> DEFINE ms(c) == [i \in 1..Cardinality(NamesOf(c)) |->
                         Changed(SetToSeq(NamesOf(c))[i], c, None)] \o <<Changed(c, c, None)>>
  <2>1. PICK c \in up :
          /\ up' = up \ {c} /\ Send(ms(c))
          /\ ownerOf' = [n \in Names |-> IF ownerOf[n] = c THEN None ELSE ownerOf[n]]
          /\ UNCHANGED <<inbox, dock, lost>>
    BY <1>6 DEF Quit
  <2>2. ms(c) \in Seq(Message) /\ LossesTrue(ms(c), up' \ lost')
    BY <1>1, <2>1, QuitLoses
  <2> HIDE DEF ms
  <2>3. ownerOf' \in [Names -> Clients \union {None}]
    BY <1>1, <2>1
  <2> QED BY <1>1, <2>1, <2>2, <2>3, SendSends
<1> QED BY <1>2, <1>3, <1>4, <1>5, <1>6 DEF Outside

(* What the dock reads: messages change hands and none is made. *)
LEMMA LoopReads ==
  ASSUME TypeOK, LossesPending, Loop
  PROVE  /\ wire' \in Seq(Message) /\ inbox' \in Seq(Message)
         /\ LossesPending' /\ UNCHANGED <<bus, lost>>
<1> DEFINE live == up \ lost
           Fine(q) == q \in Seq(Message) /\ LossesTrue(q, live)
<1>1. Fine(wire) /\ Fine(inbox) /\ Fine(<<>>)
  BY NoLosses DEF TypeOK, LossesPending
<1>2. Fine(inbox \o wire)
  <2>1. inbox \o wire \in Seq(Message)
    BY <1>1
  <2> QED BY <1>1, <2>1, LossesConcat
<1>3. ASSUME inbox # <<>>
      PROVE  Fine(Tail(inbox)) /\ Fine(Tail(inbox) \o wire) /\ Fine(Tail(inbox) \o <<>>)
  <2>1. Fine(Tail(inbox))
    BY <1>1, <1>3, LossesTail
  <2>2. Tail(inbox) \o wire \in Seq(Message) /\ Tail(inbox) \o <<>> \in Seq(Message)
    BY <1>1, <2>1
  <2> QED BY <1>1, <2>1, <2>2, LossesConcat
<1>4. UNCHANGED <<bus, lost>>
  BY DispatchKeepsOrRemoves
     DEF Loop, Wake, Dispatched, WakeForX, Click, HideMenu, ChooseRow, menu_hide, Draw
<1>5. Fine(wire') /\ Fine(inbox')
  <2> HIDE DEF Fine
  <2>1. CASE Dispatch
    <3>1. PICK calls \in BOOLEAN : Handled(calls)
      <4>1. (FindByOwner(Head(inbox).sender) # 0) \in BOOLEAN
        OBVIOUS
      <4> QED BY <2>1, <4>1, Zenon DEF Dispatch, Register, IconSignal, OwnerSignal
    <3>2. inbox # <<>>
      BY <2>1 DEF Dispatch
    <3>3. CASE calls
      BY <1>1, <1>3, <3>1, <3>2, <3>3 DEF Handled
    <3>4. CASE ~calls
      BY <1>1, <1>3, <3>1, <3>2, <3>4 DEF Handled
    <3> QED BY <3>3, <3>4
  <2>2. CASE Click
    BY <1>1, <1>2, <2>2 DEF Click, Calls
  <2>3. CASE HideMenu \/ ChooseRow
    BY <1>1, <1>2, <2>3 DEF HideMenu, ChooseRow, Calls
  <2>4. CASE Wake \/ Dispatched \/ WakeForX \/ Draw
    BY <1>1, <2>4 DEF Wake, Dispatched, WakeForX, Draw
  <2> QED BY <2>1, <2>2, <2>3, <2>4 DEF Loop
<1>6. up' \ lost' = live
  BY <1>4 DEF bus
<1> QED BY <1>4, <1>5, <1>6 DEF LossesPending

--------------------------------------------------------------------------------
(* The invariant. *)

LEMMA InitHolds == Init => IInv
<1> SUFFICES ASSUME Init PROVE IInv
  OBVIOUS
<1>1. TypeOK
  <2>1. \A S : <<>> \in Seq(S)
    OBVIOUS
  <2>2. ownerOf \in [Names -> Clients \union {None}] /\ up \subseteq Clients /\ lost \subseteq Clients
    BY DEF Init
  <2> HIDE DEF Message, Services
  <2> QED BY <2>1, <2>2 DEF Init, TypeOK
<1>2. UniqueServices /\ PictureMatches /\ MenuOfItem /\ QuietAtPoll
  BY DEF Init, UniqueServices, PictureMatches, MenuOfItem, QuietAtPoll
<1>3. LossesPending
  BY NoLosses DEF Init, LossesPending
<1> QED BY <1>1, <1>2, <1>3 DEF IInv

LEMMA OutsideHolds == IInv /\ Outside => IInv'
<1> SUFFICES ASSUME IInv, Outside PROVE IInv'
  OBVIOUS
<1>1. /\ wire' \in Seq(Message) /\ LossesTrue(wire', up' \ lost')
      /\ LossesTrue(inbox, up' \ lost') /\ up' \subseteq Clients /\ lost' \subseteq Clients
      /\ ownerOf' \in [Names -> Clients \union {None}] /\ UNCHANGED <<inbox, dock>>
  BY OutsideSends DEF IInv
<1>2. TypeOK'
  BY <1>1 DEF IInv, TypeOK, dock, popup
<1>3. UniqueServices' /\ PictureMatches' /\ MenuOfItem' /\ QuietAtPoll'
  BY <1>1 DEF IInv, dock, popup, UniqueServices, PictureMatches, MenuOfItem, QuietAtPoll
<1>4. LossesPending'
  BY <1>1 DEF LossesPending
<1> QED BY <1>2, <1>3, <1>4 DEF IInv

(* Where a message leaves the items. *)
LEMMA KeepsHolds ==
  ASSUME IInv, Keeps, UNCHANGED <<drawn, menu>>
  PROVE  UniqueServices' /\ PictureMatches' /\ MenuOfItem' /\ items' \in Seq(Item)
         /\ redraw' \in BOOLEAN /\ strayed' \in BOOLEAN
<1>1. /\ items \in Seq(Item) /\ items' \in Seq(Item) /\ drawn \in Seq(Services)
      /\ Len(items) <= Len(items')
      /\ \A j \in 1..Len(items) : items'[j].service = items[j].service
      /\ redraw' \in BOOLEAN /\ strayed' = strayed /\ strayed \in BOOLEAN
  BY DEF IInv, TypeOK, Keeps, Item
<1>2. UniqueServices'
  <2> SUFFICES ASSUME NEW i \in 1..Len(items'), NEW j \in 1..Len(items'),
                      items'[i].service = items'[j].service
               PROVE  i = j
    BY <1>1 DEF UniqueServices
  <2>1. CASE i > Len(items) \/ j > Len(items)
    BY <2>1 DEF Keeps
  <2>2. CASE i <= Len(items) /\ j <= Len(items)
    BY <1>1, <2>2 DEF IInv, UniqueServices
  <2> QED BY <1>1, <2>1, <2>2
<1>3. PictureMatches'
  <2> SUFFICES ASSUME ~redraw'
               PROVE  /\ Len(drawn) <= Len(items')
                      /\ \A i \in 1..Len(items') :
                           IF i <= Len(drawn) THEN items'[i].service = drawn[i]
                                              ELSE ~items'[i].icon
    BY <1>1 DEF PictureMatches
  <2>1. /\ ~redraw /\ Len(drawn) <= Len(items)
        /\ \A i \in 1..Len(items) : IF i <= Len(drawn) THEN items[i].service = drawn[i]
                                                       ELSE ~items[i].icon
    BY <1>1 DEF IInv, PictureMatches, Keeps
  <2>2. \A i \in 1..Len(items') : items'[i].icon => i <= Len(items) /\ items[i].icon
    BY DEF Keeps
  <2> QED BY <1>1, <2>1, <2>2
<1>4. MenuOfItem'
  BY <1>1 DEF IInv, MenuOfItem
<1> QED BY <1>1, <1>2, <1>3, <1>4

LEMMA RemovesHolds ==
  ASSUME IInv, Removes, UNCHANGED <<drawn, menu>>
  PROVE  UniqueServices' /\ PictureMatches' /\ MenuOfItem' /\ items' \in Seq(Item)
         /\ redraw' \in BOOLEAN /\ strayed' \in BOOLEAN
<1>1. PICK i \in 1..Len(items) : /\ items' = WithoutItem(i) /\ redraw' = TRUE
                                 /\ strayed' = (strayed \/ MovesMenuItem(i))
  BY DEF Removes
<1>2. items \in Seq(Item) /\ strayed \in BOOLEAN
  BY DEF IInv, TypeOK, Item
<1>3. /\ items' \in Seq(Item) /\ Len(items') = Len(items) - 1
      /\ \A j \in 1..(Len(items) - 1) : items'[j] = items[IF j = i THEN Len(items) ELSE j]
  BY <1>1, <1>2, WithoutIsThere
<1>4. UniqueServices'
  <2> SUFFICES ASSUME NEW a \in 1..(Len(items) - 1), NEW b \in 1..(Len(items) - 1),
                      items'[a].service = items'[b].service
               PROVE  a = b
    BY <1>2, <1>3 DEF UniqueServices
  <2> DEFINE from(j) == IF j = i THEN Len(items) ELSE j
  <2>1. from(a) \in 1..Len(items) /\ from(b) \in 1..Len(items)
    BY <1>2
  <2>2. items[from(a)].service = items[from(b)].service
    BY <1>3
  <2>3. from(a) = from(b)
    BY <1>2, <2>1, <2>2 DEF IInv, UniqueServices
  <2> QED BY <1>2, <2>3
<1>5. PictureMatches'
  BY <1>1 DEF PictureMatches
<1>6. strayed' \in BOOLEAN /\ (~strayed' => ~strayed /\ ~MovesMenuItem(i))
  BY <1>1, <1>2 DEF MovesMenuItem
<1>7. MenuOfItem'
  <2> SUFFICES ASSUME menu # None, ~strayed'
               PROVE  menu.idx \in DOMAIN items' /\ items'[menu.idx].service = menu.of
    BY DEF MenuOfItem
  <2>1. menu.idx \in 1..Len(items) /\ items[menu.idx].service = menu.of
    BY <1>2, <1>6 DEF IInv, MenuOfItem
  <2>2. menu.idx # i /\ menu.idx # Len(items)
    BY <1>6, <2>1 DEF MovesMenuItem
  <2> QED BY <1>2, <1>3, <2>1, <2>2
<1> QED BY <1>1, <1>3, <1>4, <1>5, <1>6, <1>7

LEMMA DispatchHolds == IInv /\ Dispatch => IInv'
<1> SUFFICES ASSUME IInv, Dispatch PROVE IInv'
  OBVIOUS
<1>1. (Keeps \/ Removes) /\ UNCHANGED <<drawn, menu, pc, bus, lost>>
  BY DispatchKeepsOrRemoves DEF IInv
<1>2. wire' \in Seq(Message) /\ inbox' \in Seq(Message) /\ LossesPending'
  BY LoopReads DEF IInv, Loop
<1>3. /\ UniqueServices' /\ PictureMatches' /\ MenuOfItem' /\ items' \in Seq(Item)
      /\ redraw' \in BOOLEAN /\ strayed' \in BOOLEAN
  BY <1>1, KeepsHolds, RemovesHolds
<1>4. TypeOK'
  BY <1>1, <1>2, <1>3 DEF IInv, TypeOK, bus, Item
<1>5. QuietAtPoll'
  BY <1>1 DEF QuietAtPoll, Dispatch
<1> QED BY <1>2, <1>3, <1>4, <1>5 DEF IInv

LEMMA ServicesOfItems ==
  ASSUME items \in Seq(Item), NEW i \in 1..Len(items)
  PROVE  items[i].service \in Services
<1>1. items[i] \in Item
  OBVIOUS
<1> QED BY <1>1 DEF Item

(* The steps that leave the items as they are. *)
LEMMA TurnHolds ==
  ASSUME IInv, Wake \/ Dispatched \/ WakeForX \/ Click \/ HideMenu \/ ChooseRow \/ Draw
  PROVE  IInv'
<1>1. /\ wire' \in Seq(Message) /\ inbox' \in Seq(Message) /\ LossesPending'
      /\ UNCHANGED <<bus, lost>>
  BY LoopReads DEF IInv, Loop
<1>2. items' = items /\ items \in Seq(Item)
  BY DEF IInv, TypeOK, Item, Wake, Dispatched, WakeForX, Click, HideMenu, ChooseRow,
         menu_hide, Draw, popup
<1>3. UniqueServices'
  BY <1>2 DEF IInv, UniqueServices
<1>4. CASE Wake \/ Dispatched \/ WakeForX
  <2>1. drawn' = drawn /\ redraw' = redraw /\ menu' = menu /\ strayed' = strayed
        /\ pc' \in {"dispatch", "events"}
    BY <1>4 DEF IInv, TypeOK, QuietAtPoll, Wake, Dispatched, WakeForX, popup
  <2>2. PictureMatches' /\ MenuOfItem' /\ QuietAtPoll'
    BY <1>2, <2>1 DEF IInv, PictureMatches, MenuOfItem, QuietAtPoll
  <2>3. TypeOK'
    BY <1>1, <1>2, <2>1 DEF IInv, TypeOK, bus
  <2> QED BY <1>1, <1>3, <2>2, <2>3 DEF IInv
<1>5. CASE Click \/ HideMenu \/ ChooseRow
  <2>1. /\ drawn' = drawn /\ redraw' = redraw /\ pc' = pc /\ pc = "events" /\ strayed' = FALSE
        /\ \/ menu' = None
           \/ \E i \in DOMAIN items : menu' = [idx |-> i, of |-> items[i].service]
    BY <1>5 DEF Click, HideMenu, ChooseRow, menu_hide, menu_show
  <2>2. PictureMatches' /\ QuietAtPoll'
    BY <1>2, <2>1 DEF IInv, PictureMatches, QuietAtPoll
  <2>3. menu' \in [idx : Nat \ {0}, of : Services] \union {None} /\ MenuOfItem'
    <3>1. CASE menu' = None
      BY <3>1 DEF MenuOfItem
    <3>2. CASE \E i \in DOMAIN items : menu' = [idx |-> i, of |-> items[i].service]
      <4>1. PICK i \in 1..Len(items) : menu' = [idx |-> i, of |-> items[i].service]
        BY <1>2, <3>2
      <4>2. items[i].service \in Services /\ i \in Nat \ {0}
        BY <1>2, ServicesOfItems
      <4> QED BY <1>2, <4>1, <4>2 DEF MenuOfItem
    <3> QED BY <2>1, <3>1, <3>2
  <2>4. TypeOK'
    BY <1>1, <1>2, <2>1, <2>3 DEF IInv, TypeOK, bus
  <2> QED BY <1>1, <1>3, <2>2, <2>3, <2>4 DEF IInv
<1>6. CASE Draw
  <2>1. /\ menu' = menu /\ strayed' = strayed /\ pc' = "poll" /\ redraw' = FALSE
        /\ \/ drawn' = [i \in DOMAIN items |-> items[i].service]
           \/ drawn' = drawn /\ ~redraw
    BY <1>6 DEF Draw, popup
  <2>2. drawn' \in Seq(Services) /\ PictureMatches'
    <3>1. CASE drawn' = [i \in DOMAIN items |-> items[i].service]
      <4>1. \A i \in 1..Len(items) : items[i].service \in Services
        BY <1>2, ServicesOfItems
      <4>2. /\ drawn' \in Seq(Services) /\ Len(drawn') = Len(items)
            /\ \A i \in 1..Len(items) : drawn'[i] = items[i].service
        BY <1>2, <3>1, <4>1
      <4> QED BY <1>2, <4>2 DEF PictureMatches
    <3>2. CASE drawn' = drawn /\ ~redraw
      BY <1>2, <3>2 DEF IInv, TypeOK, PictureMatches
    <3> QED BY <2>1, <3>1, <3>2
  <2>3. MenuOfItem' /\ QuietAtPoll'
    BY <1>2, <2>1 DEF IInv, MenuOfItem, QuietAtPoll
  <2>4. TypeOK'
    BY <1>1, <1>2, <2>1, <2>2 DEF IInv, TypeOK, bus
  <2> QED BY <1>1, <1>3, <2>2, <2>3, <2>4 DEF IInv
<1> QED BY <1>4, <1>5, <1>6

LEMMA StillHolds == IInv /\ UNCHANGED vars => IInv'
BY DEF IInv, TypeOK, UniqueServices, PictureMatches, MenuOfItem, LossesPending, QuietAtPoll, vars

LEMMA StepHolds == IInv /\ [Next]_vars => IInv'
<1>1. IInv /\ Loop => IInv'
  BY DispatchHolds, TurnHolds DEF Loop
<1> QED BY <1>1, OutsideHolds, StillHolds DEF Next

(* The invariant that the properties of the tray follow from. *)
THEOREM Invariance == Spec => []IInv
<1>1. Init => IInv
  BY InitHolds
<1>2. IInv /\ [Next]_vars => IInv'
  BY StepHolds
<1> QED BY <1>1, <1>2, PTL DEF Spec

(* The items, the messages and the menu have their types. *)
THEOREM TypeCorrect == Spec => []TypeOK
<1>1. IInv => TypeOK
  BY DEF IInv
<1> QED BY <1>1, Invariance, PTL

(* sni_find_by_service finds the only item of a service there is. *)
THEOREM ServicesAreUnique == Spec => []UniqueServices
<1>1. IInv => UniqueServices
  BY DEF IInv
<1> QED BY <1>1, Invariance, PTL

(* A place on the dock and the index of a menu are those of the item meant. *)
THEOREM ClicksArrive == Spec => []ClicksReachTheirItem
<1>1. IInv => ClicksReachTheirItem
  BY DEF IInv, ClicksReachTheirItem
<1> QED BY <1>1, Invariance, PTL

(* sni_remove_by_owner takes nothing from an application that is there. *)
THEOREM LiveStay == Spec => LiveItemsStay
<1> DEFINE Stay == \A i \in DOMAIN items : items[i].owner \in up \ lost =>
                     \E j \in DOMAIN items' : items'[j].service = items[i].service
<1>1. IInv /\ [Next]_vars => [Stay]_vars
  <2> SUFFICES ASSUME IInv, Next, NEW i \in DOMAIN items, items[i].owner \in up \ lost
               PROVE  \E j \in DOMAIN items' : items'[j].service = items[i].service
    OBVIOUS
  <2>1. items \in Seq(Item)
    BY DEF IInv, TypeOK, Item
  <2>2. CASE items' = items
    BY <2>2
  <2>3. CASE Keeps
    BY <2>1, <2>3 DEF Keeps
  <2>4. CASE Removes
    <3>1. PICK k \in 1..Len(items) : items' = WithoutItem(k) /\ items[k].owner \notin up \ lost
      BY <2>4 DEF Removes
    <3>2. /\ items' \in Seq(Item) /\ Len(items') = Len(items) - 1
          /\ \A j \in 1..(Len(items) - 1) : items'[j] = items[IF j = k THEN Len(items) ELSE j]
      BY <2>1, <3>1, WithoutIsThere
    <3>3. i \in 1..Len(items) /\ i # k
      BY <2>1, <3>1
    <3>4. CASE i = Len(items)
      BY <2>1, <3>2, <3>3, <3>4
    <3>5. CASE i # Len(items)
      BY <2>1, <3>2, <3>3, <3>5
    <3> QED BY <3>4, <3>5
  <2>5. items' = items \/ Keeps \/ Removes
    <3>1. CASE Outside
      BY <3>1, OutsideSends DEF IInv, dock
    <3>2. CASE Dispatch
      BY <3>2, DispatchKeepsOrRemoves DEF IInv
    <3>3. CASE Loop /\ ~Dispatch
      BY <3>3 DEF Loop, Wake, Dispatched, WakeForX, Click, HideMenu, ChooseRow, menu_hide, Draw
    <3> QED BY <3>1, <3>2, <3>3 DEF Next
  <2> QED BY <2>2, <2>3, <2>4, <2>5
<1>2. Spec => [][Stay]_vars
  BY <1>1, Invariance, PTL DEF Spec
<1> QED BY <1>2 DEF LiveItemsStay

--------------------------------------------------------------------------------
(* No item is left of a client that has gone: as many losses are due as it    *)
(* has items or may yet get.                                                  *)

(* All that is under way to the dock. *)
Pend == inbox \o wire
LossAt(k, c) == Pend[k].kind = "changed" /\ NameLost(Pend[k]) /\ Pend[k].old = c
RegAt(k, c) == Pend[k].kind = "register" /\ Pend[k].sender = c

(* The names a client has lost of which the dock has still to hear, and the   *)
(* services it has items for or may yet get items for.                        *)
Due(c) == {Pend[k].name : k \in {j \in 1..Len(Pend) : LossAt(j, c)}}
Known(c) == {items[i].service : i \in {j \in 1..Len(items) : items[j].owner = c}}
Coming(c) == {Pend[k].service : k \in {j \in 1..Len(Pend) : RegAt(j, c)}}
Claims(c) == Known(c) \union Coming(c)

(* A client that is gone: a loss is due for each service it claims, none      *)
(* twice, and all of them after the last registration.                        *)
Leaving(c) ==
  /\ IsFiniteSet(Claims(c)) /\ IsFiniteSet(Due(c))
  /\ Cardinality(Claims(c)) <= Cardinality(Due(c))
  /\ \A j, k \in 1..Len(Pend) :
       LossAt(j, c) /\ LossAt(k, c) /\ Pend[j].name = Pend[k].name => j = k
  /\ \A j, k \in 1..Len(Pend) : LossAt(j, c) /\ RegAt(k, c) => k < j

OwnersOnBus == \A n \in Names : ownerOf[n] \in up \union {None}
OwnPaths == \A k \in 1..Len(Pend) :
              Pend[k].kind = "register" /\ Pend[k].service \in Clients =>
                Pend[k].service = Pend[k].sender
LiveOwn == \A c \in up \ lost : Claims(c) \subseteq NamesOf(c) \union {c}
GoneLeaving == \A c \in Clients \ (up \union lost) : Leaving(c)

Accounts == OwnersOnBus /\ OwnPaths /\ LiveOwn /\ GoneLeaving

LEMMA PendIsMessages == ASSUME TypeOK PROVE Pend \in Seq(Message)
BY DEF TypeOK, Pend

(* A client that is live has lost nothing of which the dock has to hear. *)
LEMMA LiveHasNoDue ==
  ASSUME TypeOK, LossesPending, NEW c \in up \ lost, NEW k \in 1..Len(Pend)
  PROVE  ~LossAt(k, c)
<1>1. LossesTrue(Pend, up \ lost)
  BY LossesConcat DEF TypeOK, LossesPending, Pend
<1> QED BY <1>1 DEF LossesTrue, LossAt

--------------------------------------------------------------------------------
(* Messages that come to the end of those under way. *)

LEMMA Appended ==
  ASSUME Pend \in Seq(Message), NEW ms \in Seq(Message), Pend' = Pend \o ms
  PROVE  /\ Len(Pend') = Len(Pend) + Len(ms)
         /\ \A k \in 1..Len(Pend) : Pend'[k] = Pend[k]
         /\ \A k \in 1..Len(Pend') : k > Len(Pend) =>
              k - Len(Pend) \in 1..Len(ms) /\ Pend'[k] = ms[k - Len(Pend)]
         /\ \A i \in 1..Len(ms) :
              Len(Pend) + i \in 1..Len(Pend') /\ Pend'[Len(Pend) + i] = ms[i]
<1>1. Len(Pend) \in Nat /\ Len(ms) \in Nat
  OBVIOUS
<1> QED BY <1>1

(* They are of no matter to a client that they are not about. *)
LEMMA NotAbout ==
  ASSUME Pend \in Seq(Message), NEW ms \in Seq(Message), Pend' = Pend \o ms, items' = items,
         NEW c,
         \A i \in 1..Len(ms) : /\ ms[i].kind = "changed" /\ NameLost(ms[i]) => ms[i].old # c
                               /\ ms[i].kind = "register" => ms[i].sender # c
  PROVE  /\ Claims(c)' = Claims(c)
         /\ Leaving(c) => Leaving(c)'
<1>1. \A k \in 1..Len(Pend) : /\ k \in 1..Len(Pend') /\ Pend'[k] = Pend[k]
                              /\ LossAt(k, c)' <=> LossAt(k, c)
                              /\ RegAt(k, c)' <=> RegAt(k, c)
  BY Appended DEF LossAt, RegAt
<1>2. \A k \in 1..Len(Pend') : k \notin 1..Len(Pend) => ~LossAt(k, c)' /\ ~RegAt(k, c)'
  BY Appended DEF LossAt, RegAt
<1>3. Due(c)' = Due(c)
  BY <1>1, <1>2 DEF Due
<1>4. Coming(c)' = Coming(c) /\ Known(c)' = Known(c)
  BY <1>1, <1>2 DEF Coming, Known
<1>5. Claims(c)' = Claims(c)
  BY <1>4 DEF Claims
<1>6. ASSUME Leaving(c) PROVE Leaving(c)'
  <2>1. ASSUME NEW j \in 1..Len(Pend'), NEW k \in 1..Len(Pend'), LossAt(j, c)', LossAt(k, c)',
               Pend'[j].name = Pend'[k].name
        PROVE  j = k
    <3>1. j \in 1..Len(Pend) /\ k \in 1..Len(Pend)
      BY <1>2, <2>1
    <3>2. LossAt(j, c) /\ LossAt(k, c) /\ Pend[j].name = Pend[k].name
      BY <1>1, <2>1, <3>1
    <3> QED BY <1>6, <3>1, <3>2 DEF Leaving
  <2>2. ASSUME NEW j \in 1..Len(Pend'), NEW k \in 1..Len(Pend'), LossAt(j, c)', RegAt(k, c)'
        PROVE  k < j
    <3>1. j \in 1..Len(Pend) /\ k \in 1..Len(Pend)
      BY <1>2, <2>2
    <3>2. LossAt(j, c) /\ RegAt(k, c)
      BY <1>1, <2>2, <3>1
    <3> QED BY <1>6, <3>1, <3>2 DEF Leaving
  <2> QED BY <1>3, <1>5, <1>6, <2>1, <2>2 DEF Leaving
<1> QED BY <1>5, <1>6

LEMMA PathsAppended ==
  ASSUME Pend \in Seq(Message), NEW ms \in Seq(Message), Pend' = Pend \o ms, OwnPaths,
         \A i \in 1..Len(ms) :
           ms[i].kind = "register" /\ ms[i].service \in Clients => ms[i].service = ms[i].sender
  PROVE  OwnPaths'
BY Appended DEF OwnPaths

LEMMA Concatenated ==
  ASSUME NEW p \in Seq(Message), NEW q \in Seq(Message)
  PROVE  /\ Len(p \o q) = Len(p) + Len(q)
         /\ \A i \in 1..Len(p) : (p \o q)[i] = p[i]
         /\ \A i \in 1..Len(q) : (p \o q)[Len(p) + i] = q[i]
<1>1. Len(p) \in Nat /\ Len(q) \in Nat
  OBVIOUS
<1> QED BY <1>1

(* All the losses of a client that leaves, each once. *)
LEMMA QuitListsAll ==
  ASSUME NEW c \in Clients, NEW ms,
         ms = [i \in 1..Cardinality(NamesOf(c)) |-> Changed(SetToSeq(NamesOf(c))[i], c, None)]
                \o <<Changed(c, c, None)>>
  PROVE  /\ IsFiniteSet(NamesOf(c)) /\ Cardinality(NamesOf(c)) \in Nat
         /\ Len(ms) = Cardinality(NamesOf(c)) + 1
         /\ \E name \in [1..Len(ms) -> NamesOf(c) \union {c}] :
              /\ \A i \in 1..Len(ms) : ms[i] = Changed(name[i], c, None)
              /\ IsInjective(name)
<1> DEFINE n == Cardinality(NamesOf(c))
           names == SetToSeq(NamesOf(c))
           first == [i \in 1..n |-> Changed(names[i], c, None)]
           name == [i \in 1..(n + 1) |-> IF i <= n THEN names[i] ELSE c]
<1>1. NamesOf(c) \in SUBSET Names
  BY DEF NamesOf
<1>2. IsFiniteSet(NamesOf(c))
  BY <1>1, FS_Subset, TrayAssumption
<1>3. n \in Nat /\ names \in [1..n -> NamesOf(c)]
  BY <1>2, SetIsListed
<1>4. \A i, j \in 1..n : names[i] = names[j] => i = j
  <2>1. \E f \in [1..n -> NamesOf(c)] : IsInjective(f)
    BY <1>2, FS_CardinalityType DEF ExistsBijection, Bijection, Injection
  <2>2. IsInjective(names)
    BY <2>1 DEF SetToSeq
  <2> QED BY <1>3, <2>2 DEF IsInjective
<1>5. ms = first \o <<Changed(c, c, None)>>
  OBVIOUS
<1> HIDE DEF n, names
<1>6. /\ Len(first) = n /\ first \in Seq(Message)
      /\ <<Changed(c, c, None)>> \in Seq(Message)
  <2>1. \A s \in Services : Changed(s, c, None) \in Message
    BY ChangedIsMessage
  <2>2. \A i \in 1..n : names[i] \in Services
    BY <1>1, <1>3 DEF Services
  <2>3. c \in Services
    BY DEF Services
  <2> QED BY <1>3, <2>1, <2>2, <2>3
<1>7. \A i \in 1..n : first[i] = Changed(names[i], c, None)
  OBVIOUS
<1> HIDE DEF first
<1>8. /\ Len(ms) = n + 1
      /\ \A i \in 1..n : ms[i] = first[i]
      /\ ms[n + 1] = Changed(c, c, None)
  <2> DEFINE last == <<Changed(c, c, None)>>
  <2>1. last \in Seq(Message) /\ Len(last) = 1 /\ last[1] = Changed(c, c, None)
    BY <1>6
  <2> HIDE DEF last
  <2>2. ms = first \o last
    BY <1>5 DEF last
  <2>3. /\ Len(ms) = Len(first) + Len(last)
        /\ \A i \in 1..Len(first) : ms[i] = first[i]
        /\ \A i \in 1..Len(last) : ms[Len(first) + i] = last[i]
    <3>1. first \in Seq(Message) /\ last \in Seq(Message)
      BY <1>6, <2>1
    <3>2. /\ Len(first \o last) = Len(first) + Len(last)
          /\ \A i \in 1..Len(first) : (first \o last)[i] = first[i]
          /\ \A i \in 1..Len(last) : (first \o last)[Len(first) + i] = last[i]
      BY <3>1, Concatenated, Zenon
    <3> QED BY <2>2, <3>2
  <2>4. 1 \in 1..Len(last)
    BY <2>1
  <2> QED BY <1>3, <1>6, <2>1, <2>3, <2>4
<1>9. name \in [1..(n + 1) -> NamesOf(c) \union {c}]
  BY <1>3
<1>10. name[n + 1] = c /\ \A i \in 1..n : name[i] = names[i]
  BY <1>3
<1> HIDE DEF name
<1>11. \A i \in 1..(n + 1) : i \in 1..n \/ i = n + 1
  BY <1>3
<1>12. \A i \in 1..(n + 1) : ms[i] = Changed(name[i], c, None)
  BY <1>7, <1>8, <1>10, <1>11
<1>13. c \notin NamesOf(c)
  BY <1>1, TrayAssumption
<1>14. IsInjective(name)
  BY <1>3, <1>4, <1>9, <1>10, <1>11, <1>13 DEF IsInjective
<1> QED BY <1>2, <1>3, <1>8, <1>9, <1>12, <1>14 DEF n

(* A live client leaves: what it claims is among the names that it loses. *)
LEMMA LossesAllDue ==
  ASSUME TypeOK, LossesPending, LiveOwn, NEW c \in up, c \notin lost, items' = items,
         NEW ms \in Seq(Message), Pend' = Pend \o ms, IsFiniteSet(NamesOf(c)),
         Cardinality(NamesOf(c)) \in Nat, Len(ms) = Cardinality(NamesOf(c)) + 1,
         NEW name \in [1..Len(ms) -> NamesOf(c) \union {c}], IsInjective(name),
         \A i \in 1..Len(ms) : ms[i] = Changed(name[i], c, None)
  PROVE  Leaving(c)'
<1>1. c \in Clients /\ Pend \in Seq(Message) /\ Len(Pend) \in Nat /\ Len(ms) \in Nat
  BY PendIsMessages DEF TypeOK
<1>2. /\ Len(Pend') = Len(Pend) + Len(ms)
      /\ \A k \in 1..Len(Pend) : Pend'[k] = Pend[k]
      /\ \A k \in 1..Len(Pend') : k > Len(Pend) =>
           k - Len(Pend) \in 1..Len(ms) /\ Pend'[k] = ms[k - Len(Pend)]
      /\ \A i \in 1..Len(ms) :
           Len(Pend) + i \in 1..Len(Pend') /\ Pend'[Len(Pend) + i] = ms[i]
  BY <1>1, Appended
<1>3. \A i \in 1..Len(ms) : /\ ms[i].kind = "changed" /\ NameLost(ms[i])
                             /\ ms[i].old = c /\ ms[i].name = name[i]
  BY <1>1, TrayAssumption DEF Changed, NameLost
<1>4. \A k \in 1..Len(Pend) : ~LossAt(k, c)' /\ (RegAt(k, c)' <=> RegAt(k, c))
  BY <1>2, LiveHasNoDue DEF LossAt, RegAt
<1>5. \A k \in 1..Len(Pend'), i \in 1..Len(ms) :
        k = Len(Pend) + i => LossAt(k, c)' /\ ~RegAt(k, c)' /\ Pend'[k].name = name[i]
  BY <1>2, <1>3 DEF LossAt, RegAt
<1>6. \A k \in 1..Len(Pend') : \/ k \in 1..Len(Pend)
                                \/ \E i \in 1..Len(ms) : k = Len(Pend) + i
  <2> SUFFICES ASSUME NEW k \in 1..Len(Pend'), k \notin 1..Len(Pend)
               PROVE  \E i \in 1..Len(ms) : k = Len(Pend) + i
    OBVIOUS
  <2>1. k > Len(Pend)
    BY <1>1
  <2>2. k - Len(Pend) \in 1..Len(ms)
    BY <1>2, <2>1
  <2> WITNESS k - Len(Pend) \in 1..Len(ms)
  <2> QED BY <1>1
<1>7. Claims(c)' \subseteq NamesOf(c) \union {c}
  <2>1. Coming(c)' \subseteq Coming(c)
    <3> SUFFICES ASSUME NEW k \in 1..Len(Pend'), RegAt(k, c)'
                 PROVE  Pend'[k].service \in Coming(c)
      BY DEF Coming
    <3>1. k \in 1..Len(Pend)
      BY <1>5, <1>6
    <3>2. RegAt(k, c) /\ Pend'[k] = Pend[k]
      BY <1>2, <1>4, <3>1
    <3> QED BY <3>1, <3>2 DEF Coming
  <2>2. Known(c)' = Known(c)
    BY DEF Known
  <2> QED BY <2>1, <2>2 DEF Claims, LiveOwn
<1>8. ASSUME NEW j \in 1..Len(Pend'), NEW k \in 1..Len(Pend'), LossAt(j, c)', LossAt(k, c)',
             Pend'[j].name = Pend'[k].name
      PROVE  j = k
  <2>1. PICK i \in 1..Len(ms) : j = Len(Pend) + i
    BY <1>4, <1>6, <1>8
  <2>2. PICK h \in 1..Len(ms) : k = Len(Pend) + h
    BY <1>4, <1>6, <1>8
  <2>3. name[i] = name[h]
    BY <1>5, <1>8, <2>1, <2>2
  <2> QED BY <2>1, <2>2, <2>3 DEF IsInjective
<1>9. ASSUME NEW j \in 1..Len(Pend'), NEW k \in 1..Len(Pend'), LossAt(j, c)', RegAt(k, c)'
      PROVE  k < j
  <2>1. PICK i \in 1..Len(ms) : j = Len(Pend) + i
    BY <1>4, <1>6, <1>9
  <2>2. k \in 1..Len(Pend)
    BY <1>5, <1>6, <1>9
  <2> QED BY <1>1, <2>1, <2>2
<1>10. Due(c)' = {name[i] : i \in 1..Len(ms)}
  <2>1. ASSUME NEW i \in 1..Len(ms) PROVE name[i] \in Due(c)'
    <3>1. PICK k \in 1..Len(Pend') : LossAt(k, c)' /\ Pend'[k].name = name[i]
      <4>1. Len(Pend) + i \in 1..Len(Pend')
        BY <1>2
      <4> QED BY <1>5, <4>1
    <3> QED BY <3>1 DEF Due
  <2>2. ASSUME NEW k \in 1..Len(Pend'), LossAt(k, c)'
        PROVE  Pend'[k].name \in {name[i] : i \in 1..Len(ms)}
    BY <1>4, <1>5, <1>6, <2>2
  <2> QED BY <2>1, <2>2 DEF Due
<1>11. IsFiniteSet(Due(c)') /\ Cardinality(Due(c)') = Len(ms)
  <2> DEFINE D == {name[i] : i \in 1..Len(ms)}
  <2>1. name \in Bijection(1..Len(ms), D)
    BY DEF Bijection, Injection, Surjection, IsInjective
  <2>2. ExistsBijection(1..Len(ms), D)
    BY <2>1 DEF ExistsBijection
  <2>3. IsFiniteSet(1..Len(ms))
    BY <1>1, FS_Interval
  <2> HIDE DEF D
  <2>4. IsFiniteSet(D) /\ Cardinality(D) = Len(ms)
    BY <1>1, <2>2, <2>3, FS_Bijection, FS_CountingElements
  <2> QED BY <1>10, <2>4 DEF D
<1>12. IsFiniteSet(Claims(c)') /\ Cardinality(Claims(c)') <= Len(ms)
  <2> DEFINE S == NamesOf(c) \union {c}
  <2>1. IsFiniteSet(S) /\ Cardinality(S) \in Nat /\ Cardinality(S) <= Len(ms)
    <3>1. /\ IsFiniteSet(S)
          /\ Cardinality(S) = IF c \in NamesOf(c) THEN Cardinality(NamesOf(c))
                                                  ELSE Cardinality(NamesOf(c)) + 1
      BY FS_AddElement
    <3> HIDE DEF S
    <3> QED BY <3>1
  <2>2. Claims(c)' \in SUBSET S
    BY <1>7
  <2> HIDE DEF S
  <2>3. IsFiniteSet(Claims(c)') /\ Cardinality(Claims(c)') <= Cardinality(S)
    BY <2>1, <2>2, FS_Subset
  <2>4. Cardinality(Claims(c)') \in Nat
    BY <2>3, FS_CardinalityType
  <2> QED BY <1>1, <2>1, <2>3, <2>4
<1> QED BY <1>8, <1>9, <1>11, <1>12 DEF Leaving

LEMMA QuitLeaves ==
  ASSUME TypeOK, LossesPending, LiveOwn, NEW c \in up, c \notin lost, items' = items,
         NEW ms, Pend' = Pend \o ms,
         ms = [i \in 1..Cardinality(NamesOf(c)) |-> Changed(SetToSeq(NamesOf(c))[i], c, None)]
                \o <<Changed(c, c, None)>>
  PROVE  Leaving(c)'
<1>1. c \in Clients
  BY DEF TypeOK
<1>2. ms \in Seq(Message)
  BY <1>1, QuitLoses
<1>3. /\ IsFiniteSet(NamesOf(c)) /\ Cardinality(NamesOf(c)) \in Nat
      /\ Len(ms) = Cardinality(NamesOf(c)) + 1
      /\ \E name \in [1..Len(ms) -> NamesOf(c) \union {c}] :
           /\ \A i \in 1..Len(ms) : ms[i] = Changed(name[i], c, None)
           /\ IsInjective(name)
  BY <1>1, QuitListsAll
<1> QED BY <1>2, <1>3, LossesAllDue

--------------------------------------------------------------------------------
(* The message that the dock handles is the first of those under way. *)

LEMMA Tailed ==
  ASSUME Pend \in Seq(Message), Pend # <<>>, Pend' = Tail(Pend)
  PROVE  /\ 1 \in 1..Len(Pend) /\ Len(Pend) \in Nat /\ Len(Pend') = Len(Pend) - 1
         /\ \A k \in 1..Len(Pend') : k + 1 \in 1..Len(Pend) /\ Pend'[k] = Pend[k + 1]
         /\ \A k \in 1..Len(Pend) : k # 1 => k - 1 \in 1..Len(Pend') /\ Pend'[k - 1] = Pend[k]
OBVIOUS

(* What is still to come was to come before. *)
LEMMA TailedAt ==
  ASSUME Pend \in Seq(Message), Pend # <<>>, Pend' = Tail(Pend), NEW c
  PROVE  /\ \A k \in 1..Len(Pend'), j \in 1..Len(Pend) :
              j = k + 1 => /\ LossAt(k, c)' <=> LossAt(j, c)
                           /\ RegAt(k, c)' <=> RegAt(j, c)
                           /\ Pend'[k] = Pend[j]
         /\ \A k \in 1..Len(Pend') : k \in Nat /\ \E j \in 1..Len(Pend) : j = k + 1
         /\ \A j \in 1..Len(Pend) : j # 1 => \E k \in 1..Len(Pend') : j = k + 1
         /\ Coming(c)' \subseteq Coming(c)
<1>1. \A k \in 1..Len(Pend'), j \in 1..Len(Pend) :
        j = k + 1 => /\ LossAt(k, c)' <=> LossAt(j, c)
                     /\ RegAt(k, c)' <=> RegAt(j, c)
                     /\ Pend'[k] = Pend[j]
  BY Tailed DEF LossAt, RegAt
<1>2. \A k \in 1..Len(Pend') : k \in Nat /\ \E j \in 1..Len(Pend) : j = k + 1
  BY Tailed
<1>3. \A j \in 1..Len(Pend) : j # 1 => \E k \in 1..Len(Pend') : j = k + 1
  <2> SUFFICES ASSUME NEW j \in 1..Len(Pend), j # 1
               PROVE  \E k \in 1..Len(Pend') : j = k + 1
    OBVIOUS
  <2>1. j - 1 \in 1..Len(Pend') /\ j = (j - 1) + 1
    BY Tailed
  <2> QED BY <2>1
<1>4. Coming(c)' \subseteq Coming(c)
  <2> SUFFICES ASSUME NEW k \in 1..Len(Pend'), RegAt(k, c)'
               PROVE  Pend'[k].service \in Coming(c)
    BY DEF Coming
  <2>1. PICK j \in 1..Len(Pend) : j = k + 1
    BY <1>2
  <2>2. RegAt(j, c) /\ Pend'[k] = Pend[j]
    BY <1>1, <2>1
  <2> QED BY <2>2 DEF Coming
<1> QED BY <1>1, <1>2, <1>3, <1>4

LEMMA OrderStays ==
  ASSUME Pend \in Seq(Message), Pend # <<>>, Pend' = Tail(Pend), NEW c, Leaving(c)
  PROVE  /\ \A j, k \in 1..Len(Pend') :
              LossAt(j, c)' /\ LossAt(k, c)' /\ Pend'[j].name = Pend'[k].name => j = k
         /\ \A j, k \in 1..Len(Pend') : LossAt(j, c)' /\ RegAt(k, c)' => k < j
<1> SUFFICES ASSUME NEW j \in 1..Len(Pend'), NEW k \in 1..Len(Pend'), LossAt(j, c)'
             PROVE  /\ LossAt(k, c)' /\ Pend'[j].name = Pend'[k].name => j = k
                    /\ RegAt(k, c)' => k < j
  OBVIOUS
<1>1. PICK a \in 1..Len(Pend) : a = j + 1
  BY TailedAt
<1>2. PICK b \in 1..Len(Pend) : b = k + 1
  BY TailedAt
<1>3. /\ LossAt(a, c) /\ Pend'[j] = Pend[a] /\ Pend'[k] = Pend[b]
      /\ LossAt(k, c)' <=> LossAt(b, c)
      /\ RegAt(k, c)' <=> RegAt(b, c)
  BY <1>1, <1>2, TailedAt
<1>4. j \in Nat /\ k \in Nat
  BY TailedAt
<1>5. ASSUME LossAt(k, c)', Pend'[j].name = Pend'[k].name PROVE j = k
  <2>1. a = b
    BY <1>3, <1>5 DEF Leaving
  <2> QED BY <1>1, <1>2, <1>4, <2>1
<1>6. ASSUME RegAt(k, c)' PROVE k < j
  <2>1. b < a
    BY <1>3, <1>6 DEF Leaving
  <2> QED BY <1>1, <1>2, <1>4, <2>1
<1> QED BY <1>5, <1>6

(* A message that is no loss of a client leaves all of its losses due. *)
LEMMA HeardOther ==
  ASSUME Pend \in Seq(Message), Pend # <<>>, Pend' = Tail(Pend), NEW c, Leaving(c),
         ~LossAt(1, c), Claims(c)' \subseteq Claims(c)
  PROVE  Leaving(c)'
<1>1. Due(c)' = Due(c)
  <2>1. ASSUME NEW k \in 1..Len(Pend'), LossAt(k, c)' PROVE Pend'[k].name \in Due(c)
    <3>1. PICK j \in 1..Len(Pend) : j = k + 1
      BY TailedAt
    <3>2. LossAt(j, c) /\ Pend'[k] = Pend[j]
      BY <2>1, <3>1, TailedAt
    <3> QED BY <3>2 DEF Due
  <2>2. ASSUME NEW j \in 1..Len(Pend), LossAt(j, c) PROVE Pend[j].name \in Due(c)'
    <3>1. PICK k \in 1..Len(Pend') : j = k + 1
      BY <2>2, TailedAt
    <3>2. LossAt(k, c)' /\ Pend'[k] = Pend[j]
      BY <2>2, <3>1, TailedAt
    <3> QED BY <3>2 DEF Due
  <2>3. Due(c)' \subseteq Due(c)
    BY <2>1 DEF Due
  <2>4. Due(c) \subseteq Due(c)'
    BY <2>2 DEF Due
  <2> QED BY <2>3, <2>4
<1>2. IsFiniteSet(Claims(c)') /\ Cardinality(Claims(c)') <= Cardinality(Claims(c))
  BY FS_Subset DEF Leaving
<1>3. /\ Cardinality(Claims(c)') \in Nat /\ Cardinality(Claims(c)) \in Nat
      /\ Cardinality(Due(c)) \in Nat
  BY <1>2, FS_CardinalityType DEF Leaving
<1>4. Cardinality(Claims(c)') <= Cardinality(Due(c)')
  BY <1>1, <1>2, <1>3 DEF Leaving
<1> QED BY <1>1, <1>2, <1>4, OrderStays DEF Leaving

(* A loss leaves one less due; nothing is to come after it, so an item that  *)
(* goes with it is one claim less.                                            *)
LEMMA HeardLoss ==
  ASSUME Pend \in Seq(Message), Pend # <<>>, Pend' = Tail(Pend), NEW c, Leaving(c),
         LossAt(1, c), Known(c)' \subseteq Known(c),
         Known(c) # {} => \E s \in Known(c) : s \notin Known(c)'
  PROVE  Leaving(c)'
<1>1. 1 \in 1..Len(Pend) /\ \A k \in 1..Len(Pend) : ~(k < 1)
  BY Tailed
<1>2. Coming(c) = {} /\ Coming(c)' = {}
  <2>1. \A k \in 1..Len(Pend) : ~RegAt(k, c)
    BY <1>1 DEF Leaving
  <2>2. Coming(c) = {}
    BY <2>1 DEF Coming
  <2> QED BY <2>2, TailedAt
<1>3. Claims(c) = Known(c) /\ Claims(c)' = Known(c)'
  BY <1>2 DEF Claims
<1> DEFINE n == Pend[1].name
<1>4. n \in Due(c)
  BY <1>1 DEF Due
<1>5. Due(c)' = Due(c) \ {n}
  <2>1. ASSUME NEW k \in 1..Len(Pend'), LossAt(k, c)'
        PROVE  Pend'[k].name \in Due(c) /\ Pend'[k].name # n
    <3>1. PICK j \in 1..Len(Pend) : j = k + 1 /\ k \in Nat
      BY TailedAt
    <3>2. LossAt(j, c) /\ Pend'[k] = Pend[j]
      BY <2>1, <3>1, TailedAt
    <3>3. j # 1
      BY <2>1, <3>1
    <3>4. Pend[j].name # n
      BY <1>1, <3>2, <3>3 DEF Leaving
    <3> QED BY <3>2, <3>4 DEF Due
  <2>2. ASSUME NEW j \in 1..Len(Pend), LossAt(j, c), Pend[j].name # n
        PROVE  Pend[j].name \in Due(c)'
    <3>1. PICK k \in 1..Len(Pend') : j = k + 1
      BY <2>2, TailedAt
    <3>2. LossAt(k, c)' /\ Pend'[k] = Pend[j]
      BY <2>2, <3>1, TailedAt
    <3> QED BY <3>2 DEF Due
  <2>3. Due(c)' \subseteq Due(c) \ {n}
    BY <2>1 DEF Due
  <2>4. Due(c) \ {n} \subseteq Due(c)'
    BY <2>2 DEF Due
  <2> QED BY <2>3, <2>4
<1> HIDE DEF n
<1>6. /\ IsFiniteSet(Due(c)') /\ Cardinality(Due(c)') = Cardinality(Due(c)) - 1
      /\ Cardinality(Due(c)) \in Nat /\ Cardinality(Due(c)') \in Nat
  <2>1. IsFiniteSet(Due(c) \ {n}) /\ Cardinality(Due(c) \ {n}) = Cardinality(Due(c)) - 1
    BY <1>4, FS_RemoveElement DEF Leaving
  <2> QED BY <1>5, <2>1, FS_CardinalityType DEF Leaving
<1>7. IsFiniteSet(Claims(c)') /\ Cardinality(Claims(c)') <= Cardinality(Due(c)')
  <2>1. CASE Known(c) = {}
    <3>1. Claims(c)' = {}
      BY <1>3, <2>1
    <3>2. IsFiniteSet({}) /\ Cardinality({}) = 0
      BY FS_EmptySet
    <3> QED BY <1>6, <3>1, <3>2
  <2>2. CASE Known(c) # {}
    <3>1. PICK s \in Known(c) : s \notin Known(c)'
      BY <2>2
    <3> DEFINE R == Known(c) \ {s}
    <3>2. IsFiniteSet(Known(c)) /\ Cardinality(Known(c)) <= Cardinality(Due(c))
      BY <1>3 DEF Leaving
    <3>3. IsFiniteSet(R) /\ Cardinality(R) = Cardinality(Known(c)) - 1
      BY <3>1, <3>2, FS_RemoveElement
    <3>4. Claims(c)' \in SUBSET R
      BY <1>3, <3>1
    <3> HIDE DEF R
    <3>5. IsFiniteSet(Claims(c)') /\ Cardinality(Claims(c)') <= Cardinality(R)
      BY <3>3, <3>4, FS_Subset
    <3>6. /\ Cardinality(Claims(c)') \in Nat /\ Cardinality(R) \in Nat
          /\ Cardinality(Known(c)) \in Nat
      BY <3>2, <3>3, <3>5, FS_CardinalityType
    <3> QED BY <1>6, <3>2, <3>3, <3>5, <3>6
  <2> QED BY <2>1, <2>2
<1> QED BY <1>6, <1>7, OrderStays DEF Leaving

--------------------------------------------------------------------------------
(* What handling a message does to the services a client has items for. *)

LEMMA WithoutKnown ==
  ASSUME items \in Seq(Item), UniqueServices, NEW i \in 1..Len(items),
         items' = WithoutItem(i), NEW c
  PROVE  /\ Known(c)' \subseteq Known(c)
         /\ items[i].owner = c => \E s \in Known(c) : s \notin Known(c)'
<1>1. /\ Len(items) \in Nat /\ Len(items') = Len(items) - 1
      /\ \A j \in 1..(Len(items) - 1) : items'[j] = items[IF j = i THEN Len(items) ELSE j]
  BY WithoutIsThere
<1>2. \A j \in 1..Len(items') : \E k \in 1..Len(items) : k # i /\ items'[j] = items[k]
  <2> SUFFICES ASSUME NEW j \in 1..Len(items')
               PROVE  \E k \in 1..Len(items) : k # i /\ items'[j] = items[k]
    OBVIOUS
  <2> DEFINE k == IF j = i THEN Len(items) ELSE j
  <2>1. k \in 1..Len(items) /\ k # i
    BY <1>1
  <2>2. items'[j] = items[k]
    BY <1>1
  <2> QED BY <2>1, <2>2
<1>3. Known(c)' \subseteq Known(c)
  BY <1>2 DEF Known
<1>4. ASSUME items[i].owner = c
      PROVE  items[i].service \in Known(c) /\ items[i].service \notin Known(c)'
  <2>1. \A j \in 1..Len(items') : items'[j].service # items[i].service
    BY <1>2 DEF UniqueServices
  <2> QED BY <1>4, <2>1 DEF Known
<1> QED BY <1>3, <1>4

LEMMA RegisterKnown ==
  ASSUME TypeOK, NEW m \in Message, Register(m), NEW c
  PROVE  Known(c)' \subseteq Known(c) \union
           (IF c = GetOwner(m.service, m.sender) THEN {m.service} ELSE {})
<1> DEFINE i == FindByService(m.service)
           owner == GetOwner(m.service, m.sender)
           new == [service |-> m.service, owner |-> owner, icon |-> FALSE]
<1>1. m.service \in Services /\ m.sender \in Clients
  BY DEF Register, Message
<1>2. items \in Seq(Item) /\ owner \in Clients
  BY <1>1, OwnerIsClient DEF TypeOK, Item
<1>3. i \in 0..Len(items) /\ (i # 0 => items[i].service = m.service)
  BY <1>2, FoundByService
<1>4. PICK found \in BOOLEAN :
        items' = IF i = 0 THEN Append(items, Refreshed(new, found))
                 ELSE [items EXCEPT ![i] = Refreshed([items[i] EXCEPT !.owner = owner], found)]
  BY DEF Register
<1> HIDE DEF i, owner
<1>5. PICK it : /\ it.service = m.service /\ it.owner = owner
                /\ \/ items' = Append(items, it)
                   \/ i \in 1..Len(items) /\ items' = [items EXCEPT ![i] = it]
  <2>1. CASE i = 0
    <3>1. /\ Refreshed(new, found).service = m.service
          /\ Refreshed(new, found).owner = owner
      BY DEF Refreshed
    <3> QED BY <1>4, <2>1, <3>1
  <2>2. CASE i # 0
    <3> DEFINE it == Refreshed([items[i] EXCEPT !.owner = owner], found)
    <3>1. i \in 1..Len(items) /\ items[i] \in Item
      BY <1>2, <1>3, <2>2
    <3>2. it.service = m.service /\ it.owner = owner
      BY <1>3, <2>2, <3>1 DEF Refreshed, Item
    <3> QED BY <1>4, <2>2, <3>1, <3>2
  <2> QED BY <2>1, <2>2
<1>6. \A j \in 1..Len(items') : \/ items'[j] = it
                                \/ \E k \in 1..Len(items) : items'[j] = items[k]
  BY <1>2, <1>5
<1> QED BY <1>5, <1>6 DEF Known, owner

LEMMA IconSignalKnown ==
  ASSUME TypeOK, NEW m \in Message, IconSignal(m), NEW c
  PROVE  Known(c)' = Known(c)
<1> DEFINE i == FindByOwner(m.sender)
<1>1. items \in Seq(Item)
  BY DEF TypeOK, Item
<1>2. i \in 0..Len(items)
  BY <1>1, FoundByOwner
<1>3. CASE i = 0
  BY <1>3 DEF IconSignal, Known
<1>4. CASE i # 0
  <2>1. PICK found \in BOOLEAN : items' = [items EXCEPT ![i] = Refreshed(items[i], found)]
    BY <1>4 DEF IconSignal
  <2>2. i \in 1..Len(items) /\ items[i] \in Item
    BY <1>1, <1>2, <1>4
  <2> HIDE DEF i
  <2>3. /\ Refreshed(items[i], found).service = items[i].service
        /\ Refreshed(items[i], found).owner = items[i].owner
    BY <2>2 DEF Refreshed, Item
  <2>4. /\ Len(items') = Len(items)
        /\ \A j \in 1..Len(items) : items'[j].service = items[j].service
                                    /\ items'[j].owner = items[j].owner
    BY <1>1, <2>1, <2>2, <2>3
  <2> QED BY <2>4 DEF Known
<1> QED BY <1>3, <1>4

(* The owner found for a registration has claimed the service before. *)
LEMMA OwnerClaimed ==
  ASSUME TypeOK, OwnersOnBus, OwnPaths, NEW m \in Message, m = Pend[1], 1 \in 1..Len(Pend),
         m.kind = "register", NEW c \in Clients, c = GetOwner(m.service, m.sender)
  PROVE  m.service \in Coming(c) \/ (c \in up /\ m.service \in NamesOf(c) \union {c})
<1>1. m.service \in Services /\ m.sender \in Clients
  BY DEF Message
<1>2. m.sender = c => m.service \in Coming(c)
  BY DEF Coming, RegAt
<1>3. CASE m.service \in Clients
  <2>1. m.service = m.sender /\ c = m.service
    BY <1>3 DEF OwnPaths, GetOwner
  <2> QED BY <1>2, <2>1
<1>4. CASE m.service \notin Clients
  <2>1. m.service \in Names
    BY <1>1, <1>4 DEF Services
  <2>2. CASE ownerOf[m.service] = None
    BY <1>2, <1>4, <2>2 DEF GetOwner
  <2>3. CASE ownerOf[m.service] # None
    <3>1. c = ownerOf[m.service]
      BY <1>4, <2>3 DEF GetOwner
    <3> QED BY <2>1, <2>3, <3>1 DEF OwnersOnBus, NamesOf
  <2> QED BY <2>2, <2>3
<1> QED BY <1>3, <1>4

LEMMA PendHandled ==
  ASSUME TypeOK, Dispatch
  PROVE  /\ Pend # <<>> /\ Pend' = Tail(Pend) /\ Head(inbox) = Pend[1]
<1>1. inbox \in Seq(Message) /\ wire \in Seq(Message) /\ inbox # <<>>
  BY DEF TypeOK, Dispatch
<1>2. Pend # <<>> /\ Head(inbox) = Pend[1] /\ Tail(Pend) = Tail(inbox) \o wire
  BY <1>1 DEF Pend
<1>3. PICK calls \in BOOLEAN : Handled(calls)
  <2>1. (FindByOwner(Head(inbox).sender) # 0) \in BOOLEAN
    OBVIOUS
  <2> QED BY <2>1, Zenon DEF Dispatch, Register, IconSignal, OwnerSignal
<1>4. Tail(inbox) \in Seq(Message) /\ Tail(inbox) \o wire \in Seq(Message)
  BY <1>1
<1>5. Pend' = Tail(inbox) \o wire
  <2>1. CASE calls
    <3>1. inbox' = Tail(inbox) \o wire /\ wire' = <<>>
      BY <1>3, <2>1 DEF Handled
    <3>2. inbox' \o <<>> = inbox'
      BY <1>4, <3>1, ConcatEmptySeq
    <3> QED BY <3>1, <3>2 DEF Pend
  <2>2. CASE ~calls
    <3>1. inbox' = Tail(inbox) \o <<>> /\ wire' = wire
      BY <1>3, <2>2 DEF Handled
    <3>2. inbox' = Tail(inbox)
      BY <1>4, <3>1, ConcatEmptySeq
    <3> QED BY <3>1, <3>2 DEF Pend
  <2> QED BY <2>1, <2>2
<1> QED BY <1>2, <1>5

(* Reading ahead moves messages and handles none. *)
LEMMA PendKept ==
  ASSUME TypeOK,
         Wake \/ Dispatched \/ WakeForX \/ Click \/ HideMenu \/ ChooseRow \/ Draw
  PROVE  Pend' = Pend /\ items' = items
<1>1. inbox \in Seq(Message) /\ wire \in Seq(Message) /\ inbox \o wire \in Seq(Message)
  BY DEF TypeOK
<1>2. items' = items
  BY DEF Wake, Dispatched, WakeForX, Click, HideMenu, ChooseRow, menu_hide, Draw
<1>3. \/ inbox' = inbox /\ wire' = wire
      \/ inbox' = inbox \o wire /\ wire' = <<>>
      \/ inbox = <<>> /\ inbox' = wire /\ wire' = <<>>
  BY DEF Wake, Dispatched, WakeForX, Click, HideMenu, ChooseRow, Calls, Draw
<1>4. /\ wire \o <<>> = wire /\ <<>> \o wire = wire
      /\ (inbox \o wire) \o <<>> = inbox \o wire
  BY <1>1, ConcatEmptySeq
<1> QED BY <1>2, <1>3, <1>4 DEF Pend

LEMMA MessagesAssociate ==
  \A p, q, r \in Seq(Message) : (p \o q) \o r = p \o (q \o r)
<1> SUFFICES ASSUME NEW M PROVE \A p, q, r \in Seq(M) : (p \o q) \o r = p \o (q \o r)
  OBVIOUS
<1> QED BY ConcatAssociative

LEMMA PendSent ==
  ASSUME TypeOK, NEW ms \in Seq(Message), Send(ms), inbox' = inbox
  PROVE  Pend' = Pend \o ms
<1>1. inbox \in Seq(Message) /\ wire \in Seq(Message) /\ wire' = wire \o ms
  BY DEF TypeOK, Send
<1>2. (inbox \o wire) \o ms = inbox \o (wire \o ms)
  BY <1>1, MessagesAssociate
<1> QED BY <1>1, <1>2 DEF Pend

(* No accounts change while the messages and the items stay. *)
LEMMA AccountsStay ==
  ASSUME Accounts, Pend' = Pend, items' = items, UNCHANGED <<bus, lost>>
  PROVE  Accounts'
<1>1. UNCHANGED <<up, ownerOf, lost>>
  BY DEF bus
<1>2. \A c : Claims(c)' = Claims(c) /\ Due(c)' = Due(c)
  BY DEF Claims, Known, Coming, Due, RegAt, LossAt
<1>3. \A c : Leaving(c) => Leaving(c)'
  BY <1>2 DEF Leaving, LossAt, RegAt
<1>4. OwnersOnBus' /\ OwnPaths' /\ LiveOwn'
  BY <1>1, <1>2 DEF Accounts, OwnersOnBus, OwnPaths, LiveOwn, NamesOf
<1>5. GoneLeaving'
  BY <1>1, <1>3 DEF Accounts, GoneLeaving
<1> QED BY <1>4, <1>5 DEF Accounts

LEMMA DispatchAccounts ==
  ASSUME IInv, Accounts, Dispatch
  PROVE  Accounts'
<1> DEFINE m == Pend[1]
<1>1. /\ Pend \in Seq(Message) /\ Pend # <<>> /\ Pend' = Tail(Pend) /\ m = Head(inbox)
      /\ TypeOK /\ UniqueServices /\ LossesPending /\ items \in Seq(Item)
  BY PendIsMessages, PendHandled DEF IInv, TypeOK, Item
<1>2. 1 \in 1..Len(Pend) /\ m \in Message
  BY <1>1, Tailed
<1>3. UNCHANGED <<up, ownerOf, lost>>
  BY <1>1, DispatchKeepsOrRemoves DEF bus
<1>4. Register(m) \/ IconSignal(m) \/ OwnerSignal(m)
  BY <1>1 DEF Dispatch
<1>5. \A c : Coming(c)' \subseteq Coming(c)
  BY <1>1, TailedAt
<1> HIDE DEF m
<1>6. OwnersOnBus' /\ OwnPaths'
  <2>1. OwnPaths'
    BY <1>1, Tailed DEF Accounts, OwnPaths
  <2> QED BY <1>3, <2>1 DEF Accounts, OwnersOnBus
<1>7. CASE Register(m)
  <2>1. m.kind = "register"
    BY <1>7 DEF Register
  <2>2. ASSUME NEW c \in Clients
        PROVE  Claims(c)' \subseteq Claims(c)
                 \union (IF c \in up THEN NamesOf(c) \union {c} ELSE {})
    <3>1. CASE c = GetOwner(m.service, m.sender)
      <4>1. Known(c)' \subseteq Known(c) \union {m.service}
        BY <1>1, <1>2, <1>7, <3>1, RegisterKnown
      <4>2. m.service \in Coming(c) \/ (c \in up /\ m.service \in NamesOf(c) \union {c})
        BY <1>1, <1>2, <2>1, <3>1, OwnerClaimed DEF m, Accounts
      <4> QED BY <1>5, <4>1, <4>2 DEF Claims
    <3>2. CASE c # GetOwner(m.service, m.sender)
      <4>1. Known(c)' \subseteq Known(c)
        BY <1>1, <1>2, <1>7, <3>2, RegisterKnown
      <4> QED BY <1>5, <4>1 DEF Claims
    <3> QED BY <3>1, <3>2
  <2>3. LiveOwn'
    <3>1. up \subseteq Clients
      BY <1>1 DEF TypeOK
    <3> QED BY <1>3, <2>2, <3>1 DEF Accounts, LiveOwn, NamesOf
  <2>4. GoneLeaving'
    <3> SUFFICES ASSUME NEW c \in Clients \ (up \union lost) PROVE Leaving(c)'
      BY <1>3 DEF GoneLeaving
    <3>1. Claims(c)' \subseteq Claims(c) /\ Leaving(c)
      BY <2>2 DEF Accounts, GoneLeaving
    <3>2. ~LossAt(1, c)
      BY <2>1 DEF LossAt, m
    <3> QED BY <1>1, <3>1, <3>2, HeardOther
  <2> QED BY <1>6, <2>3, <2>4 DEF Accounts
<1>8. CASE IconSignal(m)
  <2>1. m.kind = "icon"
    BY <1>8 DEF IconSignal
  <2>2. \A c : Claims(c)' \subseteq Claims(c)
    BY <1>1, <1>2, <1>5, <1>8, IconSignalKnown DEF Claims
  <2>3. LiveOwn'
    BY <1>3, <2>2 DEF Accounts, LiveOwn, NamesOf
  <2>4. GoneLeaving'
    <3> SUFFICES ASSUME NEW c \in Clients \ (up \union lost) PROVE Leaving(c)'
      BY <1>3 DEF GoneLeaving
    <3>1. Leaving(c)
      BY DEF Accounts, GoneLeaving
    <3>2. ~LossAt(1, c)
      BY <2>1 DEF LossAt, m
    <3> QED BY <1>1, <2>2, <3>1, <3>2, HeardOther
  <2> QED BY <1>6, <2>3, <2>4 DEF Accounts
<1>9. CASE OwnerSignal(m)
  <2> DEFINE i == FindByOwner(m.old)
  <2>1. m.kind = "changed"
    BY <1>9 DEF OwnerSignal
  <2>2. /\ i \in 0..Len(items) /\ (i # 0 => items[i].owner = m.old)
        /\ i = 0 => \A j \in 1..Len(items) : items[j].owner # m.old
    BY <1>1, FoundByOwner
  <2>3. \/ items' = items
        \/ NameLost(m) /\ i # 0 /\ items' = WithoutItem(i)
    BY <1>9 DEF OwnerSignal, RemoveByOwner
  <2>4. NameLost(m) /\ i # 0 => items' = WithoutItem(i)
    BY <1>9 DEF OwnerSignal, RemoveByOwner
  <2> HIDE DEF i
  <2>5. i # 0 => i \in 1..Len(items)
    BY <2>2
  <2>6. \A c : Known(c)' \subseteq Known(c)
    <3>1. CASE items' = items
      BY <3>1 DEF Known
    <3>2. CASE i # 0 /\ items' = WithoutItem(i)
      BY <1>1, <2>5, <3>2, WithoutKnown
    <3> QED BY <2>3, <3>1, <3>2
  <2>7. \A c : Claims(c)' \subseteq Claims(c)
    BY <1>5, <2>6 DEF Claims
  <2>8. LiveOwn'
    BY <1>3, <2>7 DEF Accounts, LiveOwn, NamesOf
  <2>9. GoneLeaving'
    <3> SUFFICES ASSUME NEW c \in Clients \ (up \union lost) PROVE Leaving(c)'
      BY <1>3 DEF GoneLeaving
    <3>1. Leaving(c)
      BY DEF Accounts, GoneLeaving
    <3>2. CASE LossAt(1, c)
      <4>1. NameLost(m) /\ m.old = c
        BY <3>2 DEF LossAt, m
      <4>2. Known(c) # {} => \E s \in Known(c) : s \notin Known(c)'
        <5>1. CASE i = 0
          BY <2>2, <4>1, <5>1 DEF Known
        <5>2. CASE i # 0
          <6>1. items' = WithoutItem(i) /\ i \in 1..Len(items) /\ items[i].owner = c
            BY <2>2, <2>4, <2>5, <4>1, <5>2
          <6> QED BY <1>1, <6>1, WithoutKnown
        <5> QED BY <5>1, <5>2
      <4> QED BY <1>1, <2>6, <3>1, <3>2, <4>2, HeardLoss
    <3>3. CASE ~LossAt(1, c)
      BY <1>1, <2>7, <3>1, <3>3, HeardOther
    <3> QED BY <3>2, <3>3
  <2> QED BY <1>6, <2>8, <2>9 DEF Accounts
<1> QED BY <1>4, <1>7, <1>8, <1>9

LEMMA LoopAccounts == ASSUME IInv, Accounts, Loop PROVE Accounts'
<1>1. CASE Dispatch
  BY <1>1, DispatchAccounts
<1>2. CASE ~Dispatch
  <2>1. Pend' = Pend /\ items' = items
    BY <1>2, PendKept DEF Loop, IInv
  <2>2. UNCHANGED <<bus, lost>>
    BY LoopReads DEF IInv
  <2> QED BY <2>1, <2>2, AccountsStay
<1> QED BY <1>1, <1>2

(* Messages that are about nobody that is gone. *)
LEMMA SentAccounts ==
  ASSUME TypeOK, GoneLeaving, OwnPaths, NEW ms \in Seq(Message), Pend' = Pend \o ms,
         items' = items, up' \subseteq up, lost \subseteq lost',
         \A c \in up \ up' : c \in lost',
         \A i \in 1..Len(ms) :
           /\ ms[i].kind = "changed" /\ NameLost(ms[i]) => ms[i].old \in up
           /\ ms[i].kind = "register" =>
                /\ ms[i].sender \in up
                /\ ms[i].service \in Clients => ms[i].service = ms[i].sender
  PROVE  GoneLeaving' /\ OwnPaths'
<1>1. Pend \in Seq(Message)
  BY PendIsMessages
<1>2. OwnPaths'
  BY <1>1, PathsAppended
<1>3. ASSUME NEW c \in Clients \ (up' \union lost') PROVE Leaving(c)'
  <2>1. c \in Clients \ (up \union lost)
    BY <1>3
  <2>2. \A i \in 1..Len(ms) : /\ ms[i].kind = "changed" /\ NameLost(ms[i]) => ms[i].old # c
                              /\ ms[i].kind = "register" => ms[i].sender # c
    BY <2>1
  <2> QED BY <1>1, <2>1, <2>2, NotAbout DEF GoneLeaving
<1> QED BY <1>2, <1>3 DEF GoneLeaving

(* What one message adds to the claims of a client. *)
LEMMA OneSent ==
  ASSUME TypeOK, NEW m \in Message, Pend' = Pend \o <<m>>, items' = items, NEW c
  PROVE  Claims(c)' \subseteq Claims(c) \union
           (IF m.kind = "register" /\ m.sender = c THEN {m.service} ELSE {})
<1> DEFINE ms == <<m>>
<1>1. ms \in Seq(Message) /\ Len(ms) = 1 /\ ms[1] = m
  OBVIOUS
<1> HIDE DEF ms
<1>2. \A k \in 1..Len(Pend') : \/ k \in 1..Len(Pend) /\ Pend'[k] = Pend[k]
                               \/ Pend'[k] = m
  <2>1. Pend' = Pend \o ms /\ Pend \in Seq(Message)
    BY PendIsMessages DEF ms
  <2>2. /\ Len(Pend) \in Nat
        /\ \A k \in 1..Len(Pend) : Pend'[k] = Pend[k]
        /\ \A k \in 1..Len(Pend') : k > Len(Pend) =>
             k - Len(Pend) \in 1..Len(ms) /\ Pend'[k] = ms[k - Len(Pend)]
    BY <1>1, <2>1, Appended
  <2> SUFFICES ASSUME NEW k \in 1..Len(Pend'), k \notin 1..Len(Pend) PROVE Pend'[k] = m
    BY <2>2
  <2>3. k > Len(Pend)
    BY <2>2
  <2>4. k - Len(Pend) = 1
    BY <1>1, <2>2, <2>3
  <2> QED BY <1>1, <2>2, <2>3, <2>4
<1>3. Known(c)' = Known(c)
  BY DEF Known
<1> QED BY <1>2, <1>3 DEF Claims, Coming, RegAt

LEMMA OneSentAccounts ==
  ASSUME TypeOK, Accounts, NEW m \in Message, Send(<<m>>), UNCHANGED <<up, inbox, dock>>,
         lost \subseteq lost',
         m.kind = "changed" /\ NameLost(m) => m.old \in up,
         m.kind = "register" => /\ m.sender \in up
                                /\ m.service \in NamesOf(m.sender) \union {m.sender},
         \A n \in Names : ownerOf'[n] \in up \union {None},
         \A n \in Names : ownerOf[n] \in up \ lost' => ownerOf'[n] = ownerOf[n]
  PROVE  Accounts'
<1> DEFINE ms == <<m>>
<1>1. ms \in Seq(Message) /\ Len(ms) = 1 /\ ms[1] = m
  OBVIOUS
<1>2. Pend' = Pend \o ms /\ items' = items
  BY <1>1, PendSent DEF dock
<1>3. m.kind = "register" /\ m.service \in Clients => m.service = m.sender
  BY TrayAssumption DEF NamesOf
<1>4. GoneLeaving' /\ OwnPaths'
  <2> HIDE DEF ms
  <2> QED BY <1>1, <1>2, <1>3, SentAccounts DEF Accounts
<1>5. OwnersOnBus'
  BY DEF OwnersOnBus
<1>6. ASSUME NEW c \in up \ lost' PROVE Claims(c)' \subseteq NamesOf(c)' \union {c}
  <2>1. Claims(c)' \subseteq Claims(c) \union
          (IF m.kind = "register" /\ m.sender = c THEN {m.service} ELSE {})
    BY <1>2, OneSent
  <2>2. Claims(c) \subseteq NamesOf(c) \union {c}
    BY <1>6 DEF Accounts, LiveOwn
  <2>3. NamesOf(c) \subseteq NamesOf(c)'
    BY <1>6 DEF NamesOf
  <2> QED BY <2>1, <2>2, <2>3
<1>7. LiveOwn'
  BY <1>6 DEF LiveOwn
<1> QED BY <1>4, <1>5, <1>7 DEF Accounts

LEMMA QuitTells ==
  ASSUME NEW c \in Clients, NEW ms,
         ms = [i \in 1..Cardinality(NamesOf(c)) |-> Changed(SetToSeq(NamesOf(c))[i], c, None)]
                \o <<Changed(c, c, None)>>
  PROVE  ms \in Seq(Message) /\ \A i \in 1..Len(ms) : ms[i].kind = "changed" /\ ms[i].old = c
<1>1. ms \in Seq(Message)
  <2>1. c \notin {}
    OBVIOUS
  <2> QED BY <2>1, QuitLoses
<1>2. PICK name \in [1..Len(ms) -> NamesOf(c) \union {c}] :
        \A i \in 1..Len(ms) : ms[i] = Changed(name[i], c, None)
  <2>1. \E name \in [1..Len(ms) -> NamesOf(c) \union {c}] :
          /\ \A i \in 1..Len(ms) : ms[i] = Changed(name[i], c, None)
          /\ IsInjective(name)
    BY QuitListsAll
  <2> QED BY <2>1
<1>3. \A n : Changed(n, c, None).kind = "changed" /\ Changed(n, c, None).old = c
  BY DEF Changed
<1> QED BY <1>1, <1>2, <1>3

LEMMA QuitAccounts == ASSUME IInv, Accounts, Quit PROVE Accounts'
<1> DEFINE sent(c) == [i \in 1..Cardinality(NamesOf(c)) |->
                         Changed(SetToSeq(NamesOf(c))[i], c, None)] \o <<Changed(c, c, None)>>
<1>1. PICK c \in up :
        /\ up' = up \ {c} /\ Send(sent(c))
        /\ ownerOf' = [n \in Names |-> IF ownerOf[n] = c THEN None ELSE ownerOf[n]]
        /\ UNCHANGED <<inbox, dock, lost>>
  BY DEF Quit
<1>2. PICK ms : ms = sent(c)
  OBVIOUS
<1>3. TypeOK /\ LossesPending /\ c \in Clients /\ up \subseteq Clients
  BY DEF IInv, TypeOK
<1>4. ms = [i \in 1..Cardinality(NamesOf(c)) |-> Changed(SetToSeq(NamesOf(c))[i], c, None)]
             \o <<Changed(c, c, None)>>
  BY <1>2
<1>5. ms \in Seq(Message)
  BY <1>3, <1>4, QuitTells
<1>6. \A i \in 1..Len(ms) : ms[i].kind = "changed" /\ ms[i].old = c
  BY <1>3, <1>4, QuitTells
<1>7. Pend' = Pend \o ms /\ items' = items
  BY <1>1, <1>2, <1>3, <1>5, PendSent DEF dock
<1> HIDE DEF sent
<1>8. ASSUME NEW d \in Clients, d # c
      PROVE  /\ Claims(d)' = Claims(d)
             /\ Leaving(d) => Leaving(d)'
  <2>1. \A i \in 1..Len(ms) : /\ ms[i].kind = "changed" /\ NameLost(ms[i]) => ms[i].old # d
                              /\ ms[i].kind = "register" => ms[i].sender # d
    BY <1>6, <1>8
  <2> QED BY <1>3, <1>5, <1>7, <2>1, NotAbout, PendIsMessages
<1>9. OwnersOnBus'
  BY <1>1 DEF Accounts, OwnersOnBus
<1>10. OwnPaths'
  <2>1. \A i \in 1..Len(ms) :
          ms[i].kind = "register" /\ ms[i].service \in Clients => ms[i].service = ms[i].sender
    BY <1>6
  <2> QED BY <1>3, <1>5, <1>7, <2>1, PathsAppended, PendIsMessages DEF Accounts
<1>11. LiveOwn'
  <2> SUFFICES ASSUME NEW d \in up' \ lost' PROVE Claims(d)' \subseteq NamesOf(d)' \union {d}
    BY DEF LiveOwn
  <2>1. d # c /\ d \in up \ lost /\ d \in Clients
    BY <1>1, <1>3
  <2>2. Claims(d) \subseteq NamesOf(d) \union {d}
    BY <2>1 DEF Accounts, LiveOwn
  <2>3. NamesOf(d) \subseteq NamesOf(d)'
    BY <1>1, <2>1 DEF NamesOf
  <2> QED BY <1>8, <2>1, <2>2, <2>3
<1>12. GoneLeaving'
  <2> SUFFICES ASSUME NEW d \in Clients \ (up' \union lost') PROVE Leaving(d)'
    BY DEF GoneLeaving
  <2>1. CASE d = c
    <3>1. c \notin lost
      BY <1>1, <2>1
    <3> QED BY <1>3, <1>4, <1>7, <2>1, <3>1, QuitLeaves DEF Accounts
  <2>2. CASE d # c
    <3>1. d \in Clients \ (up \union lost)
      BY <1>1, <2>2
    <3> QED BY <1>8, <2>2, <3>1 DEF Accounts, GoneLeaving
  <2> QED BY <2>1, <2>2
<1> QED BY <1>9, <1>10, <1>11, <1>12 DEF Accounts

LEMMA OutsideAccounts == ASSUME IInv, Accounts, Outside PROVE Accounts'
<1>1. /\ TypeOK /\ up \subseteq Clients /\ items \in Seq(Item) /\ lost \subseteq Clients
      /\ ownerOf \in [Names -> Clients \union {None}]
      /\ \A n \in Names : ownerOf[n] \in up \union {None}
  BY DEF IInv, TypeOK, Item, Accounts, OwnersOnBus
<1>2. CASE RegisterItem
  <2>1. PICK c \in up : \E s \in NamesOf(c) \union {c} :
               /\ Send(<<[kind |-> "register", sender |-> c, service |-> s]>>)
               /\ UNCHANGED <<bus, inbox, dock, lost>>
    BY <1>2 DEF RegisterItem
  <2>2. PICK s \in NamesOf(c) \union {c} :
               /\ Send(<<[kind |-> "register", sender |-> c, service |-> s]>>)
               /\ UNCHANGED <<bus, inbox, dock, lost>>
    BY <2>1
  <2> DEFINE m == [kind |-> "register", sender |-> c, service |-> s]
  <2>3. m \in Message
    BY <1>1 DEF Message, Services, NamesOf
  <2>4. /\ m.kind = "register" /\ m.sender = c /\ m.service = s
        /\ Send(<<m>>) /\ UNCHANGED <<up, ownerOf, inbox, dock, lost>>
    BY <2>2 DEF bus
  <2> HIDE DEF m
  <2> QED BY <1>1, <2>3, <2>4, OneSentAccounts
<1>3. CASE NewIcon
  <2>1. PICK c \in up : /\ Send(<<[kind |-> "icon", sender |-> c]>>)
                        /\ UNCHANGED <<bus, inbox, dock, lost>>
    BY <1>3 DEF NewIcon
  <2> DEFINE m == [kind |-> "icon", sender |-> c]
  <2>2. m \in Message /\ m.kind = "icon"
    BY <1>1 DEF Message
  <2>3. Send(<<m>>) /\ UNCHANGED <<up, ownerOf, inbox, dock, lost>>
    BY <2>1 DEF bus
  <2> HIDE DEF m
  <2> QED BY <1>1, <2>2, <2>3, OneSentAccounts
<1>4. CASE Acquire
  <2>1. PICK c \in up, n \in Names :
               /\ ownerOf' = [ownerOf EXCEPT ![n] = c]
               /\ Send(<<Changed(n, ownerOf[n], c)>>)
               /\ lost' = lost \union ({ownerOf[n]} \ {None})
               /\ UNCHANGED <<up, inbox, dock>>
    BY <1>4 DEF Acquire
  <2> DEFINE m == Changed(n, ownerOf[n], c)
  <2>2. m \in Message /\ m.kind = "changed" /\ ~NameLost(m)
    <3>1. ownerOf[n] \in Clients \union {None} /\ c \in Clients /\ c # None /\ n \in Services
      BY <1>1, TrayAssumption DEF Services
    <3> QED BY <3>1, ChangedIsMessage DEF Changed
  <2>3. /\ \A k \in Names : ownerOf'[k] \in up \union {None}
        /\ \A k \in Names : ownerOf[k] \in up \ lost' => ownerOf'[k] = ownerOf[k]
    <3>1. \A k \in Names : ownerOf'[k] = IF k = n THEN c ELSE ownerOf[k]
      BY <1>1, <2>1
    <3>2. ownerOf[n] \in up => ownerOf[n] \in lost'
      BY <1>1, <2>1, TrayAssumption
    <3> QED BY <1>1, <3>1, <3>2
  <2>4. Send(<<m>>) /\ UNCHANGED <<up, inbox, dock>> /\ lost \subseteq lost'
    BY <2>1
  <2> HIDE DEF m
  <2> QED BY <1>1, <2>2, <2>3, <2>4, OneSentAccounts
<1>5. CASE Release
  <2>1. PICK c \in up, n \in Names :
               /\ ownerOf[n] = c /\ ownerOf' = [ownerOf EXCEPT ![n] = None]
               /\ Send(<<Changed(n, c, None)>>) /\ lost' = lost \union {c}
               /\ UNCHANGED <<up, inbox, dock>>
    BY <1>5 DEF Release, NamesOf
  <2> DEFINE m == Changed(n, c, None)
  <2>2. m \in Message /\ m.kind = "changed" /\ m.old = c
    BY <1>1, <2>1, ChangedIsMessage DEF Services, Changed
  <2>3. /\ \A k \in Names : ownerOf'[k] \in up \union {None}
        /\ \A k \in Names : ownerOf[k] \in up \ lost' => ownerOf'[k] = ownerOf[k]
    BY <1>1, <2>1
  <2>4. Send(<<m>>) /\ UNCHANGED <<up, inbox, dock>> /\ lost \subseteq lost'
    BY <2>1
  <2> HIDE DEF m
  <2> QED BY <1>1, <2>2, <2>3, <2>4, OneSentAccounts
<1> QED BY <1>2, <1>3, <1>4, <1>5, QuitAccounts DEF Outside

LEMMA InitAccounts == Init => Accounts
<1> SUFFICES ASSUME Init PROVE Accounts
  OBVIOUS
<1>1. Pend = <<>> /\ items = <<>>
  <2>1. \A S : <<>> \in Seq(S)
    OBVIOUS
  <2> QED BY <2>1, ConcatEmptySeq DEF Init, Pend
<1>2. Len(Pend) = 0 /\ Len(items) = 0
  BY <1>1
<1>3. \A c : Claims(c) = {}
  BY <1>2 DEF Claims, Known, Coming
<1>4. OwnersOnBus /\ GoneLeaving
  BY DEF Init, OwnersOnBus, GoneLeaving
<1>5. OwnPaths /\ LiveOwn
  BY <1>2, <1>3 DEF OwnPaths, LiveOwn
<1> QED BY <1>4, <1>5 DEF Accounts

(* The accounts of losses and claims are kept by every step. *)
THEOREM AccountsAreKept == Spec => []Accounts
<1>1. IInv /\ Accounts /\ [Next]_vars => Accounts'
  <2> SUFFICES ASSUME IInv, Accounts, [Next]_vars PROVE Accounts'
    OBVIOUS
  <2>1. CASE UNCHANGED vars
    <3>1. Pend' = Pend /\ items' = items /\ UNCHANGED <<bus, lost>>
      BY <2>1 DEF vars, Pend, bus
    <3> QED BY <3>1, AccountsStay
  <2> QED BY <2>1, LoopAccounts, OutsideAccounts DEF Next
<1> QED BY <1>1, InitAccounts, Invariance, PTL DEF Spec

(* No application that has gone keeps an item, unless it lost a name before:  *)
(* sni_remove_by_owner takes one item for each name that is lost, and that is *)
(* enough.                                                                    *)
THEOREM NoGhostStays == Spec => []NoGhost
<1>1. IInv /\ Accounts => NoGhost
  <2> SUFFICES ASSUME IInv, Accounts, wire = <<>>, inbox = <<>>, NEW i \in DOMAIN items,
                      items[i].owner \notin up \union lost
               PROVE  FALSE
    BY DEF NoGhost
  <2> DEFINE c == items[i].owner
  <2>1. items \in Seq(Item) /\ i \in 1..Len(items) /\ c \in Clients \ (up \union lost)
    <3>1. items \in Seq(Item)
      BY DEF IInv, TypeOK, Item
    <3>2. i \in 1..Len(items) /\ items[i] \in Item
      BY <3>1
    <3>3. c \in Clients
      BY <3>2 DEF Item
    <3> QED BY <3>1, <3>2, <3>3
  <2>2. Leaving(c) /\ items[i].service \in Claims(c)
    BY <2>1 DEF Accounts, GoneLeaving, Claims, Known
  <2>3. Due(c) = {}
    <3>1. Pend = <<>>
      <4>1. \A S : <<>> \in Seq(S)
        OBVIOUS
      <4> QED BY <4>1, ConcatEmptySeq DEF Pend
    <3>2. Len(Pend) = 0
      BY <3>1
    <3> QED BY <3>2 DEF Due
  <2> HIDE DEF c
  <2>4. /\ IsFiniteSet(Claims(c)) /\ Cardinality(Claims(c)) <= Cardinality({})
    BY <2>2, <2>3 DEF Leaving
  <2>5. Cardinality({}) = 0 /\ Cardinality(Claims(c)) \in Nat
    BY <2>4, FS_EmptySet, FS_CardinalityType
  <2>6. Claims(c) = {}
    BY <2>4, <2>5, FS_EmptySet
  <2> QED BY <2>2, <2>6
<1> QED BY <1>1, Invariance, AccountsAreKept, PTL
================================================================================
