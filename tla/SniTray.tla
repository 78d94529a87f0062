-------------------------------- MODULE SniTray --------------------------------
(****************************************************************************)
(* The tray of the dock: applications register status notifier items with   *)
(* the dock over D-Bus, the dock keeps one record per item, draws their      *)
(* icons and sends clicks to the item at the place clicked.                  *)
(*                                                                          *)
(* The bus sends its messages down the socket, `wire', in order.  libdbus    *)
(* moves them to a queue of its own, `inbox', when it reads, and a blocking  *)
(* call reads whatever comes before its reply.  poll() sees the wire only.   *)
(* A handler's calls are made at one moment.  Clients own well-known names,  *)
(* and a client's unique name is never used again.                           *)
(****************************************************************************)
EXTENDS Integers, Sequences, FiniteSets, Functions, SequencesExt

CONSTANTS
  Clients,      \* applications, by the unique names of their connections
  Names,        \* well-known names
  None,
  MaxMessages   \* bound: the messages that the dock has not handled

ASSUME TrayAssumption ==
  /\ Clients \intersect Names = {} /\ None \notin Clients \union Names
  /\ IsFiniteSet(Names)
  /\ MaxMessages \in Nat

Services == Clients \union Names

VARIABLES
  up,       \* the clients that have not left the bus
  ownerOf,  \* the bus: the client that owns a well-known name, or None
  wire,     \* messages sent to the dock and not read
  inbox,    \* messages libdbus has read and not dispatched
  items,    \* sni->items: service, owner, and whether it has an icon
  drawn,    \* the services of the icons on the dock, tray_count of them
  redraw,   \* sni->dirty, then redraw_pending
  pc,       \* the main thread: poll, dispatch or events
  menu,     \* the menu that is up: the index and the service it was opened for
  strayed,  \* history: the item of the menu was removed or moved while it was up
  lost      \* history: clients that lost a name while they stayed on the bus

bus == <<up, ownerOf>>
popup == <<menu, strayed>>
dock == <<items, drawn, redraw, pc, popup>>
vars == <<up, ownerOf, wire, inbox, items, drawn, redraw, pc, menu, strayed, lost>>

Init ==
  /\ up = Clients /\ ownerOf = [n \in Names |-> None]
  /\ wire = <<>> /\ inbox = <<>> /\ items = <<>> /\ drawn = <<>>
  /\ redraw = FALSE /\ pc = "poll" /\ lost = {}
  /\ menu = None /\ strayed = FALSE

--------------------------------------------------------------------------------
(* The applications and the bus. *)

Message == [kind : {"register"}, sender : Clients, service : Services]
  \union [kind : {"changed"}, name : Services, old : Clients \union {None},
          new : Clients \union {None}]
  \union [kind : {"icon"}, sender : Clients]

Send(ms) == /\ Len(wire) + Len(inbox) + Len(ms) <= MaxMessages
            /\ wire' = wire \o ms

Changed(n, old, new) == [kind |-> "changed", name |-> n, old |-> old, new |-> new]

NamesOf(c) == {n \in Names : ownerOf[n] = c}

(* A client registers itself by its object path or by a name it owns. *)
RegisterItem ==
  /\ \E c \in up : \E s \in NamesOf(c) \union {c} :
       Send(<<[kind |-> "register", sender |-> c, service |-> s]>>)
  /\ UNCHANGED <<bus, inbox, dock, lost>>

(* A signal from a client without an item would be ignored. *)
NewIcon ==
  /\ \E c \in {it.owner : it \in Range(items)} \intersect up :
       Send(<<[kind |-> "icon", sender |-> c]>>)
  /\ UNCHANGED <<bus, inbox, dock, lost>>

(* A name gets an owner, another owner, or none. *)
Acquire ==
  /\ \E c \in up, n \in Names :
       /\ ownerOf[n] # c /\ ownerOf' = [ownerOf EXCEPT ![n] = c]
       /\ Send(<<Changed(n, ownerOf[n], c)>>)
       /\ lost' = lost \union ({ownerOf[n]} \ {None})
  /\ UNCHANGED <<up, inbox, dock>>

Release ==
  /\ \E c \in up : \E n \in NamesOf(c) :
       /\ ownerOf' = [ownerOf EXCEPT ![n] = None]
       /\ Send(<<Changed(n, c, None)>>) /\ lost' = lost \union {c}
  /\ UNCHANGED <<up, inbox, dock>>

(* A client that quits or dies loses its names, its unique name last. *)
Quit ==
  /\ \E c \in up :
       /\ up' = up \ {c}
       /\ ownerOf' = [n \in Names |-> IF ownerOf[n] = c THEN None ELSE ownerOf[n]]
       /\ Send([i \in 1..Cardinality(NamesOf(c)) |->
                  Changed(SetToSeq(NamesOf(c))[i], c, None)] \o <<Changed(c, c, None)>>)
  /\ UNCHANGED <<inbox, dock, lost>>

Outside == RegisterItem \/ NewIcon \/ Acquire \/ Release \/ Quit

--------------------------------------------------------------------------------
(* nizam_dock_sni_process: called when the socket is readable. *)

Wake ==
  /\ pc = "poll" /\ wire # <<>> /\ pc' = "dispatch" /\ redraw' = FALSE
  /\ IF inbox = <<>> THEN inbox' = wire /\ wire' = <<>> ELSE UNCHANGED <<wire, inbox>>
  /\ UNCHANGED <<bus, items, drawn, popup, lost>>

(* The index of the first item with the value, 0 if there is none. *)
FindByServiceLast(s) == IF items # <<>> /\ Last(items).service = s THEN Len(items) ELSE 0
FindByService(s) == SelectInSeq(items, LAMBDA it : it.service = s)
FindByOwner(c) == SelectInSeq(items, LAMBDA it : it.owner = c)

(* Dispatching a message; a handler that calls the bus reads the wire too. *)
Handled(calls) ==
  /\ inbox' = Tail(inbox) \o (IF calls THEN wire ELSE <<>>)
  /\ wire' = IF calls THEN <<>> ELSE wire
  /\ UNCHANGED <<bus, drawn, pc, menu, lost>>

(* GetNameOwner, and the sender when the name has no owner any more. *)
GetOwnerNow(s, sender) == IF s \in Clients THEN s ELSE ownerOf[s]
GetOwner(s, sender) ==
  IF s \in Clients THEN s ELSE IF ownerOf[s] = None THEN sender ELSE ownerOf[s]

(* sni_refresh_item: an icon that is not found leaves the old one in place. *)
Refreshed(it, found) == [it EXCEPT !.icon = @ \/ found]

(* RegisterStatusNotifierItem. *)
Register(m) ==
  /\ m.kind = "register" /\ Handled(TRUE) /\ UNCHANGED strayed
  /\ \E found \in BOOLEAN :
       LET i == FindByService(m.service)
           owner == GetOwner(m.service, m.sender)
           it == IF i = 0 THEN [service |-> m.service, owner |-> owner, icon |-> FALSE]
                          ELSE [items[i] EXCEPT !.owner = owner]
       IN /\ items' = IF i = 0 THEN Append(items, Refreshed(it, found))
                               ELSE [items EXCEPT ![i] = Refreshed(it, found)]
          /\ redraw' = (redraw \/ found)

(* NewIcon, NewAttentionIcon, NewOverlayIcon and NewStatus. *)
IconSignal(m) ==
  /\ m.kind = "icon" /\ Handled(FindByOwner(m.sender) # 0) /\ UNCHANGED strayed
  /\ IF FindByOwner(m.sender) = 0 THEN UNCHANGED <<items, redraw>>
     ELSE \E found \in BOOLEAN :
            /\ items' = [items EXCEPT ![FindByOwner(m.sender)] = Refreshed(@, found)]
            /\ redraw' = (redraw \/ found)

(* sni_remove_by_owner: the last item takes the place of the one removed.    *)
WithoutItemShifted(i) == RemoveAt(items, i)
WithoutItemCut(i) == SubSeq(items, 1, Len(items) - 1)
WithoutItem(i) == [j \in 1..(Len(items) - 1) |-> items[IF j = i THEN Len(items) ELSE j]]

(* The item of the menu goes, or is the last and takes the place of another. *)
MovesMenuItem(i) ==
  menu # None /\ \E j \in {i, Len(items)} : items[j].service = menu.of

RemoveByOwnerQuiet(c) ==
  LET i == FindByOwner(c)
  IN /\ items' = (IF i = 0 THEN items ELSE WithoutItem(i)) /\ UNCHANGED redraw
     /\ strayed' = (strayed \/ (i # 0 /\ MovesMenuItem(i)))

RemoveByOwner(c) ==
  LET i == FindByOwner(c)
  IN IF i = 0 THEN UNCHANGED <<items, redraw, strayed>>
     ELSE /\ items' = WithoutItem(i) /\ redraw' = TRUE
          /\ strayed' = (strayed \/ MovesMenuItem(i))

(* NameOwnerChanged: any name that has lost its owner for good. *)
NameLostOwned(m) == m.name \in Names /\ m.new = None
NameLost(m) == m.old # None /\ m.new = None

OwnerSignal(m) ==
  /\ m.kind = "changed" /\ Handled(FALSE)
  /\ IF NameLost(m) THEN RemoveByOwner(m.old) ELSE UNCHANGED <<items, redraw, strayed>>

Dispatch ==
  /\ pc = "dispatch" /\ inbox # <<>>
  /\ LET m == Head(inbox) IN Register(m) \/ IconSignal(m) \/ OwnerSignal(m)

Dispatched ==
  /\ pc = "dispatch" /\ inbox = <<>> /\ pc' = "events"
  /\ UNCHANGED <<bus, wire, inbox, items, drawn, redraw, popup, lost>>

--------------------------------------------------------------------------------
(* The user's events, and drawing. *)

(* Something comes from the X server while the bus is silent. *)
WakeForX ==
  /\ pc = "poll" /\ wire = <<>> /\ pc' = "events"
  /\ UNCHANGED <<bus, wire, inbox, items, drawn, redraw, popup, lost>>

(* A blocking call to an item reads the socket until its answer comes.       *)
Calls == inbox' = inbox \o wire /\ wire' = <<>>

(* The menu of the item with an index, if it gives one: the index is kept.   *)
menu_show(i) == menu' \in {None, [idx |-> i, of |-> items[i].service]}

(* hit_test_tray finds the place among the icons drawn; the item that has    *)
(* that index now is called.  A menu that was up goes.                       *)
Click ==
  /\ pc = "events" /\ Calls /\ strayed' = FALSE
  /\ \E i \in DOMAIN drawn \intersect DOMAIN items : menu_show(i)
  /\ UNCHANGED <<bus, items, drawn, redraw, pc, lost>>

(* The menu goes: a press beside it, or on a row that cannot be chosen.      *)
menu_hide ==
  /\ pc = "events" /\ menu # None /\ menu' = None /\ strayed' = FALSE
  /\ UNCHANGED <<bus, items, drawn, redraw, pc, lost>>

HideMenu == menu_hide /\ UNCHANGED <<wire, inbox>>

(* A row is chosen: the item that has the index of the menu now is told.     *)
ChooseRow == menu_hide /\ menu.idx \in DOMAIN items /\ Calls

(* The end of a turn: if a redraw is due, for an expose event say,           *)
(* nizam_dock_draw lays the tray out again.                                  *)
Draw ==
  /\ pc = "events" /\ pc' = "poll" /\ redraw' = FALSE
  /\ \E exposed \in BOOLEAN :
       drawn' = IF redraw \/ exposed THEN [i \in DOMAIN items |-> items[i].service]
                                    ELSE drawn
  /\ UNCHANGED <<bus, wire, inbox, items, popup, lost>>

Loop == Wake \/ Dispatch \/ Dispatched \/ WakeForX \/ Click \/ HideMenu \/ ChooseRow \/ Draw

Next == Outside \/ Loop

Spec == Init /\ [][Next]_vars

--------------------------------------------------------------------------------
(* Properties. *)

TypeOK ==
  /\ up \subseteq Clients /\ ownerOf \in [Names -> Clients \union {None}]
  /\ wire \in Seq(Message) /\ inbox \in Seq(Message)
  /\ items \in Seq([service : Services, owner : Clients, icon : BOOLEAN])
  /\ drawn \in Seq(Services) /\ redraw \in BOOLEAN
  /\ pc \in {"poll", "dispatch", "events"}
  /\ menu \in [idx : Nat \ {0}, of : Services] \union {None}
  /\ strayed \in BOOLEAN /\ lost \subseteq Clients

(* No service has two items, whatever the order in which items are           *)
(* registered again, removed and put in one another's place: a second one     *)
(* would never be found by sni_find_by_service.                              *)
UniqueServices ==
  \A i, j \in DOMAIN items : items[i].service = items[j].service => i = j

(* When everything the bus has said is handled, no item belongs to a client   *)
(* that has left, though items are removed one per name lost and not by       *)
(* service, and the owner is looked up after the registration was sent.  A    *)
(* client that gave up or lost a name before it left is the exception.        *)
NoGhost ==
  pc = "poll" /\ wire = <<>> /\ inbox = <<>> =>
    \A i \in DOMAIN items : items[i].owner \in up \union lost

(* Unless a redraw is due, the icons on the dock are the items in their      *)
(* order, and an item that is not on the dock has no icon.                   *)
PictureMatches ==
  ~redraw =>
    /\ Len(drawn) <= Len(items)
    /\ \A i \in DOMAIN items : IF i <= Len(drawn) THEN items[i].service = drawn[i]
                                                  ELSE ~items[i].icon

(* The index of a menu that is up is that of the item whose menu it is.      *)
MenuOfItem ==
  menu # None /\ ~strayed =>
    menu.idx \in DOMAIN items /\ items[menu.idx].service = menu.of

(* The user's clicks reach the item they are meant for, by two indexes that  *)
(* age: a click on an icon the item whose icon it is, and the row of a menu   *)
(* that is up the item whose menu it is, whatever other items are removed     *)
(* and added meanwhile.  The exception is a menu whose item was itself        *)
(* removed, or was the last one and took the place of one that was.          *)
ClicksReachTheirItem == PictureMatches /\ MenuOfItem

(* No item is taken away from a client that is on the bus and has not lost    *)
(* a name, whatever item is put in the place of one that goes.               *)
LiveItemsStay ==
  [][\A i \in DOMAIN items : items[i].owner \in up \ lost =>
       \E j \in DOMAIN items' : items'[j].service = items[i].service]_vars
================================================================================
