------------------------------ MODULE PanelTasks ------------------------------
(****************************************************************************)
(* The panel: the list of windows, their buttons, the clock, and the loop    *)
(* that reads events, lays out and draws.                                    *)
(*                                                                          *)
(* Events come down the socket, `wire', in order.  Xlib moves them to its    *)
(* own queue, `queue', when it reads, and a request that waits for a reply   *)
(* reads whatever comes before it.  select() sees the wire only.  A round    *)
(* trip is one moment: the handler that makes it sees the server as it is.   *)
(* Where the buttons are and how many there are follows from the width of    *)
(* the clock's text, which every layout sets anew.                           *)
(****************************************************************************)
EXTENDS Integers, Sequences

CONSTANTS
  Windows,     \* windows of applications
  None,
  MaxClients,  \* MAX_WINDOWS
  Texts,       \* what the clock can say
  Room,        \* the pixels that a text leaves between launcher and clock
  Points,      \* where the panel can be pressed, from the end of the launcher
  MaxUnread    \* bound: the events that the panel has not handled

ASSUME TasksAssumption ==
  /\ None \notin Windows \union Points /\ Texts # {}
  /\ MaxClients \in Nat /\ MaxUnread \in Nat
  /\ Room \in [Texts -> Int] /\ Points \subseteq Nat

Places == 1..MaxClients   \* of buttons, from the launcher on
Launcher == -1            \* a press on it
Narrowest == 80           \* a button and the gap that follows it
Widest == 220
Gap == 4

VARIABLES
  tasks,    \* window manager: the windows a refresh would find, in order
  untold,   \* window manager: they changed, and no event has said so
  active,   \* _NET_ACTIVE_WINDOW
  asked,    \* the last request of the panel to the window manager
  wall,     \* what the clock should say
  wire,     \* events sent to the panel and not read
  queue,    \* events Xlib has read and not given to the panel
  clients,  \* clients[]: their windows
  marked,   \* clients[]: those that are is_active
  rects,    \* task_rects[]: the width, with its gap, that places it; or 0
  drawn,    \* the buttons on the screen, a window and a width for each place
  text,     \* clock_text
  said,     \* the text on the screen
  menu,     \* apps_visible
  held,     \* the list was refreshed less than 80 ms ago
  need,     \* need_layout, need_redraw, need_clock_only
  pc,       \* top, select, drain or tail
  dropped,  \* history: a refresh was refused since the last one
  undrawn   \* history: what a layout changed with the text and nothing drew

server == <<tasks, untold, active, wall>>
news == <<wire, queue>>
list == <<clients, marked, held, dropped>>
screen == <<rects, drawn, text, said, undrawn>>
vars == <<server, news, list, screen, asked, menu, need, pc>>

Requests == [how : {"activate", "iconify"}, win : Windows]
Spots == Points \union {Launcher}
Press == [kind : {"press"}, at : Spots \union {None}]   \* None: a place in the menu
Button == [win : Windows, width : Nat]
Event == [kind : {"list", "active", "expose", "configure"}] \union Press

Nothing == [layout |-> FALSE, redraw |-> FALSE, clock |-> FALSE]
(* Mutant: laid out, and not drawn. *)
LayoutOnly(n) == [n EXCEPT !.layout = TRUE]

Both(n) == [n EXCEPT !.layout = TRUE, !.redraw = TRUE]

(* MAX_WINDOWS clients at most. *)
Listed(s) == SubSeq(s, 1, IF Len(s) < MaxClients THEN Len(s) ELSE MaxClients)
In(w, s) == \E i \in DOMAIN s : s[i] = w
Without(s, i) == SubSeq(s, 1, i - 1) \o SubSeq(s, i + 1, Len(s))

(* update_layout: n buttons share the room, and those it has no place for    *)
(* get none.  The rectangles past the last client are left as they are.      *)
Clamped(x) == IF x < Narrowest THEN Narrowest ELSE IF x > Widest THEN Widest ELSE x
Share(n, room) == Clamped(IF n > 0 THEN room \div n ELSE 0)
Width(i, n, room) == IF i <= room \div Share(n, room) THEN Share(n, room) ELSE 0
LaidOut(n, room) == [i \in Places |-> IF i <= n THEN Width(i, n, room) ELSE rects[i]]

(* tasklist_draw: the clients whose rectangle has a width. *)
Buttons(s, r) == [i \in {j \in Places : j <= Len(s) /\ r[j] # 0} |-> [win |-> s[i], width |-> r[i]]]

(* tasklist_handle_click: the first client whose rectangle has the point. *)
Covers(i, x) == rects[i] # 0 /\ (i - 1) * rects[i] <= x /\ x <= i * rects[i] - Gap
Hit(x) == {i \in DOMAIN clients : Covers(i, x) /\ \A j \in 1..(i - 1) : ~Covers(j, x)}

(* Mutant: the window is not looked for in the list. *)
MarksAny(s) == {active}

(* The clients that are active, of those listed. *)
Marks(s) == {w \in {active} : In(w, s)}

Init ==
  /\ tasks = <<>> /\ untold = FALSE /\ active = None /\ asked = None
  /\ wall \in Texts /\ text = wall /\ said = wall /\ undrawn = {}
  /\ wire = <<>> /\ queue = <<>> /\ clients = <<>> /\ marked = {}
  /\ rects = [i \in Places |-> 0] /\ drawn = <<>>
  /\ menu = FALSE /\ held = TRUE /\ dropped = FALSE
  /\ need = Nothing /\ pc = "top"

--------------------------------------------------------------------------------
(* The window manager, the server, the user and time. *)

Tell(e) == /\ Len(wire) + Len(queue) < MaxUnread
           /\ wire' = Append(wire, e) /\ UNCHANGED queue

panel == <<list, screen, asked, menu, need, pc>>

(* A window gets or loses what makes it a task: WM_STATE, its type, its      *)
(* place under the root.  That alone sends the panel nothing.                *)
TasksChange ==
  /\ \/ \E w \in Windows : ~In(w, tasks) /\ tasks' = Append(tasks, w)
     \/ \E i \in DOMAIN tasks : tasks' = Without(tasks, i)
  /\ untold' = TRUE /\ UNCHANGED <<active, wall, news, panel>>

(* _NET_CLIENT_LIST, or a window mapped, unmapped or destroyed, which may be *)
(* one that is no task.                                                      *)
TasksTold ==
  /\ Tell([kind |-> "list"]) /\ untold' = FALSE
  /\ UNCHANGED <<tasks, active, wall, panel>>

Activates(w) == active' = w /\ Tell([kind |-> "active"])

ActiveChanges ==
  /\ \E w \in Windows \union {None} : w # active /\ Activates(w)
  /\ UNCHANGED <<tasks, untold, wall, panel>>

(* The window manager does what it was asked, or not. *)
Served ==
  /\ asked # None /\ asked' = None
  /\ \/ asked.how = "activate" /\ active # asked.win /\ Activates(asked.win)
     \/ asked.how = "iconify" /\ active = asked.win /\ Activates(None)
     \/ UNCHANGED <<active, news>>
  /\ UNCHANGED <<tasks, untold, wall, list, screen, menu, need, pc>>

(* Part of the panel is uncovered, the dock has hidden, or the server or the *)
(* window manager moved the panel.                                           *)
Disturbed ==
  /\ \E k \in {"expose", "configure"} : Tell([kind |-> k])
  /\ UNCHANGED <<server, panel>>

(* While the menu is up it holds the pointer: a press anywhere is reported   *)
(* with the coordinates of the menu.                                         *)
Pressed ==
  /\ \E p \in IF menu THEN {None} ELSE Spots : Tell([kind |-> "press", at |-> p])
  /\ UNCHANGED <<server, panel>>

ClockMoves ==
  /\ \E t \in Texts : t # wall /\ wall' = t
  /\ UNCHANGED <<tasks, untold, active, news, panel>>

(* 80 ms after a refresh. *)
HoldEnds == held /\ held' = FALSE /\ UNCHANGED <<server, news, screen, asked, menu, need, pc,
                                                 clients, marked, dropped>>

Outside == \/ TasksChange \/ TasksTold \/ ActiveChanges \/ Served
           \/ Disturbed \/ Pressed \/ ClockMoves \/ HoldEnds

--------------------------------------------------------------------------------
(* One turn of the loop: the clock, select(), the events. *)

(* Whether the deadline has come is left open: the clock may have been set.  *)
(* A text of another width moves the buttons.  What is due is drawn after    *)
(* select().                                                                 *)
Top ==
  /\ pc = "top" /\ pc' = "select"
  /\ \/ UNCHANGED text /\ need' = Nothing
     \/ text' = wall /\ text = wall /\ need' = Nothing
     \/ /\ text' = wall /\ text # wall
        /\ need' = IF Room[text'] # Room[text] THEN Both(Nothing)
                                               ELSE [Nothing EXCEPT !.clock = TRUE]
  /\ UNCHANGED <<server, news, list, rects, drawn, said, undrawn, asked, menu>>

Wake ==
  /\ pc = "select" /\ pc' = IF wire # <<>> THEN "drain" ELSE "tail"
  /\ UNCHANGED <<server, news, list, screen, asked, menu, need>>

(* XPending reads the socket when the queue is empty. *)
Pending == IF queue = <<>> THEN wire ELSE queue
Unread == IF queue = <<>> THEN <<>> ELSE wire

(* XNextEvent and a handler, which makes round trips or not. *)
Handled(trips) ==
  /\ queue' = IF trips THEN Tail(Pending) \o Unread ELSE Tail(Pending)
  /\ wire' = IF trips THEN <<>> ELSE Unread
  /\ UNCHANGED <<server, screen, pc>>

(* tasklist_update_clients *)
Refresh ==
  /\ clients' = Listed(tasks) /\ marked' = Marks(Listed(tasks))
  /\ held' = TRUE /\ dropped' = FALSE

(* update_clients(0): refused within 80 ms of the last refresh, and not      *)
(* done later.                                                               *)
UpdateClients ==
  IF held THEN dropped' = TRUE /\ UNCHANGED <<clients, marked, held>> ELSE Refresh

(* Mutant: the list is laid out again, and not asked for. *)
OnListLate(e) ==
  /\ e.kind = "list" /\ Handled(FALSE) /\ UNCHANGED list
  /\ need' = Both(need) /\ UNCHANGED <<asked, menu>>

OnList(e) ==
  /\ e.kind = "list" /\ Handled(~held) /\ UpdateClients
  /\ need' = Both(need) /\ UNCHANGED <<asked, menu>>

(* Mutant: refused after a refresh, like the list. *)
OnActiveHeld(e) ==
  /\ e.kind = "active" /\ Handled(TRUE)
  /\ marked' = IF held THEN marked ELSE Marks(clients)
  /\ need' = [need EXCEPT !.redraw = TRUE]
  /\ UNCHANGED <<clients, held, dropped, asked, menu>>

(* tasklist_update_active *)
OnActive(e) ==
  /\ e.kind = "active" /\ Handled(TRUE) /\ marked' = Marks(clients)
  /\ need' = [need EXCEPT !.redraw = TRUE]
  /\ UNCHANGED <<clients, held, dropped, asked, menu>>

OnExpose(e) ==
  /\ e.kind = "expose" /\ Handled(FALSE) /\ need' = [need EXCEPT !.redraw = TRUE]
  /\ UNCHANGED <<list, asked, menu>>

(* recreate_backbuffer and update_struts; the layout follows, no drawing. *)
OnConfigure(e) ==
  /\ e.kind = "configure" /\ Handled(FALSE) /\ need' = [need EXCEPT !.layout = TRUE]
  /\ UNCHANGED <<list, asked, menu>>

(* menu_handle_xevent: a press beside the menu closes it, and one in it may. *)
OnMenuPress(e) ==
  /\ e.kind = "press" /\ menu /\ Handled(TRUE)
  /\ \/ menu' = FALSE
     \/ e.at = None /\ UNCHANGED menu
  /\ UNCHANGED <<list, need, asked>>

(* handle_click: the launcher or a button.  The window of the event is not   *)
(* looked at: what was pressed in a menu that has gone is taken for a place  *)
(* of the panel.                                                             *)
Meant(e) == IF e.at = None THEN Spots ELSE {e.at}

HitTask(i) ==
  asked' = [how |-> IF clients[i] \in marked THEN "iconify" ELSE "activate",
            win |-> clients[i]]

OnPress(e) ==
  /\ e.kind = "press" /\ ~menu
  /\ \E p \in Meant(e) :
       \/ p = Launcher /\ menu' = TRUE /\ Handled(TRUE) /\ UNCHANGED asked
       \/ p # Launcher /\ UNCHANGED menu /\ Handled(FALSE) /\ (\E i \in Hit(p) : HitTask(i))
       \/ p # Launcher /\ UNCHANGED <<menu, asked>> /\ Handled(FALSE) /\ Hit(p) = {}
  /\ UNCHANGED <<list, need>>

Drain ==
  /\ pc = "drain" /\ Pending # <<>>
  /\ LET e == Head(Pending)
     IN OnList(e) \/ OnActive(e) \/ OnExpose(e) \/ OnConfigure(e) \/ OnMenuPress(e) \/ OnPress(e)

Drained ==
  /\ pc = "drain" /\ Pending = <<>> /\ pc' = "tail"
  /\ UNCHANGED <<server, news, list, screen, asked, menu, need>>

(* update_layout, which asks the clock, then redraw or redraw_clock_only.    *)
(* All of them make round trips.                                             *)
Layout == /\ text' = IF need.layout THEN wall ELSE text
          /\ rects' = IF need.layout THEN LaidOut(Len(clients), Room[text']) ELSE rects

(* What a layout changes on the panel when it sets the text. *)
Moved == IF Room[text'] # Room[text] THEN {"buttons"} ELSE {}
Retimed == IF text' # text THEN {"time"} ELSE {}

Draw ==
  CASE need.redraw ->
         drawn' = Buttons(clients, rects') /\ said' = text' /\ undrawn' = {}
    [] ~need.redraw /\ need.clock ->
         said' = text' /\ undrawn' = (undrawn \ {"time"}) \union Moved /\ UNCHANGED drawn
    [] OTHER ->
         undrawn' = undrawn \union Moved \union Retimed /\ UNCHANGED <<drawn, said>>

Finish ==
  /\ pc = "tail" /\ pc' = "top" /\ Layout /\ Draw
  /\ IF need = Nothing THEN UNCHANGED news ELSE queue' = queue \o wire /\ wire' = <<>>
  /\ UNCHANGED <<server, list, asked, menu, need>>

Loop == Top \/ Wake \/ Drain \/ Drained \/ Finish

Next == Outside \/ Loop

Spec == Init /\ [][Next]_vars

--------------------------------------------------------------------------------
(* Properties. *)

Has(s, k) == \E i \in DOMAIN s : s[i].kind = k
Awaits(k) == Has(queue, k) \/ Has(wire, k)

TypeOK ==
  /\ tasks \in Seq(Windows) /\ untold \in BOOLEAN
  /\ active \in Windows \union {None} /\ asked \in Requests \union {None}
  /\ wall \in Texts /\ text \in Texts /\ said \in Texts
  /\ wire \in Seq(Event) /\ queue \in Seq(Event)
  /\ clients \in Seq(Windows) /\ Len(clients) <= MaxClients /\ marked \subseteq Windows
  /\ rects \in [Places -> Nat]
  /\ DOMAIN drawn \subseteq Places /\ drawn \in [DOMAIN drawn -> Button]
  /\ menu \in BOOLEAN /\ held \in BOOLEAN
  /\ need \in [layout : BOOLEAN, redraw : BOOLEAN, clock : BOOLEAN]
  /\ pc \in {"top", "select", "drain", "tail"}
  /\ dropped \in BOOLEAN /\ undrawn \subseteq {"time", "buttons"}

(* The list is that of the window manager, whatever the order of changes,    *)
(* events and refreshes, unless the news of a change is under way or a       *)
(* refresh was refused since the last one.                                   *)
ListCurrent == ~untold /\ ~Awaits("list") /\ ~dropped => clients = Listed(tasks)

(* The windows marked active, for which a click means iconify, are the       *)
(* active one, unless the news of a change is under way: no refresh that is   *)
(* refused delays this.                                                      *)
MarksCurrent == ~Awaits("active") => marked = Marks(clients)

(* Whenever the panel waits for events, the buttons on its screen are those   *)
(* of its clients, in their order and where a press is looked for, and they   *)
(* are laid out for the clock's text or about to be; so that the first press  *)
(* it then handles acts on the window whose button was pressed.  The time on  *)
(* the screen is that of the text, or about to be.  The exception is what a   *)
(* layout after ConfigureNotify changes when it finds that the clock has      *)
(* moved on, for nothing draws it: the time, and, if the text has another     *)
(* width, the buttons, which are then moved or lost under the old picture     *)
(* until the next drawing of the whole panel.                                 *)
PictureMatches ==
  pc = "select" =>
    /\ drawn = Buttons(clients, rects) \/ "buttons" \in undrawn
    /\ \/ need.layout
       \/ \A i \in DOMAIN clients : rects[i] = Width(i, Len(clients), Room[text])
    /\ said = text \/ need # Nothing \/ "time" \in undrawn
================================================================================
