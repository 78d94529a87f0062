------------------------------ MODULE DockAutohide ------------------------------
(****************************************************************************)
(* The event loop of the dock: hiding and showing, the tray menu, the popups *)
(* it makes room for, and how it waits.  The X server's events reach the     *)
(* dock's socket; XCB moves them to a queue of its own whenever it reads,    *)
(* which is also what a round trip (QueryPointer, QueryTree) does, and       *)
(* poll() sees the socket only.                                             *)
(*                                                                          *)
(* now_ms() is modelled by timers that count down to 0, at any moment of the *)
(* loop.  Requests take effect at once.  The pointer is over the dock when   *)
(* it is over the window that is mapped: the dock when it is shown, the      *)
(* strip at the edge of the screen when it is hidden.  Events whose only     *)
(* effect is a redraw, and drawing, are left out.                            *)
(****************************************************************************)
EXTENDS Integers, Sequences, Functions

CONSTANTS
  HideDelay,   \* hide_delay_ms, 800 ms
  ToggleGap,   \* what is left after the slide of the 200 ms between toggles
  ClickHold,   \* no hiding for 250 ms after a click
  LongHold,    \* no hiding for 60 s after a menu is shown, 8 s at the start
  PopupTime,   \* a program's own popup has 8 s to stay in front of the dock
  MaxEvents    \* bound: the events that the dock has not processed

ASSUME DelayAssumption ==
  /\ {HideDelay, ToggleGap, ClickHold, LongHold, PopupTime, MaxEvents} \subseteq Nat \ {0}
  /\ ToggleGap <= HideDelay /\ ClickHold <= LongHold

Unset == -1

VARIABLES
  pc,        \* the main thread: arm, poll, drain, tail or notify
  over,      \* the pointer is over the dock, or over the strip
  held,      \* the button that is down since a press on the dock
  socket,    \* events sent by the X server and not read
  queue,     \* events XCB has read and not handed out
  hidden,    \* is_hidden
  menu,      \* menu_visible
  hideIn,    \* hide_deadline_ms, Unset when no hide is pending
  suppress,  \* suppress_hide_until_ms, 0 when it is over
  toggled,   \* the time during which last_toggle_ms forbids a toggle
  raiseIn,   \* suppress_raise_until_ms, Unset when it is 0
  above,     \* the dock's last stacking request was ABOVE
  redraw     \* redraw_pending

user == <<over, held>>
input == <<socket, queue>>
timers == <<hideIn, suppress, toggled, raiseIn>>
look == <<hidden, menu, above>>
vars == <<pc, over, held, socket, queue, hidden, menu, hideIn, suppress, toggled,
          raiseIn, above, redraw>>

Init ==
  /\ pc = "arm" /\ over = FALSE /\ held = "none"
  /\ socket = <<>> /\ queue = <<>>
  /\ hidden = FALSE /\ menu = FALSE /\ above = TRUE
  /\ hideIn = Unset /\ suppress = LongHold /\ toggled = 0 /\ raiseIn = Unset
  /\ redraw = FALSE

--------------------------------------------------------------------------------
(* Time, and what the user and other windows do. *)

Down(t) == IF t > 0 THEN t - 1 ELSE t

Tick ==
  /\ \E t \in {hideIn, suppress, toggled, raiseIn} : t > 0
  /\ hideIn' = Down(hideIn) /\ suppress' = Down(suppress)
  /\ toggled' = Down(toggled) /\ raiseIn' = Down(raiseIn)
  /\ UNCHANGED <<pc, user, input, look, redraw>>

Sends(e) == /\ Len(socket) + Len(queue) < MaxEvents
            /\ socket' = Append(socket, e)

Enter ==
  /\ ~over /\ over' = TRUE
  /\ Sends(IF hidden THEN "strip" ELSE "enter")
  /\ UNCHANGED <<pc, held, queue, look, timers, redraw>>

Leave ==
  /\ over /\ over' = FALSE
  /\ IF hidden THEN UNCHANGED socket ELSE Sends("leave")
  /\ UNCHANGED <<pc, held, queue, look, timers, redraw>>

(* A press on the dock takes the pointer until the button's release.         *)
Click ==
  /\ \/ /\ over /\ ~hidden /\ held = "none"
        /\ \/ held' = "left" /\ Sends("press")
           \/ held' = "right" /\ Sends("rightPress")
     \/ /\ held # "none" /\ held' = "none"
        /\ Sends(IF held = "right" THEN "rightRelease" ELSE "release")
  /\ UNCHANGED <<pc, over, queue, look, timers, redraw>>

(* Motion on the strip, loss of the focus (handled as a leave), a window in   *)
(* front of the dock, a click on the menu.                                   *)
Other ==
  /\ \/ over /\ hidden /\ Sends("strip")
     \/ ~hidden /\ Sends("leave")
     \/ ~hidden /\ Sends("obscured")
     \/ menu /\ Sends("menuPress")
  /\ UNCHANGED <<pc, user, queue, look, timers, redraw>>

User == Enter \/ Leave \/ Click \/ Other

--------------------------------------------------------------------------------
(* Waiting. *)

(* A time during which the dock made room for a popup is over: the dock comes *)
(* back in front of the other windows.                                       *)
Arm ==
  /\ pc = "arm" /\ pc' = "poll"
  /\ IF raiseIn = 0
     THEN /\ raiseIn' = Unset
          /\ IF hidden \/ menu THEN UNCHANGED <<above, redraw>>
                               ELSE above' = TRUE /\ redraw' = TRUE
     ELSE UNCHANGED <<raiseIn, above, redraw>>
  /\ UNCHANGED <<user, input, hidden, menu, hideIn, suppress, toggled>>

(* poll() was called with a time-out. *)
Deadline == redraw \/ hideIn # Unset \/ raiseIn # Unset

(* Mutant: the deadline of the hide is not among the time-outs. *)
WakeOnEvents ==
  /\ pc = "poll" /\ pc' = "drain"
  /\ socket # <<>> \/ redraw \/ raiseIn = 0
  /\ UNCHANGED <<user, input, look, timers, redraw>>

Wake ==
  /\ pc = "poll" /\ pc' = "drain"
  /\ socket # <<>> \/ redraw \/ hideIn = 0 \/ raiseIn = 0
  /\ UNCHANGED <<user, input, look, timers, redraw>>

(* A message of the session bus; the tray may have changed.                  *)
WakeByBus ==
  /\ pc = "poll" /\ pc' = "drain"
  /\ \E changed \in BOOLEAN : redraw' = (redraw \/ changed)
  /\ UNCHANGED <<user, input, look, timers>>

--------------------------------------------------------------------------------
(* Processing events. *)

Read ==
  /\ pc = "drain" /\ queue = <<>> /\ socket # <<>>
  /\ queue' = socket /\ socket' = <<>>
  /\ UNCHANGED <<pc, user, look, timers, redraw>>

Takes(e) == pc = "drain" /\ queue # <<>> /\ Head(queue) = e /\ queue' = Tail(queue)

(* The dock maps its window, and the pointer is over it if it was over the strip. *)
ShowDock ==
  /\ hidden' = FALSE /\ above' = TRUE /\ hideIn' = Unset /\ toggled' = ToggleGap
  /\ redraw' = TRUE
  /\ socket' = IF over THEN Append(socket, "enter") ELSE socket

(* Mutant: the dock does not test is_hidden and shows itself only when no     *)
(* menu holds it.                                                            *)
OnStripHeld ==
  /\ Takes("strip")
  /\ IF hidden /\ toggled = 0 /\ suppress = 0
     THEN ShowDock
     ELSE UNCHANGED <<hidden, above, hideIn, toggled, redraw, socket>>
  /\ UNCHANGED <<pc, user, menu, suppress, raiseIn>>

OnStrip ==
  /\ Takes("strip")
  /\ IF hidden /\ toggled = 0
     THEN ShowDock
     ELSE UNCHANGED <<hidden, above, hideIn, toggled, redraw, socket>>
  /\ UNCHANGED <<pc, user, menu, suppress, raiseIn>>

OnEnter ==
  /\ Takes("enter")
  /\ hideIn' = Unset
  /\ UNCHANGED <<pc, user, socket, look, suppress, toggled, raiseIn, redraw>>

OnLeave ==
  /\ Takes("leave")
  /\ hideIn' = IF hidden \/ menu THEN hideIn ELSE HideDelay
  /\ UNCHANGED <<pc, user, socket, look, suppress, toggled, raiseIn, redraw>>

(* Mutant: a menu that closes leaves the dock where the popup sent it. *)
MenuHideLow ==
  [above |-> above, raiseIn |-> IF menu THEN Unset ELSE raiseIn]

(* menu_hide, when there is a menu: what it leaves of the stacking.           *)
MenuHide ==
  [above |-> above \/ (menu /\ ~hidden), raiseIn |-> IF menu THEN Unset ELSE raiseIn]

(* Mutant: a second popup adds its time to the first one's. *)
LongerSum(t, u) == t + u

Longer(t, u) == IF t > u THEN t ELSE u

OpenMenu == menu' = TRUE /\ suppress' = LongHold
NoMenu(kept) == menu' = FALSE /\ suppress' = kept

StayInFront == above' = MenuHide.above /\ raiseIn' = MenuHide.raiseIn

(* lower_dock_for_external_popup *)
MakeRoom == IF hidden THEN StayInFront
                      ELSE above' = FALSE /\ raiseIn' = Longer(MenuHide.raiseIn, PopupTime)

(* What a click on a tray item ends with, once the menu that was up is gone:  *)
(* a menu of the dock's own, a popup that the dock makes room for, or neither. *)
Answer(kept) == \/ OpenMenu /\ StayInFront
                \/ NoMenu(kept) /\ (MakeRoom \/ StayInFront)

(* The left button tries the item's calls first, and shows its menu if none    *)
(* was answered, with the dock already behind the popup that it expected.     *)
Activation(kept) == \/ Answer(kept)
                    \/ OpenMenu /\ MakeRoom

(* A left press launches the application under it; a right press asks a tray  *)
(* item for its menu, or for nothing when it meets none.                     *)
OnPress ==
  /\ \/ /\ Takes("press")
        /\ NoMenu(ClickHold) /\ StayInFront
     \/ Takes("rightPress") /\ Answer(ClickHold)
  /\ hideIn' = Unset
  /\ redraw' = (redraw \/ menu)
  /\ UNCHANGED <<pc, user, socket, hidden, toggled>>

(* The release of the left button closes the menu and activates the tray item *)
(* under it; that of the right one only holds the dock.                      *)
OnRelease ==
  /\ \/ /\ Takes("release") /\ Activation(ClickHold)
        /\ redraw' = (redraw \/ menu)
     \/ /\ Takes("rightRelease") /\ suppress' = ClickHold
        /\ UNCHANGED <<menu, above, raiseIn, redraw>>
  /\ UNCHANGED <<pc, user, socket, hidden, hideIn, toggled>>

(* A click on the menu chooses an item and closes it.  A second click that    *)
(* the server sent meanwhile is tested against the icons of the dock.         *)
OnMenuPress ==
  /\ Takes("menuPress")
  /\ IF menu
     THEN NoMenu(ClickHold) /\ StayInFront /\ redraw' = TRUE
     ELSE Activation(suppress) /\ UNCHANGED redraw
  /\ UNCHANGED <<pc, user, socket, hidden, hideIn, toggled>>

OnObscured ==
  /\ Takes("obscured")
  /\ above' = (above \/ (~menu /\ ~hidden /\ raiseIn \in {Unset, 0}))
  /\ redraw' = TRUE
  /\ UNCHANGED <<pc, user, socket, hidden, menu, timers>>

Drained ==
  /\ pc = "drain" /\ queue = <<>> /\ socket = <<>>
  /\ pc' = "tail"
  /\ UNCHANGED <<user, input, look, timers, redraw>>

Process == \/ Read \/ OnStrip \/ OnEnter \/ OnLeave \/ OnPress \/ OnRelease
           \/ OnMenuPress \/ OnObscured \/ Drained

--------------------------------------------------------------------------------
(* The end of an iteration: autohide. *)

Watching == ~hidden /\ ~menu /\ suppress = 0

RoundTrip == queue' = queue \o socket /\ socket' = <<>>

(* A deadline that expires while the dock is held, or has a menu, is dropped. *)
TailHeld ==
  /\ pc = "tail" /\ pc' = "arm" /\ ~Watching
  /\ hideIn' = IF hideIn = 0 THEN Unset ELSE hideIn
  /\ redraw' = FALSE
  /\ UNCHANGED <<user, input, look, suppress, toggled, raiseIn>>

TailUnderPointer ==
  /\ pc = "tail" /\ pc' = "arm" /\ Watching /\ over
  /\ RoundTrip
  /\ hideIn' = Unset
  /\ redraw' = FALSE
  /\ UNCHANGED <<user, look, suppress, toggled, raiseIn>>

(* Mutant: the deadline is set anew by every iteration. *)
TailReschedules ==
  /\ pc = "tail" /\ pc' = "arm" /\ Watching /\ ~over
  /\ hideIn # 0 \/ toggled # 0
  /\ RoundTrip
  /\ hideIn' = HideDelay
  /\ redraw' = FALSE
  /\ UNCHANGED <<user, look, suppress, toggled, raiseIn>>

(* The pointer is elsewhere: a hide is scheduled unless one is pending, and   *)
(* one whose deadline has passed is refused only too soon after a toggle.     *)
TailWaits ==
  /\ pc = "tail" /\ pc' = "arm" /\ Watching /\ ~over
  /\ hideIn # 0 \/ toggled # 0
  /\ RoundTrip
  /\ hideIn' = CASE hideIn = Unset -> HideDelay [] hideIn = 0 -> Unset [] OTHER -> hideIn
  /\ redraw' = FALSE
  /\ UNCHANGED <<user, look, suppress, toggled, raiseIn>>

HideDock ==
  /\ pc = "tail" /\ pc' = "notify" /\ Watching /\ ~over
  /\ hideIn = 0 /\ toggled = 0
  /\ RoundTrip
  /\ hidden' = TRUE /\ above' = FALSE /\ hideIn' = Unset /\ toggled' = ToggleGap
  /\ redraw' = FALSE
  /\ UNCHANGED <<user, menu, suppress, raiseIn>>

(* The panel's window is looked for, to have it draw what the dock uncovered. *)
NotifyPanel ==
  /\ pc = "notify" /\ pc' = "arm"
  /\ RoundTrip
  /\ UNCHANGED <<user, look, timers, redraw>>

Autohide == TailHeld \/ TailUnderPointer \/ TailWaits \/ HideDock \/ NotifyPanel

--------------------------------------------------------------------------------
Next == Tick \/ User \/ Arm \/ Wake \/ WakeByBus \/ Process \/ Autohide

Spec == Init /\ [][Next]_vars

(* Time passes, the loop runs when it can, and events do not come for ever    *)
(* faster than the dock handles them.  Neither the user nor the bus has to do *)
(* anything.                                                                 *)
FairSpec == /\ Spec
            /\ WF_vars(Tick) /\ WF_vars(Arm \/ Wake \/ Process \/ Autohide)
            /\ []<>(pc # "drain")

--------------------------------------------------------------------------------
Kinds == {"strip", "enter", "leave", "press", "rightPress", "release",
          "rightRelease", "menuPress", "obscured"}

TypeOK ==
  /\ pc \in {"arm", "poll", "drain", "tail", "notify"}
  /\ over \in BOOLEAN /\ held \in {"none", "left", "right"}
  /\ socket \in Seq(Kinds) /\ queue \in Seq(Kinds)
  /\ hidden \in BOOLEAN /\ menu \in BOOLEAN /\ above \in BOOLEAN /\ redraw \in BOOLEAN
  /\ hideIn \in Unset .. HideDelay /\ suppress \in 0 .. LongHold
  /\ toggled \in 0 .. ToggleGap /\ raiseIn \in Unset .. PopupTime

(* A hidden dock is never raised over the other windows, and a shown one is   *)
(* raised again once the popup it made room for has had its time or the menu  *)
(* that came after it is closed (lower_dock_for_external_popup, menu_hide).   *)
StackFollows ==
  /\ hidden => ~above
  /\ ~hidden /\ ~menu /\ raiseIn = Unset => above

LeaveUnread == "leave" \in Range(socket) \cup Range(queue)

(* No deadline is slept through: a pending hide is carried out, called off or  *)
(* put off by another leave, even if no event ever comes (the time-out of     *)
(* poll).                                                                    *)
DeadlineHonoured == hideIn # Unset ~> (hideIn = Unset \/ LeaveUnread)

(* A dock the pointer has left hides, whatever happens to other windows or on *)
(* the bus, unless the pointer comes back, a menu opens, a click holds the    *)
(* dock or another leave puts the hide off.                                  *)
LeftDockHides ==
  (hideIn # Unset /\ Watching /\ ~over)
    ~> (hidden \/ over \/ menu \/ suppress > 0 \/ LeaveUnread)

(* The edge of the screen brings a hidden dock back: an event of the strip    *)
(* that finds the loop waiting, and the last toggle long past, is not lost,   *)
(* whatever else is in the socket.                                           *)
EdgeShows ==
  (/\ hidden /\ toggled = 0 /\ pc = "poll"
   /\ "strip" \in Range(socket)) ~> ~hidden

(* "Event loops must block correctly" (CONTRIBUTING.md): the dock never waits *)
(* without a time-out while an event that it has received is not processed.   *)
BlocksCorrectly == pc = "poll" /\ ~Deadline => queue = <<>>
================================================================================
