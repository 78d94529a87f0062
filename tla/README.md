# A formal model of nizam

nizam is a small desktop environment for X11: a dock and a panel in C, and a
settings program, a file manager, a text editor and a terminal in Vala, with a
SQLite database between them. This directory holds TLA+ modules that model its
core, TLC configurations that check them on small instances, and proofs, checked
by TLAPS, of what they promise for every instance. `PROJECT.json` lists the
components, the runs, which lines of the source each definition stands for, the
hazards the properties are for, and the theorems.

## The system

| part | state it keeps | operations | who it talks to |
|---|---|---|---|
| dock: event loop (`nizam-dock/src/xcb_app.c`) | shown or hidden, deadlines, menu, place in the stack, pending redraw | X events, timers, autohide, menus | X server; panel (a client message when it hides); tray |
| dock: reload (`main.c`) | socket, IPC thread, `g_reload_config` | start, probe, listen, accept, reload, SIGHUP | other docks, `nizam-settings` (Unix socket) |
| dock: icon cache (`icon_surface_cache.c`) | hash table, doubly linked list, counts | get, clear, free | drawing, which borrows the surfaces |
| dock: tray (`sni.c`) | array of status notifier items | register, icon signals, name changes, clicks, menus | applications over the session bus |
| settings: applications (`nizam-settings/src/applications`) | table `desktop_entries`, the list of each window | sync, save, delete | the panel and the dock read the table |
| settings: schema, pekwm (`db`, `pekwm`) | schema version; configuration files of the window manager | migrate; write files, reload pekwm | pekwm |
| panel (`nizam-panel/src`) | clients and their rectangles, clock, icon cache, menu | X events, clock, throttled refreshes, menu and its live update | window manager, database |
| file manager (`nizam-explorer/src`) | history, current directory, loads under way, icon cache | navigate, reload, operations on files, bookmarks | GIO, external programs |
| text editor, terminal | documents or sessions in a list and a stack | open, save, close; new, select, close | files; VTE |

What is hard in it, and what makes each part correct:

* **Two threads and several processes around one flag and one socket** (reload):
  no request is lost between the threads, a dock that can be found is alone, and
  the news of an edit is lost only where the code drops it.
* **Blocking on sockets whose data libraries have already read** (XCB, libdbus,
  Xlib): nothing that was received waits for the next unrelated event.
* **Timers against events** (autohide, holds, popups): a left dock hides, the edge
  shows it, no deadline is slept through.
* **Hand-made data structures with failures half-way** (icon caches): bounded, no
  dangling entry, no leak.
* **Names that come and go on the bus** (tray): no ghost, no duplicate, no live
  item lost, clicks reach the icon under the pointer.
* **A table that is synchronised without a transaction and edited from windows
  with old lists** (applications): the user's choices survive.
* **Listings that overlap, fail and arrive during a dialog** (file manager): only
  the newest is shown, the icons and the toolbar end up right, the history is kept.
* **Refreshes that are throttled away, events that a round trip reads ahead, a
  picture drawn later than the list changed** (panel): the list, the marks and the
  buttons are right whenever nothing is under way; a press acts on what was pressed.
* **A menu rebuilt under the pointer and icons shared with a cache** (panel): rows
  and list agree, an edit is seen while the menu is up, no icon is freed in use.

## The modules

| module | what it is |
|---|---|
| `IconLru` | abstract specification: a least-recently-used cache of bounded size |
| `DockIconCache` | the dock's icon cache, cell by cell; implements `IconLru` |
| `DockIconCacheProofs` | its inductive invariant and theorems |
| `DockReload` | from an edit of the database to the launchers of a dock |
| `DockReloadProofs` | its inductive invariant and theorems |
| `DockAutohide` | the dock's event loop |
| `DockAutohideProofs` | its inductive invariant and theorems |
| `DesktopEntries` | the applications table, its sync, dialogs and readers |
| `DesktopEntriesProofs` | its inductive invariant and theorems |
| `SniTray` | the tray: bus, libdbus queue, items, picture, menu |
| `SniTrayProofs` | its inductive invariant and theorems |
| `PanelTasks` | the panel's loop: list of windows, buttons, clock, events |
| `PanelTasksProofs` | its inductive invariant and theorems |
| `PanelIconCache` | the panel's icon cache and its references; implements `IconLru` |
| `PanelMenu` | the panel's application menu, over `PanelIconCache` |
| `PanelMenuProofs` | their inductive invariant and theorems |
| `ExplorerIconCache` | the file manager's icon cache |
| `ExplorerNavigation` | the file manager's folder, history, listings and operations |
| `ExplorerNavigationProofs` | its inductive invariant and theorems |
| `MC*` | instances for TLC |

**DockIconCache.** Heap cells with `prev` and `next`, the hash table, the counts.
`icon_entry_unlink`, `link_head` and `touch` are functions on a record of the four
link fields (`Unlink`, `LinkHead`, `Touch`). A get is one action for each way
through it: `GetNothing` (no name, no icon), `GetHit`, `GetNoMemory` (the victim is
gone, then an allocation fails) and `GetMiss`. The failure of `strdup` for the key
is not an outcome of the model: the code does not test it. `Clear` also stands for
what a reload does (free, then a new cache). The property `LruSpec` is the
refinement of `IconLru`, whose state is the keys in order of last use and the last
answer, under the mapping that walks the list from its head.

**DockReload.** `pc[d]` is the dock's main thread, `thread[d]` its IPC thread.
Unlink, bind and listen are separate steps, and each can fail (`GiveUp`): the dock
then runs on without a listener. A dock that starts may fail to ask the one that
listens, or to recognise it (`ProbePassesOver`); a load may fail (`Load`); a
notification may find nobody to connect to; `nizam-settings`, of which one window
and so one timer is modelled, may end before the timer fires (`Quit`); any dock may
die at any time and leave its path behind. Versions of the database are not counted:
`behind` and `owed` say which docks miss an edit and which of those were asked to
reload since. `untold` and `astray` are history variables: the docks that miss an
edit nobody will tell them of, and those that one started later may not find. `Wake`
stands for anything that ends `poll()`. Errors of `accept()` only make the thread try
again and are left out.

**DockAutohide.** `socket` is what the X server has sent, `queue` what XCB has read;
requests with a reply (`QueryPointer`, `QueryTree`) move the first to the second.
Times count down to 0. `pc` follows the loop: `arm` (compute the time-out), `poll`,
`drain` (process events), `tail` (autohide), `notify` (find the panel). Events that
only cause a redraw, the coalescing of motion events, and drawing are left out. A
click on a tray item has three outcomes (`Answer`): a menu, a popup, or nothing; the
left button has a fourth (`Activation`), a menu over a dock already lowered for a
popup that did not come.

**DesktopEntries.** A row carries categories (which stand for name, command and icon
too), the mapped category, the user's override, the two switches and `deleted`.
`UpsertOne` is one statement of the sync; `SyncFails` may come between any two.
Each activation of the program opens another window; each window keeps the list
it loaded. `chosen` and `overruled` are history variables: what the user chose for
each entry, and the entries whose override a sync has written over since.

**SniTray.** `wire` and `inbox` are the socket and libdbus's queue; a handler that
calls the bus reads the wire too (`Handled`). Names change owners by the rules of
the bus, which is external to the repository. `Register` looks the owner up when
the message is handled. `WithoutItem` is the swap with the last item. `drawn` is
what the last picture shows, by which clicks are resolved. `menu` is the index that
`menu_owner_idx` keeps while a menu is up, with the service it was opened for, which
the code does not keep; `ChooseRow` goes by the index alone, as the code does.

**PanelTasks.** One turn of the loop in `main` is `Top` (the clock), `Wake`
(`select`), a `Drain` for each event, and `Finish` (layout, then drawing). As in the
dock, `wire` is what `select` sees and `queue` what Xlib has read; a handler that makes
a round trip empties the first into the second (`Handled(TRUE)`). `held` stands for
the 80 ms after a refresh, in which `update_clients(0)` does nothing. `clients` and
`marked` change at the event, `rects` and `drawn` at a layout and at a drawing. Every
layout sets the clock's text, and the room that a text leaves (`Room`, in pixels)
decides how many buttons there are and how wide they are (`Width`); buttons of one
width stand side by side, so that a width places them all. A press is a point, and
`Hit` looks for the button under it. A layout after `ConfigureNotify` asks for no
drawing (`Moved`). What the window manager knows (`tasks`, `active`) may change before
any event says so (`untold`). `dropped` and `undrawn` are history variables; the second
says what such a layout changed that the screen does not show.

**PanelIconCache.** The slots, their links and the search for a free slot, as in
`main.c`; references are counted by hand (`refs`), for the surfaces are Cairo's. `held`
is who was given which surface. `Take` is a request with its fallbacks; `Draw` takes an
icon and gives it back at once, as the drawing of the launcher does. There is no action
that empties the cache: the panel does that after a loop that never ends.

**PanelMenu.** `Open` scans, `OpenStamp` reads the stamp; `Poll` does it in the other
order, with `PollScan` second. `LoadOne` loads one icon for one row, tool or category.
The stamp is computed as the SQL does, with its exclusive or; `read` is the database it
was read from. Presses and motion are given as the category they hit (`PressCategory`,
`PointAt`); everything else closes the menu.

**ExplorerIconCache.** The table, the list and the count, with a `List.remove` that
removes nothing.

**ExplorerNavigation.** A request (`Begin`) is `load_directory_async` up to its first
yield; what comes after it is `Overtaken`, `Failed` or `Arrived`. Being cancelled and
not being the newest are one condition: only a newer request cancels. `buttons` is
what the toolbar offers, which is nothing while a folder is read; `accels` is what the
keys may do, which does not change then, so that Back can be asked for again at once.
An operation on files is reduced to the folders it changes, the dialogs it opens (the
main loop runs on in them) and the way it ends: `DoneAndReload`, `DoneWithReport` (an
error is shown, then comes the reload) or `Abandoned`. A step of a deletion is an
action of its own, because a file that cannot be trashed opens another dialog; if all
can, nothing arrives between them, and the model allows a little more than the code.
A listing's contents are two facts: whether it may lack a change and whether it was
made with the hidden files. The reads of names, in batches, are one step. `step` and
`excuses` are history variables.

## The runs

| run | configuration | result |
|---|---|---|
| `dock_icon_cache` | `MCDockIconCache.cfg` | holds: structure, accounting, refinement (and with it the bound) |
| `dock_reload` | `MCDockReload.cfg` | holds: news under way, no lost request, one dock but for strays, service when awake |
| `dock_reload_immediately` | `DockReloadBlocked.cfg` | **violated**: a blocked dock does not reload |
| `dock_autohide` | `MCDockAutohide.cfg` | holds: stacking, deadlines, hiding, showing |
| `dock_blocks` | `DockAutohideBlocks.cfg` | **violated**: `poll()` with events in XCB's queue |
| `desktop_entries` | `MCDesktopEntries.cfg` | holds: choices, reflection of the scan, categories follow the override until the next sync |
| `deleted_reimported` | `DesktopEntriesDeleted.cfg` | **violated**: a sync revives deleted entries |
| `sni_tray` | `MCSniTray.cfg` | holds: unique, no ghosts, clicks and choices, live items |
| `panel_tasks` | `MCPanelTasks.cfg` | holds: list, marks, picture |
| `panel_menu` | `MCPanelMenu.cfg` | holds: submenu, references, refinement of `IconLru`, updates |
| `explorer_icon_cache` | `ExplorerIconCache.cfg` | **violated**: the cache outgrows its limit |
| `explorer_navigation` | `MCExplorerNavigation.cfg` | holds: newest shown, toolbar, icons, history |

The four violated runs each check one sentence of the documentation or of the
program's own messages; `findings` in `PROJECT.json` quotes it and gives the line.

### Bounds

* Icon cache: capacity 3 and four keys, so that a victim, a touched entry and a new
  one can be the head, the middle or the tail; four cells; two names with one key.
  The theorems cover every capacity.
* Reload: two docks; edits and signals are unbounded. A third dock adds no new pair
  of threads to race.
* Autohide: times of one or two units keep the order of the real ones (the time
  between toggles is shorter than the hide delay, a click's hold shorter than a
  menu's); `MaxEvents = 2` unprocessed events let a click race with the pointer.
* Applications: two applications, so that a sync fails between them, of which the
  constraint `OneUpdated` lets packages change one; two windows; two categories.
  The theorems are free of the constraint and of the sizes.
* Tray: two applications, one well-known name, three items at most. At most three
  messages are unhandled; `FewInFlight` lowers this to two once a client has lost a
  name while it stayed on the bus or a menu is up, and to one when two of these are
  so. Three messages are what a registration and the two signals of a quitting owner
  need; a choice that goes wrong needs one removal while the menu is up.
* Panel, tasks: two windows; three texts of the clock, two of one width that leave room
  for both buttons and a wider one that leaves room for one; a press on one point, which
  is on the first button, on the second or on none, as the buttons are; two events
  unhandled. `OneAtATime` lets the clock be out of step with the screen only while at
  most one event is under way and the window manager has nothing untold, no more than
  one task, no request of the panel and no menu up; a request or a menu likewise only
  while at most one event is under way. Two windows are enough for the buttons to shift,
  shrink or be lost and for the active one to be listed or not. The theorems need
  neither the constraint nor the sizes.
* Panel, menu: two applications in two categories that can trade places when one is
  renamed, a tool, a window; a cache of two for three icons, so that icons in use are
  evicted; two seconds and two edits, so that a stamp can come back to what it was.
  Addresses come from a small pool for each icon, which never runs out.
* File manager's cache: limit 2 and four icons.
* Navigation: three folders in a chain; `MaxLoads = 5` requests, the first that of the
  home folder, so that Back is reached with two folders behind and overtaken;
  `OneOvertaken` keeps at most one overtaken listing under way.

### Fairness

* Reload: timers fire (`WF(Notify)`), and a thread that can run does. Nothing makes
  the X server send anything, so there is no fairness on `Wake`.
* Autohide: time passes and the loop runs. `[]<>(pc # "drain")` says that events do
  not arrive for ever faster than the loop drains them; the code has no defence
  against that, and the properties are about what it does otherwise. There is no
  fairness on the user or on the bus.
* Panel menu: the panel's own steps are fair, for its loop comes round at least once
  a second, when the clock's deadline ends `select`. There is none on the user, on
  `nizam-settings` or on the tasks.

### What the dock's and the table's properties except

`NewsIsUnderWay` says that the news of an edit stops only where the code drops it, and
these are the places: a sync that fails half-way has changed rows and queues no
notification; `nizam-settings` ends within the 150 ms; the connection fails, or the dock
is not the one that listens; the database cannot be read once the flag is cleared, and
nobody tries again. `OneDockButForStrays` speaks of docks that can be found. A dock is
astray if it was started while another's socket was not yet up, or another while its
own was not, if it got no listening socket (`main.c` 137 to 169), or if a dock started
later did not recognise it (line 120); such a dock can run beside any other, also one
started much later. `CategoryFollowsOverride` excepts an entry whose file a sync has
passed since the override: the sync writes the category of the file and leaves the
override standing, so that the menu and the dock list the application under one
category and the dialog shows the other.

`LeftDockHides` excepts a hold after a click or a menu: nothing in the loop wakes
it when the hold ends, so the dock hides only after another event. `EdgeShows` starts
when the 200 ms since the last toggle are over: what comes before is refused, and only
the next event on the strip counts.

### What the tray's properties except

`NoGhost` and
`LiveItemsStay` except applications that lose a name while they stay on the bus:
the handler removes the first item of the owner whichever name was lost.

`ClicksReachTheirItem` excepts a menu whose item was itself removed, or was the last
and took the place of one that was: the row then goes to whatever has the index.

### What the panel's properties except

`ListCurrent` excepts a change that no event has told of yet, and a refresh refused
within 80 ms of the last one: it is not made up for, so that the list stays as it is
until the next event about windows. `PictureMatches` excepts what a layout after a
`ConfigureNotify` changes, for no drawing follows: if the clock has moved on, the new
text is not on the screen, and if that text has another width, the buttons are moved or
the last is lost while the old ones are shown. A press then acts on another window than
the one whose button is under the pointer, or on none, until the next drawing of the
whole panel. `LiveUpdates` excepts two things. The stamp can be the same for another database: two applications switched in
the second of the newest edit, or a label changed twice in a second. And an opening
reads the stamp after it scanned, so that an edit between the two is taken for seen.
`USAGE.md` says of the menu that changes "are reflected immediately".

### What the navigation properties except

`IconsFollow` and `TrailKept` hold only with exceptions, and each stands for a way the
code loses something. The icons stay out of date after a listing that failed, after a
deletion that stopped at its second file or an archive that failed half-written (no
reload follows), and after a choice on hidden files made before the first folder was
shown (there is no folder to reload, and the listing under way has the old choice).
Back or Forward changes the stacks before the folder is read: when it fails or another
request overtakes it (Back pressed twice is enough), the folder it was for is in
neither stack any more. The watch shown while a folder is read is taken away by any
listing that ends, also by an overtaken one; `IdleToolbarTrue` speaks of the time when
nothing is read. After a failure the keys keep what the last folder left them.

## The proofs

TLAPS checks eight modules, for every value of the constants that satisfies the
`ASSUME`s of the component.

* `DockIconCacheProofs`: `Inv` is the conjunction of typing, `ListIntact`,
  `MapAgrees`, `Bounded`, `SurfacesAccounted` and `ServesTheKey`; each needs the
  others. The lemmas `UnlinkSpells`, `LinkHeadSpells` and `TouchSpells` say what
  the pointer operations do to a list spelt out by a sequence of cells; a lemma
  per action shows `Inv` inductive; `MakeRoomGivesRoom` is what makes the insertion
  of a miss safe whatever failed before it. `Bounded` and `ServesTheKey` are proved
  and not listed in the run, where `LruSpec` implies the bound.
  `ImplementsLru` is the refinement of `IconLru`. The mapping reads the keys off the
  list, from its head along `next`; `ListWalked` says that under `Inv` they are the
  keys of the cells the list spells, and from then on the pointer lemmas do the work:
  a hit is `Use`, a miss is `Admit`, a failed allocation is `Refuse` with or without
  the last key given up (`HitUses`, `MissAdmits`, `NoMemoryRefuses`).
* `PanelMenuProofs` treats `PanelIconCache` and `PanelMenu` together, because a
  surface is shared between the slots and those who hold icons. It has three parts.
  *The list*: the panel's array is the dock's list under a mapping (the instance
  `Dock` of `DockIconCacheProofs`: slots for cells, 0 for the null pointer), so that
  `Sound` is the dock's facts on the list and the table, and `ImplementsLru` follows
  with the dock's lemmas on its walk.
  *The references*: `Counted` is `EveryReferenceCounted` with what it needs.
  `LeftCounts`, and the facts on `OneOver` (the counts are right but for one reference
  on its way to a caller), follow a surface through an eviction, an insertion, a
  hit and a path; `Take` puts the one over into the holder's hands and `Draw`
  destroys it. That a new surface has an address of its own needs more addresses than
  slots and holders, which `CacheAssumption` states: `malloc` never returns an
  address in use.
  *The menu*: `Inv` adds `JobsOwed` (each icon still to be loaded is owed to a holder
  of its own, who has none), `HandsFree` (the menu has no icons when it starts to
  build), `NoRows` and `OnACategory`. Without `JobsOwed` the counting is not
  inductive: a holder given a second surface would lose the reference to its first.
  It depends on the numbers that `Wanted` gives out being distinct, that is, on
  the sorting: `SortExists` shows that what is ordered and finite can be sorted.
  `SubmenuStaysCurrent` needs `NoRows`, for a list built anew may be shorter.
  The sorting and the exclusive or of the stamp are defined in `PanelMenu` itself
  (`InOrder`; `Ones`, the ones of a number as a set), because those of the library
  cannot be used in a module with proofs.
* `DesktopEntriesProofs`: `IInv` adds to typing, `ChoicesKept`, `SyncReflectsScan`
  and `CategoryFollowsOverride` what they need of the dialog and of the sync under way
  (the dialog and a sync exclude one another; a dialog's entry has a row). The
  action property `OnlyTheUserChooses` follows from it.
* `ExplorerNavigationProofs`: `IInv` is typing and `Tokens`: no token is ahead of
  `load_token`, one listing at most has that token, and what is shown is older than it
  while it is being read. Without the uniqueness the invariant is not inductive:
  a second listing with the newest token could arrive after the first. `BeginKeeps`,
  `ReloadKeeps` and `MarkedKeeps` treat the ways in which the listings change, and a
  lemma per action uses them; `OnlyNewestShown` follows.
  `Settled` is about what is left when all is read: while the newest request is not
  being read the buttons are those that can be used, and unless an excuse holds it
  will show, or the icons do, the choice on hidden files and, when no operation has a
  reload still to make, every change made here. `BeginSettles`, `ReloadSettles`,
  `ChangeSettles` and `DialogSettles` treat the ways in which requests and
  operations go on; `IdleToolbar` and `IconsAreCurrent` follow.
  `TrailIsKept` is about two states, so each action is shown to keep the trail, with
  `Course`: there is no history before the first folder, and a newest request that
  is neither a navigation nor Back or Forward is of the folder shown. Without the
  second a listing could change the folder and leave no trace of the one before.
  `WayBack` and `WayForward` say that moving a folder from one stack to the other,
  across the one in between, leaves the sequence of all of them as it was.
* `PanelTasksProofs`: `IInv` is typing, `ListCurrent`, `MarksCurrent` and
  `AboutToDraw`. The last is what `PictureMatches` needs between two waits: unless a
  layout and a drawing are due, the rectangles have the width of the clients' number and
  of the text's room (`Fits`), and the screen shows them or `undrawn` says why not; an
  event that changes the clients asks for both in the same step. `LayoutKeepsButtons` is
  the case of a layout that nothing draws: a text of the same width leaves every
  rectangle where it was, and one of another width is what `undrawn` records. The lemmas on `Has` say what reading ahead does to the news under way, and
  that what was awaited is still awaited until its handler runs.
* `SniTrayProofs`: `IInv` is typing, `UniqueServices`, `PictureMatches`, `MenuOfItem`,
  that nothing is left to draw when the dock waits (`QuietAtPoll`), and
  `LossesPending`: the news of a lost name, on the wire or in libdbus's queue, is never
  about a client that is live. `Keeps` and `Removes` say all that a message can do to
  the items; a lemma per handler shows that it does one of them, and the theorems
  follow from those two. `LiveItemsStay` needs `LossesPending`, and `MenuOfItem` needs
  that a menu's index stays among the items until its item moves: without it an item
  added later could come to have the index.
  `NoGhost` has an invariant of its own, `Accounts`, about all that is under way
  (`Pend`): of a client that has gone as many losses are due as it has services, in
  items or in registrations still to be handled (`Leaving`); no loss is due twice, and
  all come after the last registration. A live client has claimed only its path and
  names it owns (`LiveOwn`), and those are just what the bus reports lost when it
  quits. Each loss takes one item, or finds none of that owner, so when nothing is
  under way nothing is left.
* `DockReloadProofs`: `Told` is typing, `NewsIsUnderWay` and `NoRequestForgotten`,
  inductive together: a dock's own step changes its own part (`GoneOn`), a load shows it
  everything or records what it failed to show (`LoadTells`). `Alone` is what
  `OneDockButForStrays` needs: a dock that does not run has no thread, and beside a dock
  that is not astray no other is on the way to the path, none runs but strays, and the
  path is its own once bound (`FoundByOthers`). Without the path the invariant is not
  inductive: a second dock that found no listener would start.
* `DockAutohideProofs`: typing and `StackFollows` are inductive. `MenuHideStacks` and
  `AnswerStacks` say what a menu that closes and an item that answers leave of the
  stacking, whatever was there; each handler ends in one of them or in a stacking
  that follows the dock's place.

Every safety property and every refinement that a run checks is also a theorem.
Only model-checked are the properties under fairness (`DeadlineHonoured`,
`LeftDockHides`, `EdgeShows`, `AwakeDockReloads`, `NewsIsAccepted`, `LiveUpdates`),
which the installed provers cannot treat.

## Plan

In this order:

1. Theorems that the steps of the `LiveUpdates` and `AwakeDockReloads` arguments
   keep (what is missed stays missed until the step that serves it), which is the
   part of the liveness properties that can be proved.
2. `ExplorerNavigation`: the sidebar tree.
3. `PekwmApply` (files written in order, crash, reload) and `TextDocuments` (modified
   flags, failed saves, closing).
4. XEMBED clients and drawing limits in the dock.

## Not modelled

Drawing, layout and text; geometry and monitors; how an icon or a desktop file is
found and parsed; the contents of the tray's menus; the properties that the watcher
answers; external programs (tar, gzip, openssl, shred, pekwm); GTK widgets.
`sync_entries` and `set_user_flags` have no callers. The dock's fallback to local
`.desktop` files when the database has no launchers is left out of `DesktopEntries`.
The creation of the schema is left out for another reason: its statements can all be
run again and the version is written last, so that the next start repairs what a crash
leaves. Of the panel: titles, monitors, a panel without a clock, a window manager that
is gone; in
its menu geometry, scrolling, highlights and the keys, a database that cannot be read,
and failures of small allocations.
