------------------------------ MODULE PanelMenu ------------------------------
(****************************************************************************)
(* nizam-panel/src/menu.c: the application menu of the panel, which is built *)
(* from the database when it opens and again when a poll finds the stamp of  *)
(* the database changed, with its submenu; and the icons that it, the        *)
(* launcher and the task list take from the cache.                           *)
(*                                                                          *)
(* An event is given as what it hits.  Highlights, scrolling and geometry    *)
(* are left out.  Nothing the panel loads depends on an edit made while it   *)
(* loads, so edits come before or after the loading.                         *)
(****************************************************************************)
EXTENDS PanelIconCache, SequencesExt

CONSTANTS
  Entries,     \* rows of desktop_entries
  Category,    \* [Entries -> numbers of categories]
  Label,       \* [Entries -> two numbers, in the order of the labels]
  Icon,        \* [Entries -> Names], or None
  None,        \* no name, or no database
  Symbolic,    \* [Names -> Names]: name-symbolic, for those that are not
  Tools,       \* the icons of top_tools, in order
  CatIcons,    \* category -> the names tried: a file of the project's own, ...
  Generic, Launcher, TaskIcon,
  MaxNow,      \* bound: seconds
  MaxEdits     \* bound: edits of the database

VARIABLES
  db,      \* the rows: status, which of its labels, updated_at
  now, edits,
  up,      \* apps_visible
  apps,    \* apps[]: entry and label
  active,  \* active_category
  sub,     \* sub_win exists
  items,   \* sub_items[]: indices in apps[]
  catPic, subPic,  \* the rows on the screen
  read,    \* live_last_db_stamp, as the database it was read from
  pc,      \* rest, scan, stamp or load
  jobs,    \* the icons to load yet: for whom, by which names
  raced    \* history: edited between the scan and the stamp of an opening

(* The holders of icons. *)
App(i) == <<"app", i>>
Tool(i) == <<"tool", i>>
Cat(i) == <<"cat", i>>
Task == <<"task", 1>>

ASSUME MenuAssumption ==
  /\ IsFiniteSet(Entries) /\ Entries # {} /\ MaxNow \in Nat /\ MaxEdits \in Nat
  /\ Category \in [Entries -> Nat] /\ \A e \in Entries : Label[e] \in [{1, 2} -> Nat]
  /\ Icon \in [Entries -> Names \union {None}] /\ None \notin Names
  /\ \A n \in DOMAIN Symbolic : Symbolic[n] \in Names
  /\ Tools \in Seq(Names) /\ {Generic, Launcher, TaskIcon} \subseteq Names
  /\ \A e \in Entries : CatIcons[Category[e]] \in Seq(Names)
  /\ Task \in Holders
  /\ \A i \in 1..Cardinality(Entries) : App(i) \in Holders /\ Cat(i) \in Holders
  /\ \A i \in DOMAIN Tools : Tool(i) \in Holders

base == <<db, now, edits>>
menu == <<up, apps, active, sub, items, catPic, subPic>>
vars == <<icons, base, menu, read, raced, pc, jobs>>

--------------------------------------------------------------------------------
(* What the database says. *)

Databases == [Entries -> [status : {"on", "off", "gone"}, label : {1, 2}, at : 0..MaxNow]]

Live(d) == {e \in Entries : d[e].status # "gone"}
On(d) == {e \in Entries : d[e].status = "on"}

(* The ones of a number in base two.  An exclusive or is given as its ones:   *)
(* stamps are only compared.                                                 *)
Ones(n) == {i \in 0..n : (n \div 2^i) % 2 = 1}

(* Mutant: the sum is not kept out of the way of the time. *)
StampMixed(d) ==
  SymDiff(Ones(Max({0} \union {d[e].at : e \in Live(d)})), Ones(Cardinality(On(d))))

(* fetch_desktop_entries_stamp: (max(updated_at) << 1) ^ sum(enabled), of the *)
(* rows that are not deleted.                                                *)
Stamp(d) ==
  SymDiff(Ones(2 * Max({0} \union {d[e].at : e \in Live(d)})), Ones(Cardinality(On(d))))

(* The elements of S, sorted: if one is before another, R has the two.        *)
InOrder(S, R) ==
  CHOOSE f \in [1..Cardinality(S) -> S] :
    \A i, j \in 1..Cardinality(S) : i < j => f[i] # f[j] /\ <<f[i], f[j]>> \in R

Ascending(S) == InOrder(S, {p \in S \X S : p[1] <= p[2]})

AppEntry == [of : Entries, label : Nat]

(* app_cmp2: by category, then by label. *)
AppOrder == {p \in AppEntry \X AppEntry :
               LET a == p[1]
                   b == p[2]
               IN \/ Category[a.of] < Category[b.of]
                  \/ Category[a.of] = Category[b.of] /\ a.label <= b.label}

(* scan_apps_from_sqlite, and the sorting by build_categories. *)
Scan(d) == InOrder({[of |-> e, label |-> Label[e][d[e].label]] : e \in On(d)}, AppOrder)

(* build_categories: the categories that have applications, in order. *)
Cats(s) == Ascending({Category[s[i].of] : i \in DOMAIN s})

(* build_sub_items_for: where the applications of the c-th category are. *)
Rows(s, c) ==
  Ascending({i \in DOMAIN s : c \in DOMAIN Cats(s) /\ Category[s[i].of] = Cats(s)[c]})

(* load_menu_icon_prefer_symbolic: the names tried. *)
Tries(n) ==
  IF n = None THEN <<>>
  ELSE IF n \in Paths \/ n \notin DOMAIN Symbolic THEN <<n>> ELSE <<Symbolic[n], n>>

(* The icons of apps[], of the tools and of the categories, in that order. *)
Wanted(s) ==
  LET app(i) == [for |-> App(i), by |-> Tries(Icon[s[i].of]) \o Tries(Generic)]
      tool(i) == [for |-> Tool(i), by |-> Tries(Tools[i]) \o Tries(Launcher)]
      cat(i) == [for |-> Cat(i), by |-> CatIcons[Cats(s)[i]]]
      ofApps == {i \in DOMAIN s : Icon[s[i].of] # None}
  IN [k \in 1..Cardinality(ofApps) |-> app(Ascending(ofApps)[k])]
     \o [i \in DOMAIN Tools |-> tool(i)]
     \o [i \in DOMAIN Cats(s) |-> cat(i)]

MenuHolders == {h \in Holders : h # Task}

(* After the first sync, which switches all rows on. *)
Init ==
  /\ CacheInit
  /\ db = [e \in Entries |-> [status |-> "on", label |-> 1, at |-> 0]]
  /\ now = 0 /\ edits = 0
  /\ up = FALSE /\ apps = <<>> /\ active = 1 /\ sub = FALSE /\ items = <<>>
  /\ catPic = <<>> /\ subPic = <<>> /\ read = None /\ pc = "rest" /\ jobs = <<>>
  /\ raced = FALSE

--------------------------------------------------------------------------------
(* nizam-settings: a row is added, deleted, switched or renamed.              *)
Edit(e) ==
  /\ pc # "load" /\ edits < MaxEdits /\ edits' = edits + 1
  /\ \E s \in {"on", "off", "gone"}, l \in {1, 2} :
       /\ <<s, l>> # <<db[e].status, db[e].label>>
       /\ s # db[e].status => l = db[e].label
       /\ db' = [db EXCEPT ![e] = [status |-> s, label |-> l, at |-> now]]
  /\ raced' = (raced \/ pc = "stamp")
  /\ UNCHANGED <<icons, now, menu, read, pc, jobs>>

Second ==
  /\ pc = "rest" /\ now < MaxNow /\ now' = now + 1
  /\ UNCHANGED <<icons, db, edits, menu, read, raced, pc, jobs>>

--------------------------------------------------------------------------------
(* Closing. *)

(* Mutant: the rows of the submenu are not freed with the list. *)
FreedKeepsRows == Release(MenuHolders) /\ apps' = <<>> /\ active' = 1 /\ UNCHANGED items

(* apps_free *)
Freed == /\ Release(MenuHolders) /\ apps' = <<>> /\ items' = <<>> /\ active' = 1

(* apps_close.  The stamp has no further use: the next opening reads its own. *)
Close ==
  /\ pc = "rest" /\ up /\ Freed /\ up' = FALSE /\ sub' = FALSE
  /\ catPic' = <<>> /\ subPic' = <<>> /\ read' = None /\ raced' = FALSE
  /\ UNCHANGED <<base, pc, jobs>>

--------------------------------------------------------------------------------
(* Building. *)

(* scan_apps_from_sqlite, and what is then to be loaded. *)
Scans == apps' = Scan(db) /\ jobs' = Wanted(Scan(db))

(* apps_open: the scan comes first, then the stamp. *)
Open ==
  /\ pc = "rest" /\ ~up /\ Scans /\ pc' = "stamp"
  /\ UNCHANGED <<icons, base, up, active, sub, items, catPic, subPic, read, raced>>

OpenStamp ==
  /\ pc = "stamp" /\ read' = db /\ pc' = "load"
  /\ UNCHANGED <<icons, base, menu, raced, jobs>>

(* menu_poll_live_updates: first the stamp.  How long after the last one it   *)
(* comes, 500 ms at least, is left open.                                     *)
Poll ==
  /\ pc = "rest" /\ up /\ Stamp(db) # Stamp(read)
  /\ read' = db /\ raced' = FALSE /\ Freed
  /\ sub' = FALSE /\ subPic' = <<>> /\ pc' = "scan"
  /\ UNCHANGED <<base, up, catPic, jobs>>

PollScan ==
  /\ pc = "scan" /\ Scans /\ pc' = "load"
  /\ UNCHANGED <<icons, base, up, active, sub, items, catPic, subPic, read, raced>>

(* build_categories, init_top_tools and build_category_items: one icon. *)
LoadOne ==
  /\ pc = "load" /\ jobs # <<>> /\ jobs' = Tail(jobs)
  /\ Take(Head(jobs).for, Head(jobs).by)
  /\ UNCHANGED <<base, menu, read, raced, pc>>

(* cat_redraw *)
CatRows(s) == Tools \o Cats(s)

Shown ==
  /\ pc = "load" /\ jobs = <<>> /\ pc' = "rest" /\ up' = TRUE
  /\ catPic' = CatRows(apps)
  /\ UNCHANGED <<icons, base, apps, active, sub, items, subPic, read, raced, jobs>>

--------------------------------------------------------------------------------
(* menu_handle_xevent. *)

(* build_sub_items_for and sub_redraw. *)
SubFor(c) ==
  /\ active' = c /\ items' = Rows(apps, c)
  /\ subPic' = [k \in DOMAIN Rows(apps, c) |-> apps[Rows(apps, c)[k]]]

AtRest == pc = "rest" /\ up /\ UNCHANGED <<icons, base, read, raced, pc, jobs>>

(* A press on a category opens its submenu, or closes it. *)
PressCategory(c) ==
  /\ AtRest /\ c \in DOMAIN Cats(apps) /\ UNCHANGED <<up, apps, catPic>>
  /\ IF sub /\ active = c
     THEN sub' = FALSE /\ subPic' = <<>> /\ UNCHANGED <<active, items>>
     ELSE sub' = TRUE /\ SubFor(c)

(* Mutant: the new category is noted and its rows are not built. *)
PointAtQuiet(c) ==
  /\ AtRest /\ c \in DOMAIN Cats(apps) /\ sub /\ active # c
  /\ active' = c /\ UNCHANGED <<up, apps, catPic, sub, items, subPic>>

(* The pointer moves to another category while a submenu is up. *)
PointAt(c) ==
  /\ AtRest /\ c \in DOMAIN Cats(apps) /\ sub /\ active # c
  /\ SubFor(c) /\ UNCHANGED <<up, apps, catPic, sub>>

(* A tool, a row of the submenu, a place beside the menu, Escape: in the end  *)
(* the menu is closed; the command was copied before.                        *)
PressAndClose == Close

--------------------------------------------------------------------------------
(* The rest of the panel. *)

(* redraw, which draws the launcher. *)
DrawPanel ==
  /\ pc = "rest" /\ Draw(Launcher)
  /\ UNCHANGED <<base, menu, read, raced, pc, jobs>>

(* tasklist_update_clients: the icons are given back, then loaded anew for    *)
(* the windows there are.                                                    *)
RefreshTasks ==
  /\ pc = "rest" /\ held[Task] # 0 /\ Release({Task})
  /\ UNCHANGED <<base, menu, read, raced, pc, jobs>>

LoadTask ==
  /\ pc = "rest" /\ held[Task] = 0 /\ Take(Task, <<TaskIcon>>)
  /\ UNCHANGED <<base, menu, read, raced, pc, jobs>>

Panel == \/ Open \/ OpenStamp \/ Poll \/ PollScan \/ LoadOne \/ Shown
         \/ DrawPanel \/ RefreshTasks \/ LoadTask

Next ==
  \/ \E e \in Entries : Edit(e)
  \/ Second
  \/ PressAndClose
  \/ \E c \in 1..Cardinality(Entries) : PressCategory(c) \/ PointAt(c)
  \/ Panel

(* The loop comes round at least once a second, for the clock. *)
Fairness == /\ WF_vars(Poll) /\ WF_vars(PollScan) /\ WF_vars(OpenStamp)
            /\ WF_vars(LoadOne) /\ WF_vars(Shown)

Spec == Init /\ [][Next]_vars /\ Fairness

--------------------------------------------------------------------------------
TypeOK ==
  /\ CacheTypeOK
  /\ db \in Databases /\ read \in Databases \union {None}
  /\ now \in 0..MaxNow /\ edits \in 0..MaxEdits
  /\ up \in BOOLEAN /\ sub \in BOOLEAN /\ active \in 1..Cardinality(Entries)
  /\ apps \in Seq(AppEntry)
  /\ \A i \in DOMAIN items : items[i] \in DOMAIN apps
  /\ pc \in {"rest", "scan", "stamp", "load"}
  /\ \A i \in DOMAIN jobs : jobs[i].for \in Holders /\ ToSet(jobs[i].by) \subseteq Names
  /\ raced \in BOOLEAN

(* While a submenu is up its rows are the applications of the category that   *)
(* is active, in the list as it is now, and the screen shows those rows and   *)
(* the categories there are: a press starts what was pressed, and no row      *)
(* points into a list that was freed, whenever updates and pointer meet.      *)
SubmenuCurrent ==
  pc = "rest" /\ up =>
    /\ catPic = CatRows(apps)
    /\ sub => /\ items = Rows(apps, active) /\ items # <<>>
              /\ subPic = [k \in DOMAIN items |-> apps[items[k]]]

Missed == pc = "rest" /\ up /\ apps # Scan(db)

(* The stamp is the same for another database, of which an even number of    *)
(* rows is on as well when it was in this: a label changed twice in a second, *)
(* or two rows switched.                                                     *)
Alike == /\ read \notin {None, db} /\ Stamp(read) = Stamp(db)
         /\ (Cardinality(On(read)) - Cardinality(On(db))) % 2 = 0

(* An edit made while the menu is up is seen in it before long: always when   *)
(* an odd number of applications was switched on or off since the stamp was   *)
(* read.  Not so when the stamp cannot tell, or when the edit came between    *)
(* the scan and the stamp of an opening.                                     *)
LiveUpdates == Missed ~> (~Missed \/ Alike \/ raced)
================================================================================
