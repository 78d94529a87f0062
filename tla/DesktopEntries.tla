----------------------------- MODULE DesktopEntries -----------------------------
(****************************************************************************)
(* The table desktop_entries of nizam.db and what changes it: nizam-settings *)
(* synchronises it with the files of /usr/share/applications, row by row and *)
(* without a transaction, keeps the user's choices, and deletes entries,     *)
(* leaving tombstones (the migration that purges them runs before, once).    *)
(* Each activate of the application opens one more window, with a list of    *)
(* entries loaded at a time of its own; the details dialog is modal for all. *)
(*                                                                          *)
(* Of what a file says, the categories stand for the name, the command and   *)
(* the icon too, and their override for the overrides of name and command.   *)
(* The menu of the panel and the dock read the table.                        *)
(****************************************************************************)
EXTENDS FiniteSets

CONSTANTS
  Apps,     \* the names of .desktop files
  Windows,  \* windows of nizam-settings
  Cats,     \* what the Categories of a file may say
  Mapped,   \* pick_category_mapped: the category of the menu for each of them
  None

VARIABLES
  files,    \* /usr/share/applications: what each file says
  db,       \* the rows of desktop_entries
  open,     \* the windows that are open
  list,     \* per window, the entries it lists and their system_categories
  dialog,   \* the details dialog: its entry, as its window had loaded it
  syncing,  \* the sync under way: its window, what it scanned, what it has left
  chosen,   \* history: what the user last saved for an entry that is not deleted
  overruled \* history: the entries whose overrides a sync has written over since

vars == <<files, db, open, list, dialog, syncing, chosen, overruled>>

Category(c) == Mapped[c]

Prefs == [user: Cats \cup {None}, enabled: BOOLEAN, dock: BOOLEAN]

Row == [cats: Cats, category: {Category(c) : c \in Cats}, user: Cats \cup {None},
        enabled: BOOLEAN, dock: BOOLEAN, deleted: BOOLEAN]

Dialog == [window: Windows, app: Apps, cats: Cats]
Sync == [window: Windows, scan: [Apps -> Cats \cup {None}], left: SUBSET Apps]

ASSUME NoneAssumption == /\ None \notin Cats /\ None \notin Apps
                         /\ None \notin Row /\ None \notin Dialog /\ None \notin Sync

Entries(table) == {a \in Apps : table[a] # None}
Live(table) == {a \in Entries(table) : ~table[a].deleted}

PrefsOf(row) == [user |-> row.user, enabled |-> row.enabled, dock |-> row.dock]

(* coalesce(user_categories, categories) *)
Effective(row) == IF row.user # None THEN row.user ELSE row.cats

(* load_entries *)
Listed(table) == [a \in Apps |-> IF a \in Live(table) THEN table[a].cats ELSE None]

(* What the panel's menu and the dock select. *)
MenuShows == {a \in Live(db) : db[a].enabled}
DockShows == {a \in MenuShows : db[a].dock}

NoList == [a \in Apps |-> None]

Init ==
  /\ files \in [Apps -> Cats \cup {None}]
  /\ db = [a \in Apps |-> None]
  /\ open = {} /\ list = [w \in Windows |-> NoList]
  /\ dialog = None /\ syncing = None
  /\ chosen = [a \in Apps |-> None] /\ overruled = {}

--------------------------------------------------------------------------------
(* Packages are installed, updated and removed. *)
Package(a) ==
  /\ \E c \in (Cats \cup {None}) \ {files[a]} : files' = [files EXCEPT ![a] = c]
  /\ UNCHANGED <<db, open, list, dialog, syncing, chosen, overruled>>

--------------------------------------------------------------------------------
(* nizam-settings is started, once more if it runs already.                  *)
Activate(w) ==
  /\ w \notin open /\ syncing = None
  /\ open' = open \cup {w}
  /\ list' = [list EXCEPT ![w] = Listed(db)]
  /\ UNCHANGED <<files, db, dialog, syncing, chosen, overruled>>

Close(w) ==
  /\ w \in open /\ syncing = None /\ dialog = None
  /\ open' = open \ {w}
  /\ list' = [list EXCEPT ![w] = NoList]
  /\ UNCHANGED <<files, db, dialog, syncing, chosen, overruled>>

--------------------------------------------------------------------------------
(* Synchronisation: the window does nothing else meanwhile. *)

Scanned(files_) == {a \in Apps : files_[a] # None}

StartSync(w) ==
  /\ w \in open /\ syncing = None /\ dialog = None
  /\ syncing' = [window |-> w, scan |-> files, left |-> Scanned(files)]
  /\ UNCHANGED <<files, db, open, list, dialog, chosen, overruled>>

(* Mutant: the categories are stored as the category. *)
FreshRowUnmapped(c) == [cats |-> c, category |-> c, user |-> None,
                        enabled |-> TRUE, dock |-> FALSE, deleted |-> FALSE]

FreshRow(c) == [cats |-> c, category |-> Category(c), user |-> None,
                enabled |-> TRUE, dock |-> FALSE, deleted |-> FALSE]

(* Mutant: enabled is set from the wrong column. *)
UpsertedColumn(row, c) ==
  IF row = None THEN FreshRow(c)
  ELSE [row EXCEPT !.cats = c, !.category = Category(c), !.deleted = FALSE,
                   !.enabled = row.deleted \/ row.dock,
                   !.dock = ~row.deleted /\ row.dock]

(* Mutant: INSERT OR REPLACE. *)
UpsertedFresh(row, c) == FreshRow(c)

(* Mutant: a row that says the same already is left alone, deleted or not. *)
UpsertedUnlessSame(row, c) ==
  IF row = None THEN FreshRow(c)
  ELSE IF row.cats = c /\ row.category = Category(c) THEN row
  ELSE [row EXCEPT !.cats = c, !.category = Category(c), !.deleted = FALSE]

(* ON CONFLICT(filename) DO UPDATE: the file's metadata is taken, the user's  *)
(* choices are kept, and a tombstone becomes an entry again, enabled and out  *)
(* of the dock.  The category is the file's, though an override of the         *)
(* categories stands.  (The WHERE clause spares rows that this would not        *)
(* change.)                                                                    *)
Upserted(row, c) ==
  IF row = None THEN FreshRow(c)
  ELSE [row EXCEPT !.cats = c, !.category = Category(c), !.deleted = FALSE,
                   !.enabled = row.deleted \/ row.enabled,
                   !.dock = ~row.deleted /\ row.dock]

UpsertOne(a) ==
  /\ syncing # None /\ a \in syncing.left
  /\ db' = [db EXCEPT ![a] = Upserted(db[a], syncing.scan[a])]
  /\ syncing' = [syncing EXCEPT !.left = @ \ {a}]
  /\ overruled' = IF a \in Entries(db) /\ db[a].user # None
                  THEN overruled \cup {a} ELSE overruled
  /\ UNCHANGED <<files, open, list, dialog, chosen>>

(* A statement fails (the database is locked, the disk is full): the rows     *)
(* before it stay changed and the window keeps the list it has.              *)
SyncFails ==
  /\ syncing # None /\ syncing.left # {}
  /\ syncing' = None
  /\ UNCHANGED <<files, db, open, list, dialog, chosen, overruled>>

SyncDone ==
  /\ syncing # None /\ syncing.left = {}
  /\ syncing' = None
  /\ list' = [list EXCEPT ![syncing.window] = Listed(db)]
  /\ UNCHANGED <<files, db, open, dialog, chosen, overruled>>

--------------------------------------------------------------------------------
(* The details dialog. *)

OpenDialog(w, a) ==
  /\ w \in open /\ syncing = None /\ dialog = None
  /\ list[w][a] # None
  /\ dialog' = [window |-> w, app |-> a, cats |-> list[w][a]]
  /\ UNCHANGED <<files, db, open, list, syncing, chosen, overruled>>

Dismiss ==
  /\ dialog # None
  /\ dialog' = None
  /\ UNCHANGED <<files, db, open, list, syncing, chosen, overruled>>

(* What the dialog writes closes it, and its window loads its list again.     *)
Written(row) ==
  /\ dialog # None
  /\ db' = [db EXCEPT ![dialog.app] = IF @ = None THEN None ELSE row]
  /\ list' = [list EXCEPT ![dialog.window] = Listed(db')]
  /\ dialog' = None
  /\ overruled' = overruled \ {dialog.app}

(* Mutant: the category follows what the dialog was opened with. *)
SavedFromDialog(row, prefs) ==
  [cats |-> row.cats, user |-> prefs.user, enabled |-> prefs.enabled, dock |-> prefs.dock,
   category |-> Category(IF prefs.user # None THEN prefs.user ELSE dialog.cats),
   deleted |-> row.deleted]

(* set_user_prefs: the category follows the override, or the categories that  *)
(* the row has now; a tombstone stays one.                                   *)
Saved(row, prefs) ==
  [cats |-> row.cats, user |-> prefs.user, enabled |-> prefs.enabled, dock |-> prefs.dock,
   category |-> Category(Effective([row EXCEPT !.user = prefs.user])),
   deleted |-> row.deleted]

(* The text of the field is an override unless it is what the entry, as it    *)
(* was loaded, had from its file.                                            *)
Save(text, on, pin) ==
  /\ dialog # None
  /\ LET prefs == [user |-> IF text = dialog.cats THEN None ELSE text,
                   enabled |-> on, dock |-> pin]
     IN /\ Written(Saved(db[dialog.app], prefs))
        /\ chosen' = IF dialog.app \in Live(db)
                     THEN [chosen EXCEPT ![dialog.app] = prefs] ELSE chosen
  /\ UNCHANGED <<files, open, syncing>>

Delete ==
  /\ Written([db[dialog.app] EXCEPT !.deleted = TRUE, !.enabled = FALSE,
                                    !.dock = FALSE, !.user = None])
  /\ chosen' = [chosen EXCEPT ![dialog.app] = None]
  /\ UNCHANGED <<files, open, syncing>>

--------------------------------------------------------------------------------
Next ==
  \/ \E a \in Apps : Package(a) \/ UpsertOne(a)
  \/ \E w \in Windows : \/ Activate(w) \/ Close(w) \/ StartSync(w)
                        \/ \E a \in Apps : OpenDialog(w, a)
  \/ SyncFails \/ SyncDone
  \/ Dismiss \/ Delete
  \/ \E text \in Cats, on, pin \in BOOLEAN : Save(text, on, pin)

Spec == Init /\ [][Next]_vars

--------------------------------------------------------------------------------
TypeOK ==
  /\ files \in [Apps -> Cats \cup {None}]
  /\ db \in [Apps -> Row \cup {None}]
  /\ open \in SUBSET Windows
  /\ list \in [Windows -> [Apps -> Cats \cup {None}]]
  /\ dialog \in Dialog \cup {None}
  /\ syncing \in Sync \cup {None}
  /\ chosen \in [Apps -> Prefs \cup {None}]
  /\ overruled \in SUBSET Apps

(* The flags and the overrides that the user last saved for an entry are the  *)
(* entry's until the next save or its deletion: neither a sync, complete or    *)
(* not, nor an update of the package loses them (sync_system_entries).       *)
ChoicesKept ==
  \A a \in Apps : chosen[a] # None => a \in Live(db) /\ PrefsOf(db[a]) = chosen[a]

(* Every file that a sync has passed is an entry with the metadata that was    *)
(* scanned, whatever the row was before.                                     *)
SyncReflectsScan ==
  syncing # None =>
    \A a \in Scanned(syncing.scan) \ syncing.left :
      a \in Live(db) /\ db[a].cats = syncing.scan[a]

(* The category under which the menu and the dock put an entry is that of its *)
(* override from the save on; only the next sync that passes its file puts it  *)
(* back under the file's, the override standing.  An entry with no override is *)
(* under the categories of its file as they are in the table now, even if the  *)
(* dialog that saved it was opened from a list older than the last sync         *)
(* (set_user_prefs, sync_system_entries).                                     *)
CategoryFollowsOverride ==
  \A a \in Live(db) :
    db[a].category = Category(IF a \in overruled THEN db[a].cats ELSE Effective(db[a]))

Tombstones == Entries(db) \ Live(db)

Asked == IF dialog = None THEN {} ELSE {dialog.app}

Pinned == DockShows' \ DockShows
Hidden == MenuShows \ MenuShows'

(* Only by what the user does in its dialog does an application come to the   *)
(* dock (a sync that revives a deleted entry does not pin it again) or leave  *)
(* the menu, and so the dock: not by a sync, nor by the removal of its package.*)
OnlyTheUserChooses == [][Pinned \union Hidden \subseteq Asked]_vars

(* "it will not be re-imported on Sync" (ApplicationsPage.vala, the question  *)
(* before an entry is deleted): a deleted entry stays deleted.               *)
DeletedNotReimported ==
  [][Tombstones \subseteq Tombstones']_vars
================================================================================
