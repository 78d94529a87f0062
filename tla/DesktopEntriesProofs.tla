-------------------------- MODULE DesktopEntriesProofs --------------------------
(****************************************************************************)
(* The invariants and the action properties of DesktopEntries, for every set *)
(* of applications, windows and categories.  The inductive invariant adds    *)
(* that no dialog is open during a sync and that a sync has read the files    *)
(* that it writes.                                                           *)
(****************************************************************************)
EXTENDS DesktopEntries, TLAPS

(* A dialog and a sync exclude each other: both are started by a window that  *)
(* finds neither (open_details_dialog is modal, sync_from_system blocks).     *)
OneAtATime == syncing = None \/ dialog = None

(* A sync writes only files that it has read. *)
LeftIsScanned == syncing # None => syncing.left \subseteq Scanned(syncing.scan)

IInv == TypeOK /\ ChoicesKept /\ SyncReflectsScan /\ CategoryFollowsOverride
        /\ OneAtATime /\ LeftIsScanned

--------------------------------------------------------------------------------
(* The operators on rows. *)

(* What the sync makes of a row is an entry with the scanned metadata.        *)
LEMMA UpsertedIsLive ==
  ASSUME NEW row \in Row \cup {None}, NEW c \in Cats
  PROVE  /\ Upserted(row, c) \in Row
         /\ row # None => Upserted(row, c).user = row.user
         /\ row = None => Upserted(row, c).user = None
         /\ ~Upserted(row, c).deleted
         /\ Upserted(row, c).cats = c
         /\ Upserted(row, c).category = Category(c)
  BY DEF Upserted, FreshRow, Row

(* The sync leaves to an entry that is not deleted what the user chose.       *)
LEMMA UpsertedKeepsPrefs ==
  ASSUME NEW row \in Row, ~row.deleted, NEW c \in Cats
  PROVE  row # None => PrefsOf(Upserted(row, c)) = PrefsOf(row)
  BY DEF Upserted, Row, PrefsOf

(* A deleted entry comes back out of the dock.                               *)
LEMMA UpsertedRevivesUnpinned ==
  ASSUME NEW row \in Row, row.deleted, NEW c \in Cats
  PROVE  row # None => ~Upserted(row, c).dock
  BY DEF Upserted, Row

(* What the dialog saves is what it was asked for, under the category of the  *)
(* override or of the row's own categories.                                  *)
LEMMA SavedIsRow ==
  ASSUME NEW row \in Row, NEW prefs \in Prefs
  PROVE  /\ Saved(row, prefs) \in Row
         /\ Saved(row, prefs).deleted = row.deleted
         /\ PrefsOf(Saved(row, prefs)) = prefs
         /\ Saved(row, prefs).category = Category(Effective(Saved(row, prefs)))
  BY DEF Saved, Row, Prefs, PrefsOf, Effective

(* A list names the live entries by categories that files may have.           *)
LEMMA ListedType ==
  ASSUME NEW table \in [Apps -> Row \cup {None}]
  PROVE  Listed(table) \in [Apps -> Cats \cup {None}]
  BY DEF Listed, Live, Entries, Row

--------------------------------------------------------------------------------
(* Initially the table is empty. *)
LEMMA InitInv == Init => IInv
  BY DEF Init, IInv, TypeOK, ChoicesKept, SyncReflectsScan, CategoryFollowsOverride, OneAtATime,
         LeftIsScanned, NoList, Live, Entries

(* One row is synchronised. *)
LEMMA UpsertInv ==
  ASSUME IInv, NEW a \in Apps, UpsertOne(a)
  PROVE  IInv'
<1> DEFINE c == syncing.scan[a]
<1>1. /\ syncing # None /\ syncing \in Sync /\ a \in syncing.left
      /\ db' = [db EXCEPT ![a] = Upserted(db[a], c)]
      /\ syncing' = [syncing EXCEPT !.left = @ \ {a}]
      /\ overruled' = IF a \in Entries(db) /\ db[a].user # None
                      THEN overruled \cup {a} ELSE overruled
      /\ UNCHANGED <<files, open, list, dialog, chosen>>
  BY DEF UpsertOne, IInv, TypeOK
<1>2. db \in [Apps -> Row \cup {None}] /\ c \in Cats
  BY <1>1 DEF IInv, TypeOK, Sync, LeftIsScanned, Scanned
<1>3. /\ db' \in [Apps -> Row \cup {None}]
      /\ \A b \in Apps \ {a} : db'[b] = db[b]
      /\ db'[a] = Upserted(db[a], c)
      /\ db'[a] \in Row /\ ~db'[a].deleted
      /\ db'[a].cats = c /\ db'[a].category = Category(c)
      /\ db[a] # None => db'[a].user = db[a].user
      /\ db[a] = None => db'[a].user = None
  <2>1. /\ db[a] # None => Upserted(db[a], c).user = db[a].user
        /\ db[a] = None => Upserted(db[a], c).user = None
        /\ Upserted(db[a], c) \in Row /\ ~Upserted(db[a], c).deleted
        /\ Upserted(db[a], c).cats = c /\ Upserted(db[a], c).category = Category(c)
    BY <1>2, UpsertedIsLive
  <2> QED  BY <1>1, <1>2, <2>1
<1>4. a \in Live(db)' /\ \A b \in Apps \ {a} : b \in Live(db)' <=> b \in Live(db)
  BY <1>3, NoneAssumption DEF Live, Entries
<1>5. /\ syncing' \in Sync /\ syncing' # None
      /\ syncing'.scan = syncing.scan /\ syncing'.left = syncing.left \ {a}
  <2>1. syncing' \in Sync /\ syncing'.scan = syncing.scan
        /\ syncing'.left = syncing.left \ {a}
    BY <1>1 DEF Sync
  <2>2. syncing' # None
    BY <2>1, NoneAssumption
  <2> QED  BY <2>1, <2>2
<1>6. TypeOK'
  BY <1>1, <1>3, <1>5 DEF IInv, TypeOK
<1>7. ChoicesKept'
  <2>1. ASSUME chosen[a] # None
        PROVE  PrefsOf(db'[a]) = chosen[a]
    <3>1. a \in Live(db) /\ PrefsOf(db[a]) = chosen[a]
      BY <2>1 DEF IInv, ChoicesKept
    <3>2. db[a] \in Row /\ ~db[a].deleted /\ db[a] # None
      BY <3>1, <1>2 DEF Live, Entries
    <3> QED  BY <3>1, <3>2, <1>2, <1>3, UpsertedKeepsPrefs
  <2>2. ASSUME NEW b \in Apps \ {a}, chosen[b] # None
        PROVE  b \in Live(db)' /\ PrefsOf(db'[b]) = chosen[b]
    BY <2>2, <1>3, <1>4 DEF IInv, ChoicesKept
  <2> QED  BY <2>1, <2>2, <1>1, <1>4 DEF ChoicesKept
<1>8. SyncReflectsScan'
  BY <1>1, <1>3, <1>4, <1>5 DEF IInv, SyncReflectsScan, Scanned
<1>9. CategoryFollowsOverride'
  <2> SUFFICES ASSUME NEW b \in Live(db')
               PROVE  db'[b].category
                        = Category(IF b \in overruled' THEN db'[b].cats ELSE Effective(db'[b]))
    BY DEF CategoryFollowsOverride, Category, Effective
  <2>1. CASE b = a
    <3>1. b \notin overruled' => db'[b].user = None
      BY <2>1, <1>1, <1>3 DEF Entries
    <3> QED  BY <2>1, <3>1, <1>3 DEF Effective
  <2>2. CASE b # a
    <3>1. b \in Apps \ {a} /\ b \in Live(db) /\ (b \in overruled' <=> b \in overruled)
      BY <2>2, <1>1, <1>4 DEF Live, Entries
    <3> QED  BY <3>1, <1>3 DEF IInv, CategoryFollowsOverride
  <2> QED  BY <2>1, <2>2
<1>10. OneAtATime' /\ LeftIsScanned'
  BY <1>1, <1>5 DEF IInv, OneAtATime, LeftIsScanned, Scanned
<1> QED  BY <1>6, <1>7, <1>8, <1>9, <1>10 DEF IInv

(* What the dialog writes to its row, whatever it is, keeps the invariant when *)
(* the entry is deleted or has the category and the choices it should have.   *)
LEMMA WrittenInv ==
  ASSUME IInv, NEW row, Written(row),
         dialog # None /\ db[dialog.app] # None => row \in Row,
         dialog # None /\ db[dialog.app] # None /\ ~row.deleted =>
           /\ row.category = Category(Effective(row))
           /\ chosen'[dialog.app] # None => chosen'[dialog.app] = PrefsOf(row),
         dialog # None /\ (db[dialog.app] = None \/ row.deleted)
           => chosen'[dialog.app] = None,
         chosen' \in [Apps -> Prefs \cup {None}],
         \A b \in Apps : b # dialog.app => chosen'[b] = chosen[b],
         UNCHANGED <<files, open, syncing>>
  PROVE  IInv'
<1> DEFINE a == dialog.app
<1>1. /\ dialog # None /\ dialog' = None
      /\ dialog.window \in Windows /\ a \in Apps
      /\ db' = [db EXCEPT ![a] = IF db[a] = None THEN None ELSE row]
      /\ list' = [list EXCEPT ![dialog.window] = Listed(db')]
      /\ overruled' = overruled \ {a}
      /\ syncing = None
  BY DEF Written, IInv, TypeOK, Dialog, OneAtATime
<1>2. db \in [Apps -> Row \cup {None}] /\ db' \in [Apps -> Row \cup {None}]
  BY <1>1 DEF IInv, TypeOK
<1>3. /\ db'[a] = IF db[a] = None THEN None ELSE row
      /\ \A b \in Apps \ {a} : db'[b] = db[b]
  BY <1>1, <1>2
<1>4. /\ a \in Live(db') <=> db[a] # None /\ ~row.deleted
      /\ \A b \in Apps \ {a} : b \in Live(db') <=> b \in Live(db)
  BY <1>1, <1>3, NoneAssumption DEF Live, Entries
<1>5. TypeOK'
  BY <1>1, <1>2, ListedType DEF IInv, TypeOK
<1>6. ChoicesKept'
  <2> SUFFICES ASSUME NEW b \in Apps, chosen'[b] # None
               PROVE  b \in Live(db') /\ PrefsOf(db'[b]) = chosen'[b]
    BY DEF ChoicesKept, PrefsOf
  <2>1. CASE b = a
    BY <2>1, <1>1, <1>3, <1>4
  <2>2. CASE b # a
    BY <2>2, <1>3, <1>4 DEF IInv, ChoicesKept
  <2> QED  BY <2>1, <2>2
<1>7. CategoryFollowsOverride'
  <2> SUFFICES ASSUME NEW b \in Live(db')
               PROVE  db'[b].category
                        = Category(IF b \in overruled' THEN db'[b].cats ELSE Effective(db'[b]))
    BY DEF CategoryFollowsOverride, Category, Effective
  <2>1. CASE b = a
    BY <2>1, <1>1, <1>3, <1>4
  <2>2. CASE b # a
    <3>1. b \in Apps \ {a} /\ b \in Live(db) /\ (b \in overruled' <=> b \in overruled)
      BY <2>2, <1>1, <1>4 DEF Live, Entries
    <3> QED  BY <3>1, <1>3 DEF IInv, CategoryFollowsOverride
  <2> QED  BY <2>1, <2>2
<1>8. SyncReflectsScan' /\ OneAtATime' /\ LeftIsScanned'
  BY <1>1 DEF SyncReflectsScan, OneAtATime, LeftIsScanned
<1> QED  BY <1>5, <1>6, <1>7, <1>8 DEF IInv

(* A save. *)
LEMMA SaveInv ==
  ASSUME IInv, NEW text \in Cats, NEW on \in BOOLEAN, NEW pin \in BOOLEAN,
         Save(text, on, pin)
  PROVE  IInv'
<1> DEFINE a == dialog.app
           prefs == [user |-> IF text = dialog.cats THEN None ELSE text,
                     enabled |-> on, dock |-> pin]
           row == Saved(db[a], prefs)
<1>1. /\ dialog # None /\ Written(row)
      /\ chosen' = IF a \in Live(db) THEN [chosen EXCEPT ![a] = prefs] ELSE chosen
      /\ UNCHANGED <<files, open, syncing>>
  BY DEF Save
<1>2. prefs \in Prefs /\ a \in Apps
  BY <1>1 DEF Prefs, IInv, TypeOK, Dialog
<1>3. ASSUME db[a] # None
      PROVE  /\ db[a] \in Row /\ row \in Row
             /\ row.deleted = db[a].deleted
             /\ PrefsOf(row) = prefs
             /\ row.category = Category(Effective(row))
  <2>1. db[a] \in Row
    BY <1>2, <1>3 DEF IInv, TypeOK
  <2> QED  BY <1>2, <2>1, SavedIsRow
<1>4. chosen' \in [Apps -> Prefs \cup {None}]
  BY <1>1, <1>2 DEF IInv, TypeOK
<1>5. \A b \in Apps : b # a => chosen'[b] = chosen[b]
  BY <1>1, <1>2 DEF IInv, TypeOK
<1>6. a \in Live(db) => chosen'[a] = prefs
  BY <1>1, <1>2 DEF IInv, TypeOK
<1>7. a \notin Live(db) => chosen'[a] = None
  BY <1>1, <1>2 DEF IInv, ChoicesKept
<1>8. a \in Live(db) <=> db[a] # None /\ ~db[a].deleted
  BY <1>2 DEF Live, Entries
<1> HIDE DEF row, prefs
<1> QED  BY <1>1, <1>3, <1>4, <1>5, <1>6, <1>7, <1>8, WrittenInv DEF a

(* A deletion. *)
LEMMA DeleteInv ==
  ASSUME IInv, Delete
  PROVE  IInv'
<1> DEFINE a == dialog.app
           row == [db[a] EXCEPT !.deleted = TRUE, !.enabled = FALSE,
                                !.dock = FALSE, !.user = None]
<1>1. /\ dialog # None /\ Written(row)
      /\ chosen' = [chosen EXCEPT ![a] = None]
      /\ UNCHANGED <<files, open, syncing>>
  BY DEF Delete, Written
<1>2. a \in Apps
  BY <1>1 DEF IInv, TypeOK, Dialog
<1>3. ASSUME db[a] # None
      PROVE  row \in Row /\ row.deleted
  <2>1. db[a] \in Row
    BY <1>2, <1>3 DEF IInv, TypeOK
  <2> QED  BY <2>1 DEF Row
<1>4. /\ chosen' \in [Apps -> Prefs \cup {None}]
      /\ chosen'[a] = None
      /\ \A b \in Apps : b # a => chosen'[b] = chosen[b]
  BY <1>1, <1>2 DEF IInv, TypeOK
<1> HIDE DEF row
<1> QED  BY <1>1, <1>3, <1>4, WrittenInv DEF a

(* The steps that leave the table alone. *)
LEMMA OtherInv ==
  ASSUME IInv,
         \/ \E a \in Apps : Package(a)
         \/ \E w \in Windows : \/ Activate(w) \/ Close(w) \/ StartSync(w)
                               \/ \E a \in Apps : OpenDialog(w, a)
         \/ SyncFails \/ SyncDone \/ Dismiss
         \/ UNCHANGED vars
  PROVE  IInv'
<1>1. /\ db' = db /\ chosen' = chosen /\ overruled' = overruled
      /\ db \in [Apps -> Row \cup {None}]
  BY DEF IInv, TypeOK, Package, Activate, Close, StartSync, OpenDialog, SyncFails, SyncDone,
         Dismiss, vars
<1>2. ChoicesKept' /\ CategoryFollowsOverride'
  BY <1>1 DEF IInv, ChoicesKept, CategoryFollowsOverride, PrefsOf, Live, Entries, Effective, Category
<1>3. Listed(db) \in [Apps -> Cats \cup {None}] /\ NoList \in [Apps -> Cats \cup {None}]
  BY <1>1, ListedType DEF NoList
<1>4. /\ TypeOK' /\ SyncReflectsScan' /\ OneAtATime' /\ LeftIsScanned'
  <2>1. CASE \E a \in Apps : Package(a)
    BY <2>1 DEF Package, IInv, TypeOK, SyncReflectsScan, OneAtATime, LeftIsScanned, Scanned,
                Live, Entries
  <2>2. CASE \E w \in Windows : Activate(w)
    BY <2>2, <1>3 DEF Activate, IInv, TypeOK, SyncReflectsScan, OneAtATime, LeftIsScanned
  <2>3. CASE \E w \in Windows : Close(w)
    BY <2>3, <1>3 DEF Close, IInv, TypeOK, SyncReflectsScan, OneAtATime, LeftIsScanned
  <2>4. CASE \E w \in Windows : StartSync(w)
    BY <2>4 DEF StartSync, IInv, TypeOK, Sync, SyncReflectsScan, OneAtATime, LeftIsScanned,
                Scanned
  <2>5. CASE \E w \in Windows, a \in Apps : OpenDialog(w, a)
    BY <2>5 DEF OpenDialog, IInv, TypeOK, Dialog, SyncReflectsScan, OneAtATime, LeftIsScanned
  <2>6. CASE SyncFails
    BY <2>6 DEF SyncFails, IInv, TypeOK, SyncReflectsScan, OneAtATime, LeftIsScanned
  <2>7. CASE SyncDone
    BY <2>7, <1>3 DEF SyncDone, IInv, TypeOK, Sync, SyncReflectsScan, OneAtATime,
                      LeftIsScanned
  <2>8. CASE Dismiss
    BY <2>8, <1>1 DEF Dismiss, IInv, TypeOK, SyncReflectsScan, OneAtATime, LeftIsScanned,
                      Scanned, Live, Entries
  <2>9. CASE UNCHANGED vars
    BY <2>9 DEF vars, IInv, TypeOK, SyncReflectsScan, OneAtATime, LeftIsScanned, Scanned,
                Live, Entries
  <2> QED  BY <2>1, <2>2, <2>3, <2>4, <2>5, <2>6, <2>7, <2>8, <2>9
<1> QED  BY <1>2, <1>4 DEF IInv

(* Every reachable state satisfies the inductive invariant. *)
THEOREM Invariance == Spec => []IInv
<1>1. ASSUME IInv, [Next]_vars
      PROVE  IInv'
  BY <1>1, UpsertInv, SaveInv, DeleteInv, OtherInv DEF Next
<1> QED  BY <1>1, InitInv, PTL DEF Spec

--------------------------------------------------------------------------------
(* The variables hold what they should (the table's rows, the lists, the       *)
(* dialog and the sync).                                                     *)
THEOREM TypeCorrect == Spec => []TypeOK
  BY Invariance, PTL DEF IInv

(* The user's choices outlast every sync and package update until he changes  *)
(* them (sync_system_entries, set_user_prefs).                               *)
THEOREM ChoicesAreKept == Spec => []ChoicesKept
  BY Invariance, PTL DEF IInv

(* A sync leaves an up-to-date entry for every file that it has passed        *)
(* (sync_system_entries).                                                    *)
THEOREM SyncIsReflected == Spec => []SyncReflectsScan
  BY Invariance, PTL DEF IInv

(* An override decides on the category from the save to the next sync of its   *)
(* file, and the file as it is in the table at all other times                *)
(* (set_user_prefs, sync_system_entries).                                    *)
THEOREM CategoryFollows == Spec => []CategoryFollowsOverride
  BY Invariance, PTL DEF IInv

(* No sync, package or other window puts an application into the dock         *)
(* (sync_system_entries, load_launchers_from_nizam_db).                      *)
LEMMA UserPins ==
  ASSUME IInv, Next
  PROVE  Pinned \subseteq Asked
<1> SUFFICES ASSUME NEW b \in DockShows', b \notin DockShows
             PROVE  b \in Asked
  BY DEF Pinned
<1>1. ASSUME NEW a \in Apps, UpsertOne(a)
      PROVE  FALSE
  <2> DEFINE c == syncing.scan[a]
  <2>1. /\ db' = [db EXCEPT ![a] = Upserted(db[a], c)] /\ c \in Cats
        /\ db \in [Apps -> Row \cup {None}]
    BY <1>1 DEF UpsertOne, IInv, TypeOK, Sync, LeftIsScanned, Scanned
  <2>2. b = a /\ b \in Apps
    BY <2>1 DEF DockShows, MenuShows, Live, Entries
  <2>3. db'[a].dock /\ db'[a].enabled /\ db'[a] = Upserted(db[a], c)
    BY <2>1, <2>2 DEF DockShows, MenuShows
  <2>4. db[a] # None /\ db[a] \in Row /\ ~db[a].deleted /\ db[a].dock /\ db[a].enabled
    BY <2>1, <2>2, <2>3 DEF Upserted, FreshRow, Row
  <2> QED  BY <2>2, <2>4 DEF DockShows, MenuShows, Live, Entries
<1>2. ASSUME NEW row, Written(row)
      PROVE  b \in Asked
  <2>1. /\ dialog # None
        /\ db' = [db EXCEPT ![dialog.app] = IF @ = None THEN None ELSE row]
        /\ db \in [Apps -> Row \cup {None}]
    BY <1>2 DEF Written, IInv, TypeOK
  <2>2. b = dialog.app
    BY <2>1 DEF DockShows, MenuShows, Live, Entries
  <2> QED  BY <2>1, <2>2 DEF Asked
<1>3. CASE db' = db
  BY <1>3 DEF DockShows, MenuShows, Live, Entries
<1> QED
  BY <1>1, <1>2, <1>3 DEF Next, Save, Delete, Package, Activate, Close, StartSync, OpenDialog,
                          SyncFails, SyncDone, Dismiss

(* No sync, package or other window takes an application out of the menu      *)
(* (sync_system_entries, scan_apps_from_sqlite).                             *)
LEMMA UserHides ==
  ASSUME IInv, Next
  PROVE  Hidden \subseteq Asked
<1> SUFFICES ASSUME NEW b \in MenuShows, b \notin MenuShows'
             PROVE  b \in Asked
  BY DEF Hidden
<1>1. ASSUME NEW a \in Apps, UpsertOne(a)
      PROVE  FALSE
  <2> DEFINE c == syncing.scan[a]
  <2>1. /\ db' = [db EXCEPT ![a] = Upserted(db[a], c)] /\ c \in Cats
        /\ db \in [Apps -> Row \cup {None}]
    BY <1>1 DEF UpsertOne, IInv, TypeOK, Sync, LeftIsScanned, Scanned
  <2>2. b = a /\ b \in Apps /\ db[a] \in Row /\ db[a] # None
    BY <2>1 DEF MenuShows, Live, Entries
  <2>3. db[a].enabled /\ ~db[a].deleted /\ db'[a] = Upserted(db[a], c)
    BY <2>1, <2>2 DEF MenuShows, Live
  <2>4. db'[a] \in Row /\ ~db'[a].deleted
    BY <2>1, <2>3, UpsertedIsLive
  <2>5. db'[a].enabled
    BY <2>2, <2>3 DEF Upserted, Row
  <2> QED  BY <2>2, <2>4, <2>5, NoneAssumption DEF MenuShows, Live, Entries
<1>2. ASSUME NEW row, Written(row)
      PROVE  b \in Asked
  <2>1. /\ dialog # None
        /\ db' = [db EXCEPT ![dialog.app] = IF @ = None THEN None ELSE row]
        /\ db \in [Apps -> Row \cup {None}]
    BY <1>2 DEF Written, IInv, TypeOK
  <2>2. b = dialog.app
    BY <2>1 DEF MenuShows, Live, Entries
  <2> QED  BY <2>1, <2>2 DEF Asked
<1>3. CASE db' = db
  BY <1>3 DEF MenuShows, Live, Entries
<1> QED
  BY <1>1, <1>2, <1>3 DEF Next, Save, Delete, Package, Activate, Close, StartSync, OpenDialog,
                          SyncFails, SyncDone, Dismiss

(* The dock and the menu are what the user made them: whatever is installed,  *)
(* removed or synchronised, only the dialog pins or hides an application      *)
(* (sync_system_entries, set_user_prefs).                                    *)
THEOREM UserChooses == Spec => OnlyTheUserChooses
<1>1. ASSUME IInv, [Next]_vars
      PROVE  [Pinned \union Hidden \subseteq Asked]_vars
  BY <1>1, UserPins, UserHides
<1> QED  BY <1>1, Invariance, PTL DEF Spec, OnlyTheUserChooses
================================================================================
