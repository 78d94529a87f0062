-------------------------- MODULE ExplorerNavigation --------------------------
(****************************************************************************)
(* nizam-explorer/src/window.vala and history.vala: the folder the file     *)
(* manager shows, its history, and the listings that are read for it in the *)
(* background.  Any request starts a listing and cancels the one before it, *)
(* but the cancelled one still runs to an end.  File operations run on the  *)
(* same main loop; while one asks a question in a modal dialog, listings go *)
(* on arriving and the folder shown may change under it.                    *)
(*   Left out: the sidebar tree, icons and their layout, bookmarks, and the *)
(* names in a folder.  Of what a listing holds two things are kept: whether *)
(* it may lack a change made here, and whether it has the hidden files.     *)
(****************************************************************************)
EXTENDS Naturals, Sequences, SequencesExt

CONSTANTS Dirs, Home,
          Parent,        \* [Dirs -> Dirs \cup {NoDir}]
          NoDir,
          MaxLoads       \* a bound: the listings started in a behaviour

ASSUME HomeAssumption == Home \in Dirs /\ NoDir \notin Dirs
ASSUME ParentAssumption == Parent \in [Dirs -> Dirs \cup {NoDir}]
ASSUME BoundAssumption == MaxLoads \in Nat \ {0}

VARIABLES current,       \* current_dir, NoDir before the first listing
          show_hidden,
          shown,         \* the listing in the icon view
          loads,         \* the listings being read
          load_token,
          back, forward, \* the stacks of history.vala, the top at the end
          buttons,       \* the toolbar buttons that are sensitive
          accels,        \* of back, forward and up: the actions keys may start
          busy,          \* the pointer is a watch
          dialog,        \* the operation whose modal dialog is open, its folder
          excuses        \* history: why, since the last request, the icons may
                         \* be out of date

navigation == <<current, back, forward, accels>>
asked == <<loads, load_token, busy, buttons, excuses>>
vars == <<navigation, asked, show_hidden, shown, dialog>>

Operations == {"create", "delete", "deleting", "shred", "rename", "compress",
               "encrypt", "name archive", "decrypt", "report"}
NoDialog == [op |-> "none", dir |-> NoDir]

(* A modal dialog takes the keys and the pointer from the window. *)
Free == dialog = NoDialog

CanUp(d) == d # NoDir /\ Parent[d] # NoDir

(* What update_nav_buttons enables, given the folder and the two stacks. *)
Possible(d, b, f) == (IF b # <<>> THEN {"back"} ELSE {})
                     \cup (IF f # <<>> THEN {"forward"} ELSE {})
                     \cup (IF CanUp(d) THEN {"up"} ELSE {})

Load(n, d, push, hidden, step) ==
  [token |-> n, dir |-> d, push |-> push, hidden |-> hidden, upToDate |-> TRUE,
   step |-> step]        \* history: was it Back or Forward that asked for it?

Init == /\ current = NoDir
        /\ show_hidden = FALSE
        /\ shown = [token |-> 0, dir |-> NoDir, hidden |-> FALSE, upToDate |-> TRUE]
        /\ loads = {Load(1, Home, TRUE, FALSE, FALSE)}
        /\ load_token = 1
        /\ back = <<>> /\ forward = <<>>
        /\ buttons = {} /\ accels = {}
        /\ busy = FALSE        \* the window is not there to set it on
        /\ dialog = NoDialog
        /\ excuses = {}

--------------------------------------------------------------------------------
(* Asking for a listing: load_directory_async up to its first yield.  ls are  *)
(* the listings under way, as the caller leaves them.                         *)

Begin(ls, d, push, step) ==
  /\ load_token < MaxLoads
  /\ load_token' = load_token + 1
  /\ loads' = ls \cup {Load(load_token + 1, d, push, show_hidden', step)}
  /\ busy' = TRUE
  /\ buttons' = {}
  /\ excuses' = {}

(* on_reload_clicked and reload_current_dir_only: nothing happens until a     *)
(* folder has been shown.                                                     *)
Reload(ls) == IF current = NoDir
              THEN /\ loads' = ls /\ UNCHANGED <<load_token, busy, buttons>>
                   /\ excuses' = excuses \cup {"early"}
              ELSE Begin(ls, current, FALSE, FALSE)

(* From the path entry, a row of the sidebar or an icon. *)
NavigateTo(d) ==
  /\ Free
  /\ UNCHANGED <<navigation, show_hidden, shown, dialog>>
  /\ Begin(loads, d, TRUE, FALSE)

NavigateHome == NavigateTo(Home)

NavigateUp == /\ "up" \in buttons \cup accels
              /\ CanUp(current)
              /\ NavigateTo(Parent[current])

Push(stack) == IF current = NoDir THEN stack ELSE Append(stack, current)

(* Mutant: the folder that is left is not put on the forward stack. *)
GoBackOneWay ==
  /\ Free
  /\ "back" \in buttons \cup accels
  /\ back # <<>>
  /\ back' = Front(back)
  /\ UNCHANGED <<forward, current, accels, show_hidden, shown, dialog>>
  /\ Begin(loads, Last(back), FALSE, TRUE)

(* on_back_clicked: the stacks change at once, the folder when it is read. *)
GoBack ==
  /\ Free
  /\ "back" \in buttons \cup accels
  /\ back # <<>>
  /\ back' = Front(back)
  /\ forward' = Push(forward)
  /\ UNCHANGED <<current, accels, show_hidden, shown, dialog>>
  /\ Begin(loads, Last(back), FALSE, TRUE)

GoForward ==
  /\ Free
  /\ "forward" \in buttons \cup accels
  /\ forward # <<>>
  /\ forward' = Front(forward)
  /\ back' = Push(back)
  /\ UNCHANGED <<current, accels, show_hidden, shown, dialog>>
  /\ Begin(loads, Last(forward), FALSE, TRUE)

PressReload ==
  /\ Free
  /\ current # NoDir
  /\ UNCHANGED <<navigation, show_hidden, shown, dialog>>
  /\ Reload(loads)

(* The toggle button, its key, and the preferences. *)
ToggleHidden ==
  /\ Free
  /\ show_hidden' = ~ show_hidden
  /\ UNCHANGED <<navigation, shown, dialog>>
  /\ Reload(loads)

--------------------------------------------------------------------------------
(* The rest of load_directory_async, when the listing is read or has failed.  *)
(* The error dialog is open while the request is still the newest and the     *)
(* window takes no other, so failing is one step.                             *)

Newest(l) == l.token = load_token

(* A request that was overtaken takes the watch away, whoever put it there. *)
Overtaken(l) ==
  /\ ~ Newest(l)
  /\ loads' = loads \ {l}
  /\ busy' = FALSE
  /\ UNCHANGED <<navigation, load_token, buttons, show_hidden, shown, dialog, excuses>>

(* Mutant: the error path does not enable the actions again. *)
FailedKeepsButtons(l) ==
  /\ Newest(l)
  /\ loads' = loads \ {l}
  /\ busy' = FALSE
  /\ excuses' = excuses \cup {"failed"}
  /\ UNCHANGED <<navigation, load_token, buttons, show_hidden, shown, dialog>>

(* The folder could not be read: it is not shown, but what Back or Forward    *)
(* did to the stacks stays, and so do the keys that are enabled.              *)
Failed(l) ==
  /\ Newest(l)
  /\ loads' = loads \ {l}
  /\ busy' = FALSE
  /\ buttons' = Possible(current, back, forward) \cup {"home", "reload"}
  /\ excuses' = excuses \cup {"failed"}
  /\ UNCHANGED <<navigation, load_token, show_hidden, shown, dialog>>

(* Mutant: there is a folder to go back to even before the first. *)
LeavesAnything(l) == l.push /\ current # l.dir

(* Is there a folder to go back to once this listing is shown? *)
Leaves(l) == l.push /\ current \notin {NoDir, l.dir}

(* What a listing that is shown does to the window. *)
Show(l) ==
  /\ loads' = loads \ {l}
  /\ busy' = FALSE
  /\ IF Leaves(l)
     THEN back' = Append(back, current) /\ forward' = <<>>
     ELSE UNCHANGED <<back, forward>>
  /\ current' = l.dir
  /\ shown' = [token |-> l.token, dir |-> l.dir, hidden |-> l.hidden,
               upToDate |-> l.upToDate]
  /\ accels' = Possible(l.dir, back', forward')
  /\ buttons' = accels' \cup {"home", "reload"}
  /\ UNCHANGED <<load_token, show_hidden, dialog, excuses>>

(* Mutant: the answer is taken without asking whether it is still wanted. *)
ArrivedAnyway(l) == Show(l)

Arrived(l) == Newest(l) /\ Show(l)

--------------------------------------------------------------------------------
(* File operations.  A change to the folders D is missing from the icons and  *)
(* may be missing from the listing under way, which may have read past it     *)
(* already.  (Of those overtaken this is not kept: NewestShown says that they *)
(* are never shown.)                                                          *)

Changed(D) ==
  /\ shown' = IF shown.dir \in D THEN [shown EXCEPT !.upToDate = FALSE] ELSE shown
  /\ UNCHANGED <<navigation, show_hidden>>

Marked(D) == {loads} \cup {(loads \ {l}) \cup {[l EXCEPT !.upToDate = FALSE]} :
                             l \in {n \in loads : Newest(n) /\ n.dir \in D}}

(* Done, and the folder is read again. *)
DoneAndReload(D) ==
  /\ Changed(D)
  /\ dialog' = NoDialog
  /\ \E ls \in Marked(D) : Reload(ls)

(* Done in part: the dialog that says so comes before the reload. *)
DoneWithReport(D) ==
  /\ load_token < MaxLoads
  /\ Changed(D)
  /\ dialog' = [op |-> "report", dir |-> NoDir]
  /\ loads' \in Marked(D)
  /\ UNCHANGED <<load_token, busy, buttons, excuses>>

(* Given up after a change, with no reload: nothing was said or an error was. *)
Abandoned(D) ==
  /\ Changed(D)
  /\ dialog' = NoDialog
  /\ loads' \in Marked(D)
  /\ excuses' = excuses \cup {"abandoned"}
  /\ UNCHANGED <<load_token, busy, buttons>>

Open(op, d) == /\ dialog' = [op |-> op, dir |-> d]
               /\ UNCHANGED <<navigation, asked, show_hidden, shown>>

Asking(op) == dialog.op = op

(* An operation that asks first: about the icons selected, whose folder is    *)
(* the one shown, or for the name of something new.                           *)
Ask(op) == Free /\ current # NoDir /\ Open(op, shown.dir)

(* Cancelled, refused, or failed before anything was changed. *)
Cancel == /\ dialog.op \notin {"none", "deleting", "report"}
          /\ dialog' = NoDialog
          /\ UNCHANGED <<navigation, asked, show_hidden, shown>>

CloseReport == /\ Asking("report")
               /\ dialog' = NoDialog
               /\ UNCHANGED <<navigation, show_hidden, shown>>
               /\ Reload(loads)

(* create_new_file, create_new_folder: in the folder shown by then. *)
Create == Asking("create") /\ DoneAndReload({current})

(* delete_selected, one item after another; each that cannot be trashed asks  *)
(* again, and an answer of no, or a failure, ends it without a reload.        *)
DeleteOne == /\ dialog.op \in {"delete", "deleting"}
             /\ Changed({dialog.dir})
             /\ dialog' = [dialog EXCEPT !.op = "deleting"]
             /\ loads' \in Marked({dialog.dir})
             /\ UNCHANGED <<load_token, busy, buttons, excuses>>

DeleteDone == Asking("deleting") /\ DoneAndReload({})

DeleteStopped == Asking("deleting") /\ Abandoned({})

Shred == /\ Asking("shred")
         /\ DoneAndReload({dialog.dir}) \/ DoneWithReport({dialog.dir})

(* Mutant: the renamed icon is left to the next listing. *)
RenameNoReload == /\ Asking("rename")
                  /\ Changed({dialog.dir})
                  /\ dialog' = NoDialog
                  /\ loads' \in Marked({dialog.dir})
                  /\ UNCHANGED <<load_token, busy, buttons, excuses>>

Rename == Asking("rename") /\ DoneAndReload({dialog.dir})

(* Whatever program makes or unpacks an archive may fail with half of it      *)
(* written; only decompress and decrypt reload even then.                     *)
Archived(D) == DoneAndReload(D) \/ Abandoned(D)

(* One file or folder at once; several after a name for the archive is given, *)
(* if they are in the folder shown by then.                                   *)
Compress == \/ Free /\ current # NoDir /\ Archived({shown.dir})
            \/ Asking("compress") /\ dialog.dir = current /\ Archived({current})

Decompress == /\ Free /\ current # NoDir
              /\ DoneAndReload({shown.dir}) \/ DoneWithReport({shown.dir})

(* The password is asked first.  One item must be selected still; for several *)
(* the archive goes to the folder shown before its name is asked for.         *)
Encrypt == \/ Asking("encrypt") /\ shown.dir = dialog.dir /\ Archived({dialog.dir})
           \/ Asking("encrypt") /\ Open("name archive", current)
           \/ Asking("name archive") /\ Archived({dialog.dir})

Decrypt == /\ Asking("decrypt")
           /\ DoneAndReload({dialog.dir}) \/ DoneWithReport({dialog.dir})

(* Files dropped on an icon or a row of the sidebar, from wherever they are;  *)
(* those that are there already are passed over.                              *)
Drop == \E source, dest \in Dirs :
          LET changed == IF source = dest THEN {} ELSE {source, dest} IN
          /\ Free
          /\ DoneAndReload(changed) \/ DoneWithReport(changed)

Next == \/ \E d \in Dirs : NavigateTo(d)
        \/ NavigateHome \/ NavigateUp \/ GoBack \/ GoForward \/ PressReload
        \/ ToggleHidden
        \/ \E l \in loads : Overtaken(l) \/ Failed(l) \/ Arrived(l)
        \/ \E op \in {"create", "delete", "shred", "rename", "compress", "encrypt",
                      "decrypt"} : Ask(op)
        \/ Cancel \/ CloseReport
        \/ Create \/ DeleteOne \/ DeleteDone \/ DeleteStopped \/ Shred \/ Rename
        \/ Compress \/ Decompress \/ Encrypt \/ Decrypt \/ Drop

Spec == Init /\ [][Next]_vars

--------------------------------------------------------------------------------
TypeOK ==
  /\ current \in Dirs \cup {NoDir}
  /\ show_hidden \in BOOLEAN /\ busy \in BOOLEAN
  /\ load_token \in 1..MaxLoads
  /\ shown \in [token : 0..load_token, dir : Dirs \cup {NoDir}, hidden : BOOLEAN,
                upToDate : BOOLEAN]
  /\ loads \subseteq [token : 1..load_token, dir : Dirs, push : BOOLEAN,
                      hidden : BOOLEAN, upToDate : BOOLEAN, step : BOOLEAN]
  /\ back \in Seq(Dirs) /\ forward \in Seq(Dirs)
  /\ buttons \subseteq {"back", "forward", "up", "home", "reload"}
  /\ accels \subseteq {"back", "forward", "up"}
  /\ dialog \in [op : Operations, dir : Dirs \cup {NoDir}] \cup {NoDialog}
  /\ excuses \subseteq {"early", "failed", "abandoned"}

(* The folder shown only ever changes to the one asked for last, with its own *)
(* listing: an answer that comes late is dropped (the tests of the token and  *)
(* of the cancellable after the yield).                                       *)
NewestShown ==
  [][shown'.token # shown.token \/ current' # current
     => /\ shown'.token = load_token /\ shown.token < load_token
        /\ current' = shown'.dir]_vars

(* When nothing is being read the watch is gone and the toolbar offers what   *)
(* can be done: no order of requests, answers and failures leaves the         *)
(* buttons disabled or promising a history that is not there.                 *)
IdleToolbarTrue ==
  loads = {} => /\ ~ busy
                /\ buttons = Possible(current, back, forward) \cup {"home", "reload"}

(* With nothing under way the icons have every change made here and follow    *)
(* the choice on hidden files, unless, since the last request, its listing    *)
(* failed, an operation was given up half-way, or a choice was made before    *)
(* any folder was shown (the reload at the end of each operation).            *)
IconsFollow ==
  loads = {} /\ Free /\ ~ (shown.upToDate /\ shown.hidden = show_hidden) => excuses # {}

(* Back or Forward, while the folder it is for is being read.                 *)
Steps == {l \in loads : Newest(l) /\ l.step}

(* The folders on the way: those behind, the one here, and those ahead.       *)
Way(here) == back \o (IF here = NoDir THEN <<>> ELSE <<here>>) \o Reverse(forward)

Trail == Way(IF Steps = {} THEN current ELSE (CHOOSE l \in Steps : TRUE).dir)

(* Going back and forward loses no folder, and a folder newly gone to         *)
(* replaces those ahead.  Only a Back or Forward that fails or is overtaken   *)
(* by another request loses a folder, and only that which it was for: the one *)
(* shown is in its place.                                                     *)
TrailKept ==
  [][\/ Trail' = Trail
     \/ Steps # {} /\ current' = current /\ Trail' = Way(current)
     \/ Trail' = Append(Push(back), current')]_vars
================================================================================
