----------------------- MODULE ExplorerNavigationProofs -----------------------
(****************************************************************************)
(* Proofs about the file manager's navigation for every tree of folders and *)
(* every number of requests: the types, that a listing is only shown while  *)
(* it is the newest asked for, and what the toolbar and the icons show once  *)
(* nothing is being read.                                                   *)
(****************************************************************************)
EXTENDS ExplorerNavigation, SequenceTheorems, TLAPS

Listing == [token : 1..MaxLoads, dir : Dirs, push : BOOLEAN, hidden : BOOLEAN,
            upToDate : BOOLEAN, step : BOOLEAN]
Picture == [token : 0..MaxLoads, dir : Dirs \cup {NoDir}, hidden : BOOLEAN,
            upToDate : BOOLEAN]

(* TypeOK, with the bounds on the tokens stated apart. *)
Types ==
  /\ current \in Dirs \cup {NoDir}
  /\ show_hidden \in BOOLEAN /\ busy \in BOOLEAN
  /\ load_token \in 1..MaxLoads
  /\ shown \in Picture
  /\ loads \subseteq Listing
  /\ back \in Seq(Dirs) /\ forward \in Seq(Dirs)
  /\ buttons \subseteq {"back", "forward", "up", "home", "reload"}
  /\ accels \subseteq {"back", "forward", "up"}
  /\ dialog \in [op : Operations, dir : Dirs \cup {NoDir}] \cup {NoDialog}
  /\ excuses \subseteq {"early", "failed", "abandoned"}

(* No token of ls is ahead of n, and at most one of them is n. *)
Ordered(ls, n) == /\ \A l \in ls : l.token <= n
                  /\ \A l, k \in ls : l.token = n /\ k.token = n => l = k

(* The newest request, while it is being read, is newer than what is shown.   *)
Tokens == /\ shown.token <= load_token
          /\ Ordered(loads, load_token)
          /\ \A l \in loads : Newest(l) => shown.token < load_token

IInv == Types /\ Tokens

--------------------------------------------------------------------------------
(* Asking for a listing, whatever was marked on those under way. *)
LEMMA BeginKeeps ==
  ASSUME IInv, NEW ls \in SUBSET Listing, NEW d \in Dirs, NEW push \in BOOLEAN,
         NEW step \in BOOLEAN, show_hidden' \in BOOLEAN,
         Ordered(ls, load_token), Begin(ls, d, push, step)
  PROVE  /\ load_token' \in 1..MaxLoads /\ load_token' = load_token + 1
         /\ loads' \subseteq Listing /\ busy' \in BOOLEAN /\ buttons' = {}
         /\ excuses' = {}
         /\ Ordered(loads', load_token')
<1> DEFINE new == Load(load_token + 1, d, push, show_hidden', step)
<1>1. load_token \in 1..MaxLoads /\ MaxLoads \in Nat /\ load_token < MaxLoads
  BY BoundAssumption DEF IInv, Types, Begin
<1>2. new \in Listing /\ new.token = load_token + 1
  BY <1>1 DEF Load, Listing
<1>3. loads' = ls \cup {new} /\ load_token' = load_token + 1
  BY DEF Begin
<1>4. load_token' \in 1..MaxLoads /\ load_token < load_token'
  BY <1>1, <1>3
<1>5. \A l \in ls : l.token \in Int
  BY DEF Listing
<1> HIDE DEF new
<1>6. Ordered(loads', load_token')
  <2>1. \A l \in loads' : l.token <= load_token'
    BY <1>1, <1>2, <1>3, <1>5 DEF Ordered
  <2>2. \A l \in ls : l.token # load_token'
    BY <1>1, <1>3, <1>5 DEF Ordered
  <2> QED BY <1>3, <2>1, <2>2 DEF Ordered
<1> QED BY <1>2, <1>3, <1>4, <1>6 DEF Begin

(* The same for a reload, which asks for nothing before a folder is shown.    *)
LEMMA ReloadKeeps ==
  ASSUME IInv, NEW ls \in SUBSET Listing, show_hidden' \in BOOLEAN,
         Ordered(ls, load_token),
         \A l \in ls : Newest(l) => shown.token < load_token, Reload(ls)
  PROVE  /\ load_token' \in 1..MaxLoads /\ load_token <= load_token'
         /\ loads' \subseteq Listing /\ busy' \in BOOLEAN
         /\ buttons' \subseteq {"back", "forward", "up", "home", "reload"}
         /\ excuses' \subseteq {"early", "failed", "abandoned"}
         /\ Ordered(loads', load_token')
         /\ \A l \in loads' : l.token = load_token' => shown.token < load_token'
<1>1. CASE current = NoDir
  <2>1. /\ loads' = ls /\ load_token' = load_token /\ busy' = busy
        /\ buttons' = buttons /\ excuses' = excuses \cup {"early"}
    BY <1>1 DEF Reload
  <2>2. load_token \in 1..MaxLoads /\ load_token <= load_token
    BY BoundAssumption DEF IInv, Types
  <2>3. \A l \in ls : l.token = load_token => shown.token < load_token
    BY DEF Newest
  <2>4. /\ busy \in BOOLEAN
        /\ buttons \subseteq {"back", "forward", "up", "home", "reload"}
        /\ excuses \subseteq {"early", "failed", "abandoned"}
    BY DEF IInv, Types
  <2> QED BY <2>1, <2>2, <2>3, <2>4
<1>2. CASE current # NoDir
  <2>1. current \in Dirs /\ Begin(ls, current, FALSE, FALSE)
    BY <1>2 DEF Reload, IInv, Types
  <2>2. shown.token \in Int /\ load_token \in Int /\ shown.token <= load_token
    BY BoundAssumption DEF IInv, Types, Tokens, Picture
  <2>3. load_token' = load_token + 1
    BY <2>1 DEF Begin
  <2>4. /\ load_token' \in 1..MaxLoads
        /\ loads' \subseteq Listing /\ busy' \in BOOLEAN /\ buttons' = {}
        /\ excuses' = {}
        /\ Ordered(loads', load_token')
    BY <2>1, BeginKeeps
  <2>5. shown.token < load_token' /\ load_token <= load_token'
    BY <2>2, <2>3
  <2> QED BY <2>4, <2>5
<1> QED BY <1>1, <1>2

(* A change leaves the icons with the token and the folder they had.          *)
LEMMA ChangedKeeps ==
  ASSUME IInv, NEW D, Changed(D)
  PROVE  /\ shown' \in Picture /\ shown'.token = shown.token
         /\ UNCHANGED <<current, back, forward, accels, show_hidden>>
BY DEF Changed, IInv, Types, Picture, navigation

(* Marking a listing leaves all of them with the tokens they had.             *)
LEMMA MarkedKeeps ==
  ASSUME IInv, NEW D, NEW ls \in Marked(D)
  PROVE  /\ ls \in SUBSET Listing
         /\ Ordered(ls, load_token)
         /\ \A l \in ls : Newest(l) => shown.token < load_token
<1>1. CASE ls = loads
  BY <1>1 DEF IInv, Types, Tokens
<1>2. CASE \E l \in loads : /\ Newest(l)
                            /\ ls = (loads \ {l}) \cup {[l EXCEPT !.upToDate = FALSE]}
  <2>1. PICK l \in loads : /\ Newest(l)
                           /\ ls = (loads \ {l}) \cup {[l EXCEPT !.upToDate = FALSE]}
    BY <1>2
  <2>2. l \in Listing
    BY DEF IInv, Types
  <2>3. /\ [l EXCEPT !.upToDate = FALSE] \in Listing
        /\ [l EXCEPT !.upToDate = FALSE].token = l.token
    BY <2>2 DEF Listing
  <2>4. ls \in SUBSET Listing
    BY <2>1, <2>3 DEF IInv, Types
  <2>5. /\ l.token = load_token /\ shown.token < load_token
        /\ \A k \in loads \ {l} : k.token # load_token
    BY <2>1 DEF IInv, Tokens, Newest, Ordered
  <2>6. Ordered(ls, load_token)
    BY <2>1, <2>3, <2>5 DEF IInv, Tokens, Ordered
  <2> QED BY <2>4, <2>5, <2>6
<1> QED BY <1>1, <1>2 DEF Marked

--------------------------------------------------------------------------------
LEMMA InitKeeps == Init => IInv
<1> SUFFICES ASSUME Init PROVE IInv
  OBVIOUS
<1> DEFINE first == Load(1, Home, TRUE, FALSE, FALSE)
<1>1. first \in Listing /\ first.token = 1
  BY HomeAssumption, BoundAssumption DEF Load, Listing
<1>2. shown \in Picture /\ shown.token = 0
  BY BoundAssumption DEF Picture, Init
<1>3. loads = {first} /\ load_token = 1 /\ 1 \in 1..MaxLoads
  BY BoundAssumption DEF Init
<1> HIDE DEF first
<1>4. /\ current = NoDir /\ show_hidden = FALSE /\ busy = FALSE
      /\ back = <<>> /\ forward = <<>> /\ dialog = NoDialog
      /\ buttons = {} /\ accels = {} /\ excuses = {}
  BY Zenon DEF Init
<1>5. show_hidden \in BOOLEAN /\ busy \in BOOLEAN
  BY <1>4, Zenon
<1>6. current \in Dirs \cup {NoDir} /\ loads \subseteq Listing
  BY <1>1, <1>3, <1>4
<1>7. back \in Seq(Dirs) /\ forward \in Seq(Dirs)
  BY <1>4
<1>8. dialog \in [op : Operations, dir : Dirs \cup {NoDir}] \cup {NoDialog}
  BY <1>4, Zenon
<1>9. Types
  BY <1>2, <1>3, <1>4, <1>5, <1>6, <1>7, <1>8 DEF Types
<1>10. Ordered(loads, 1)
  BY <1>1, <1>3 DEF Ordered
<1>11. Tokens
  BY <1>2, <1>3, <1>10 DEF Tokens
<1> QED BY <1>9, <1>11 DEF IInv

(* A step that leaves the requests alone.                                     *)
LEMMA StillTokens ==
  ASSUME IInv, shown'.token = shown.token, load_token' = load_token,
         \/ loads' \subseteq loads
         \/ \E D \in SUBSET Dirs : loads' \in Marked(D)
  PROVE  loads' \subseteq Listing /\ Tokens'
<1>1. CASE loads' \subseteq loads
  BY <1>1 DEF IInv, Types, Tokens, Newest, Ordered
<1>2. CASE \E D \in SUBSET Dirs : loads' \in Marked(D)
  <2>1. PICK D \in SUBSET Dirs : loads' \in Marked(D)
    BY <1>2
  <2>2. /\ loads' \in SUBSET Listing
        /\ Ordered(loads', load_token)
        /\ \A l \in loads' : Newest(l) => shown.token < load_token
    BY <2>1, MarkedKeeps
  <2> QED BY <2>2 DEF IInv, Tokens, Newest
<1> QED BY <1>1, <1>2

(* The operations that begin no request.                                      *)
LEMMA OpenKeeps ==
  ASSUME IInv, NEW op \in Operations, NEW d \in Dirs \cup {NoDir}, Open(op, d)
  PROVE  IInv'
<1>1. Types'
  BY DEF Open, IInv, Types, navigation, asked
<1>2. Tokens'
  BY DEF Open, IInv, Tokens, Newest, navigation, asked
<1> QED BY <1>1, <1>2 DEF IInv

LEMMA DoneAndReloadKeeps ==
  ASSUME IInv, NEW D, DoneAndReload(D)
  PROVE  IInv'
<1>1. /\ shown' \in Picture /\ shown'.token = shown.token
      /\ UNCHANGED <<current, back, forward, accels, show_hidden>>
  BY ChangedKeeps DEF DoneAndReload
<1>2. PICK ls \in Marked(D) : Reload(ls)
  BY DEF DoneAndReload
<1>3. /\ ls \in SUBSET Listing
      /\ Ordered(ls, load_token)
      /\ \A l \in ls : Newest(l) => shown.token < load_token
  BY MarkedKeeps
<1>4. show_hidden' \in BOOLEAN
  BY <1>1 DEF IInv, Types
<1>5. /\ load_token' \in 1..MaxLoads /\ load_token <= load_token'
      /\ loads' \subseteq Listing /\ busy' \in BOOLEAN
      /\ buttons' \subseteq {"back", "forward", "up", "home", "reload"}
      /\ excuses' \subseteq {"early", "failed", "abandoned"}
      /\ Ordered(loads', load_token')
      /\ \A l \in loads' : l.token = load_token' => shown.token < load_token'
  BY <1>2, <1>3, <1>4, ReloadKeeps
<1>6. Types'
  BY <1>1, <1>4, <1>5 DEF IInv, Types, DoneAndReload
<1>7. shown.token <= load_token /\ shown.token \in Int /\ load_token \in Int
      /\ load_token' \in Int
  BY <1>5, BoundAssumption DEF IInv, Types, Tokens, Picture
<1>8. Tokens'
  BY <1>1, <1>5, <1>7 DEF Tokens, Newest
<1> QED BY <1>6, <1>8 DEF IInv

(* DoneWithReport, Abandoned, and the deletion of one item: a change, and no  *)
(* request yet.                                                               *)
LEMMA ChangeOnlyKeeps ==
  ASSUME IInv, NEW D, Changed(D), loads' \in Marked(D),
         UNCHANGED <<load_token, busy, buttons>>,
         dialog' \in [op : Operations, dir : Dirs \cup {NoDir}] \cup {NoDialog},
         excuses' \subseteq {"early", "failed", "abandoned"}
  PROVE  IInv'
<1>1. /\ shown' \in Picture /\ shown'.token = shown.token
      /\ UNCHANGED <<current, back, forward, accels, show_hidden>>
  BY ChangedKeeps
<1>2. /\ loads' \in SUBSET Listing
      /\ Ordered(loads', load_token)
      /\ \A l \in loads' : Newest(l) => shown.token < load_token
  BY MarkedKeeps
<1>3. Types'
  BY <1>1, <1>2 DEF IInv, Types
<1>4. Tokens'
  BY <1>1, <1>2 DEF IInv, Tokens, Newest
<1> QED BY <1>3, <1>4 DEF IInv

LEMMA ReportKeeps ==
  ASSUME IInv, NEW D, DoneWithReport(D)
  PROVE  IInv'
<1>1. dialog' \in [op : Operations, dir : Dirs \cup {NoDir}]
  BY DEF DoneWithReport, Operations
<1>2. excuses' \subseteq {"early", "failed", "abandoned"}
  BY DEF DoneWithReport, IInv, Types
<1> QED BY <1>1, <1>2, ChangeOnlyKeeps DEF DoneWithReport

LEMMA AbandonedKeeps ==
  ASSUME IInv, NEW D, Abandoned(D)
  PROVE  IInv'
<1>1. excuses' \subseteq {"early", "failed", "abandoned"}
  BY DEF Abandoned, IInv, Types
<1> QED BY <1>1, ChangeOnlyKeeps DEF Abandoned

(* A request for a folder, made while nothing else changes but the stacks.    *)
LEMMA RequestKeeps ==
  ASSUME IInv, NEW d \in Dirs, NEW push \in BOOLEAN, NEW step \in BOOLEAN,
         Begin(loads, d, push, step), back' \in Seq(Dirs), forward' \in Seq(Dirs),
         UNCHANGED <<current, accels, show_hidden, shown, dialog>>
  PROVE  IInv'
<1>1. show_hidden' \in BOOLEAN /\ loads \in SUBSET Listing
      /\ Ordered(loads, load_token)
  BY DEF IInv, Types, Tokens
<1>2. /\ load_token' \in 1..MaxLoads /\ load_token' = load_token + 1
      /\ loads' \subseteq Listing /\ busy' \in BOOLEAN /\ buttons' = {}
      /\ excuses' = {}
      /\ Ordered(loads', load_token')
  BY <1>1, BeginKeeps
<1>3. shown.token \in Int /\ load_token \in Int /\ shown.token <= load_token
  BY BoundAssumption DEF IInv, Types, Tokens, Picture
<1>4. Types'
  BY <1>2 DEF IInv, Types
<1>5. shown'.token < load_token'
  BY <1>2, <1>3
<1>6. Tokens'
  BY <1>2, <1>3, <1>5 DEF Tokens, Newest
<1> QED BY <1>4, <1>6 DEF IInv

(* A reload with no change but that of show_hidden and the dialog.            *)
LEMMA PlainReloadKeeps ==
  ASSUME IInv, Reload(loads), show_hidden' \in BOOLEAN,
         dialog' \in [op : Operations, dir : Dirs \cup {NoDir}] \cup {NoDialog},
         UNCHANGED <<navigation, shown>>
  PROVE  IInv'
<1>1. /\ loads \in SUBSET Listing
      /\ Ordered(loads, load_token)
      /\ \A l \in loads : Newest(l) => shown.token < load_token
  BY DEF IInv, Types, Tokens
<1>2. /\ load_token' \in 1..MaxLoads /\ load_token <= load_token'
      /\ loads' \subseteq Listing /\ busy' \in BOOLEAN
      /\ buttons' \subseteq {"back", "forward", "up", "home", "reload"}
      /\ excuses' \subseteq {"early", "failed", "abandoned"}
      /\ Ordered(loads', load_token')
      /\ \A l \in loads' : l.token = load_token' => shown.token < load_token'
  BY <1>1, ReloadKeeps
<1>3. shown.token <= load_token /\ shown.token \in Int /\ load_token \in Int
      /\ load_token' \in Int
  BY <1>2, BoundAssumption DEF IInv, Types, Tokens, Picture
<1>4. Types'
  BY <1>2 DEF IInv, Types, navigation
<1>5. Tokens'
  BY <1>2, <1>3 DEF Tokens, Newest
<1> QED BY <1>4, <1>5 DEF IInv

--------------------------------------------------------------------------------
(* The stacks.                                                                *)
LEMMA PushIsStack ==
  ASSUME IInv, NEW s \in Seq(Dirs) PROVE Push(s) \in Seq(Dirs)
BY DEF IInv, Types, Push

LEMMA TopOfStack ==
  ASSUME NEW s \in Seq(Dirs), s # <<>>
  PROVE  Front(s) \in Seq(Dirs) /\ Last(s) \in Dirs
BY DEF Front, Last

LEMMA NavigateKeeps ==
  ASSUME IInv, NEW d \in Dirs, NavigateTo(d) PROVE IInv'
<1>1. back' \in Seq(Dirs) /\ forward' \in Seq(Dirs)
  BY DEF NavigateTo, navigation, IInv, Types
<1> QED BY <1>1, RequestKeeps DEF NavigateTo, navigation

LEMMA NavigateUpKeeps == ASSUME IInv, NavigateUp PROVE IInv'
<1>1. current \in Dirs /\ Parent[current] \in Dirs
  BY ParentAssumption DEF NavigateUp, CanUp, IInv, Types
<1> QED BY <1>1, NavigateKeeps DEF NavigateUp

LEMMA GoBackKeeps == ASSUME IInv, GoBack PROVE IInv'
<1>1. back \in Seq(Dirs) /\ forward \in Seq(Dirs)
  BY DEF IInv, Types
<1>2. Front(back) \in Seq(Dirs) /\ Last(back) \in Dirs /\ Push(forward) \in Seq(Dirs)
  BY <1>1, TopOfStack, PushIsStack DEF GoBack
<1> QED BY <1>2, RequestKeeps DEF GoBack

LEMMA GoForwardKeeps == ASSUME IInv, GoForward PROVE IInv'
<1>1. back \in Seq(Dirs) /\ forward \in Seq(Dirs)
  BY DEF IInv, Types
<1>2. Front(forward) \in Seq(Dirs) /\ Last(forward) \in Dirs /\ Push(back) \in Seq(Dirs)
  BY <1>1, TopOfStack, PushIsStack DEF GoForward
<1> QED BY <1>2, RequestKeeps DEF GoForward

LEMMA ToggleHiddenKeeps == ASSUME IInv, ToggleHidden PROVE IInv'
<1>1. show_hidden' \in BOOLEAN
  BY DEF ToggleHidden
<1>2. dialog' \in [op : Operations, dir : Dirs \cup {NoDir}] \cup {NoDialog}
  BY DEF ToggleHidden, IInv, Types
<1> QED BY <1>1, <1>2, PlainReloadKeeps DEF ToggleHidden

LEMMA PressReloadKeeps == ASSUME IInv, PressReload PROVE IInv'
<1>1. show_hidden' \in BOOLEAN
      /\ dialog' \in [op : Operations, dir : Dirs \cup {NoDir}] \cup {NoDialog}
  BY DEF PressReload, IInv, Types
<1> QED BY <1>1, PlainReloadKeeps DEF PressReload

LEMMA CloseReportKeeps == ASSUME IInv, CloseReport PROVE IInv'
<1>1. show_hidden' \in BOOLEAN
  BY DEF CloseReport, IInv, Types
<1> QED BY <1>1, PlainReloadKeeps DEF CloseReport

--------------------------------------------------------------------------------
(* A listing that ends, one way or another.                                   *)
LEMMA PossibleButtons ==
  ASSUME NEW d, NEW b, NEW f
  PROVE  Possible(d, b, f) \subseteq {"back", "forward", "up"}
BY DEF Possible

LEMMA OvertakenKeeps ==
  ASSUME IInv, NEW l \in loads, Overtaken(l) PROVE IInv'
<1>1. loads' \subseteq Listing /\ Tokens'
  BY StillTokens DEF Overtaken
<1>2. Types'
  BY <1>1 DEF Overtaken, IInv, Types, navigation
<1> QED BY <1>1, <1>2 DEF IInv

LEMMA FailedKeeps ==
  ASSUME IInv, NEW l \in loads, Failed(l) PROVE IInv'
<1>1. loads' \subseteq Listing /\ Tokens'
  BY StillTokens DEF Failed
<1>2. buttons' \subseteq {"back", "forward", "up", "home", "reload"}
  BY PossibleButtons DEF Failed
<1>3. excuses' \subseteq {"early", "failed", "abandoned"}
  BY DEF Failed, IInv, Types
<1>4. Types'
  BY <1>1, <1>2, <1>3 DEF Failed, IInv, Types, navigation
<1> QED BY <1>1, <1>4 DEF IInv

LEMMA ArrivedTypes ==
  ASSUME IInv, NEW l \in loads, Arrived(l) PROVE Types'
<1>1. l \in Listing /\ current \in Dirs \cup {NoDir}
      /\ back \in Seq(Dirs) /\ forward \in Seq(Dirs)
  BY DEF IInv, Types
<1>2. back' \in Seq(Dirs) /\ forward' \in Seq(Dirs)
  <2>1. CASE Leaves(l)
    BY <1>1, <2>1 DEF Arrived, Show, Leaves
  <2>2. CASE ~ Leaves(l)
    BY <1>1, <2>2 DEF Arrived, Show
  <2> QED BY <2>1, <2>2
<1>3. shown' \in Picture /\ current' \in Dirs
  BY <1>1, BoundAssumption DEF Arrived, Show, Listing, Picture
<1>4. /\ accels' \subseteq {"back", "forward", "up"}
      /\ buttons' \subseteq {"back", "forward", "up", "home", "reload"}
  BY PossibleButtons DEF Arrived, Show
<1>5. /\ loads' \subseteq Listing /\ busy' = FALSE
      /\ UNCHANGED <<load_token, show_hidden, dialog, excuses>>
  BY DEF Arrived, Show, IInv, Types
<1> QED BY <1>2, <1>3, <1>4, <1>5 DEF IInv, Types

(* The newest was the only one with its token: of the rest none is newest.    *)
LEMMA ArrivedKeeps ==
  ASSUME IInv, NEW l \in loads, Arrived(l) PROVE IInv'
<1>1. l \in Listing
  BY DEF IInv, Types
<1>2. /\ loads' = loads \ {l} /\ load_token' = load_token
      /\ shown'.token = load_token
  BY <1>1 DEF Arrived, Show, Newest, Listing
<1>3. \A k \in loads' : k.token # load_token
  BY <1>2 DEF Arrived, Newest, IInv, Tokens, Ordered
<1>4. load_token \in Int
  BY BoundAssumption DEF IInv, Types
<1>5. Ordered(loads', load_token')
  BY <1>2 DEF IInv, Tokens, Ordered
<1>6. Tokens'
  BY <1>2, <1>3, <1>4, <1>5 DEF Tokens, Newest
<1> QED BY <1>6, ArrivedTypes DEF IInv

--------------------------------------------------------------------------------
(* The operations on files.                                                   *)
Operation == \/ \E op \in {"create", "delete", "shred", "rename", "compress",
                            "encrypt", "decrypt"} : Ask(op)
             \/ Cancel \/ CloseReport
             \/ Create \/ DeleteOne \/ DeleteDone \/ DeleteStopped \/ Shred
             \/ Rename \/ Compress \/ Decompress \/ Encrypt \/ Decrypt \/ Drop

LEMMA CancelKeeps == ASSUME IInv, Cancel PROVE IInv'
<1>1. Types'
  BY DEF Cancel, IInv, Types, navigation, asked
<1>2. Tokens'
  BY DEF Cancel, IInv, Tokens, Newest, Ordered, navigation, asked
<1> QED BY <1>1, <1>2 DEF IInv

LEMMA DeleteOneKeeps == ASSUME IInv, DeleteOne PROVE IInv'
<1>1. dialog \in [op : Operations, dir : Dirs \cup {NoDir}]
  <2>1. NoDialog.op = "none"
    BY DEF NoDialog
  <2>2. dialog # NoDialog
    BY <2>1 DEF DeleteOne
  <2> QED BY <2>2 DEF IInv, Types
<1>2. dialog' \in [op : Operations, dir : Dirs \cup {NoDir}]
  BY <1>1 DEF DeleteOne, Operations
<1>3. excuses' \subseteq {"early", "failed", "abandoned"}
  BY DEF DeleteOne, IInv, Types
<1> QED BY <1>2, <1>3, ChangeOnlyKeeps DEF DeleteOne

LEMMA OperationKeeps == ASSUME IInv, Operation PROVE IInv'
<1> USE DoneAndReloadKeeps, ReportKeeps, AbandonedKeeps
<1>1. ASSUME NEW op \in {"create", "delete", "shred", "rename", "compress",
                         "encrypt", "decrypt"}, Ask(op)
      PROVE  IInv'
  <2>1. op \in Operations /\ shown.dir \in Dirs \cup {NoDir}
    BY DEF Operations, IInv, Types, Picture
  <2> QED BY <1>1, <2>1, OpenKeeps DEF Ask
<1>2. CASE Create
  BY <1>2 DEF Create
<1>3. CASE DeleteDone \/ DeleteStopped
  BY <1>3 DEF DeleteDone, DeleteStopped
<1>4. CASE Shred \/ Rename
  BY <1>4 DEF Shred, Rename
<1>5. CASE Compress \/ Decompress
  BY <1>5 DEF Compress, Decompress, Archived
<1>6. CASE Encrypt
  <2>1. "name archive" \in Operations /\ current \in Dirs \cup {NoDir}
    BY DEF Operations, IInv, Types
  <2> QED BY <1>6, <2>1, OpenKeeps DEF Encrypt, Archived
<1>7. CASE Decrypt
  BY <1>7 DEF Decrypt
<1>8. CASE Drop
  BY <1>8 DEF Drop
<1> QED BY <1>1, <1>2, <1>3, <1>4, <1>5, <1>6, <1>7, <1>8, CancelKeeps, CloseReportKeeps,
           DeleteOneKeeps DEF Operation

LEMMA NextKeeps == IInv /\ [Next]_vars => IInv'
<1> SUFFICES ASSUME IInv, [Next]_vars PROVE IInv'
  OBVIOUS
<1>1. ASSUME NEW d \in Dirs, NavigateTo(d) PROVE IInv'
  BY <1>1, NavigateKeeps
<1>2. CASE NavigateHome
  BY <1>2, HomeAssumption, NavigateKeeps DEF NavigateHome
<1>3. ASSUME NEW l \in loads, Overtaken(l) \/ Failed(l) \/ Arrived(l) PROVE IInv'
  BY <1>3, OvertakenKeeps, FailedKeeps, ArrivedKeeps
<1>4. CASE Operation
  BY <1>4, OperationKeeps
<1>5. CASE UNCHANGED vars
  <2>1. Types'
    BY <1>5 DEF vars, navigation, asked, IInv, Types
  <2>2. Tokens'
    BY <1>5 DEF vars, navigation, asked, IInv, Tokens, Newest, Ordered
  <2> QED BY <2>1, <2>2 DEF IInv
<1> QED BY <1>1, <1>2, <1>3, <1>4, <1>5, NavigateUpKeeps, GoBackKeeps, GoForwardKeeps,
           PressReloadKeeps, ToggleHiddenKeeps DEF Next, Operation

(* The invariant holds in every behaviour of the file manager.                *)
THEOREM Invariance == Spec => []IInv
BY InitKeeps, NextKeeps, PTL DEF Spec

(* The variables of the file manager's window have their types, whatever      *)
(* folders there are and however often the user asks (ExplorerWindow).        *)
THEOREM TypeCorrect == Spec => []TypeOK
<1>1. IInv => TypeOK
  <2> SUFFICES ASSUME IInv PROVE TypeOK
    OBVIOUS
  <2>1. load_token \in 1..MaxLoads /\ MaxLoads \in Nat
    BY BoundAssumption DEF IInv, Types
  <2>2. shown \in [token : 0..load_token, dir : Dirs \cup {NoDir}, hidden : BOOLEAN,
                   upToDate : BOOLEAN]
    BY <2>1 DEF IInv, Types, Tokens, Picture
  <2>3. loads \subseteq [token : 1..load_token, dir : Dirs, push : BOOLEAN,
                         hidden : BOOLEAN, upToDate : BOOLEAN, step : BOOLEAN]
    BY <2>1 DEF IInv, Types, Tokens, Ordered, Listing
  <2> QED BY <2>2, <2>3 DEF IInv, Types, TypeOK
<1> QED BY <1>1, Invariance, PTL

(* Only the listing asked for last is ever shown, in every tree of folders    *)
(* and however many requests overlap (the tests after the yield in            *)
(* load_directory_async).                                                     *)
THEOREM OnlyNewestShown == Spec => NewestShown
<1> DEFINE Change == shown'.token # shown.token \/ current' # current
                     => /\ shown'.token = load_token /\ shown.token < load_token
                        /\ current' = shown'.dir
<1>1. ASSUME IInv, [Next]_vars PROVE [Change]_vars
  <2>1. ASSUME NEW l \in loads, Arrived(l) PROVE Change
    <3>1. shown'.token = load_token /\ current' = shown'.dir
      BY <2>1 DEF Arrived, Show, Newest
    <3>2. shown.token < load_token
      BY <1>1, <2>1 DEF Arrived, IInv, Tokens
    <3> QED BY <3>1, <3>2
  <2>2. ASSUME NEW l \in loads, Overtaken(l) \/ Failed(l) PROVE Change
    BY <2>2 DEF Overtaken, Failed, navigation
  <2>3. CASE NavigateUp \/ NavigateHome \/ \E d \in Dirs : NavigateTo(d)
    BY <2>3 DEF NavigateUp, NavigateHome, NavigateTo, navigation
  <2>4. CASE GoBack \/ GoForward \/ PressReload \/ ToggleHidden
    BY <2>4 DEF GoBack, GoForward, PressReload, ToggleHidden, navigation
  <2>5. CASE Operation
    <3>1. \/ UNCHANGED <<current, shown>>
          \/ \E D : Changed(D)
      BY <2>5, Zenon DEF Operation, Ask, Open, Cancel, CloseReport, Create, DeleteOne, DeleteDone,
         DeleteStopped, Shred, Rename, Compress, Decompress, Encrypt, Decrypt, Drop,
         Archived, DoneAndReload, DoneWithReport, Abandoned, navigation
    <3>2. ASSUME NEW D, Changed(D)
          PROVE  shown'.token = shown.token /\ current' = current
      BY <1>1, <3>2, ChangedKeeps
    <3> QED BY <3>1, <3>2
  <2>6. CASE UNCHANGED vars
    BY <2>6
  <2> QED BY <1>1, <2>1, <2>2, <2>3, <2>4, <2>5, <2>6 DEF Next, Operation
<1> QED BY <1>1, Invariance, PTL DEF NewestShown, Spec

--------------------------------------------------------------------------------
(* What the window shows once nothing is being read.  Idle: the newest        *)
(* request is not being read.                                                 *)
Idle == \A l \in loads : ~ Newest(l)

Toolbar ==
  /\ loads = {} => ~ busy
  /\ Idle => buttons = Possible(current, back, forward) \cup {"home", "reload"}

(* An operation that has changed something and will read the folder again. *)
Pending == dialog.op \in {"deleting", "report"}

Follow ==
  excuses = {} =>
    /\ \A l \in loads : Newest(l) => /\ l.hidden = show_hidden
                                     /\ Pending \/ l.upToDate
    /\ Idle => /\ shown.hidden = show_hidden
               /\ Pending \/ shown.upToDate

Settled == Toolbar /\ Follow

LEMMA InitSettled == Init => Settled
<1> SUFFICES ASSUME Init PROVE Settled
  OBVIOUS
<1> DEFINE first == Load(1, Home, TRUE, FALSE, FALSE)
<1>1. first.token = 1 /\ first.hidden = FALSE /\ first.upToDate = TRUE
  BY DEF Load
<1>2. loads = {first} /\ load_token = 1 /\ show_hidden = FALSE
  BY DEF Init
<1> HIDE DEF first
<1>3. ~ Idle /\ loads # {}
  BY <1>1, <1>2 DEF Idle, Newest
<1>4. \A l \in loads : l.hidden = show_hidden /\ l.upToDate
  BY <1>1, <1>2
<1> QED BY <1>3, <1>4 DEF Settled, Toolbar, Follow

(* What the newest request will show is the choice of the moment. *)
LEMMA BeginSettles ==
  ASSUME IInv, NEW ls \in SUBSET Listing, NEW d \in Dirs, NEW push \in BOOLEAN,
         NEW step \in BOOLEAN, show_hidden' \in BOOLEAN,
         Ordered(ls, load_token), Begin(ls, d, push, step)
  PROVE  Settled'
<1> DEFINE new == Load(load_token + 1, d, push, show_hidden', step)
<1>1. /\ new.token = load_token + 1 /\ new.hidden = show_hidden'
      /\ new.upToDate = TRUE
  BY DEF Load
<1>2. new \in loads' /\ load_token' = load_token + 1
  BY DEF Begin
<1>3. Ordered(loads', load_token')
  BY BeginKeeps
<1> HIDE DEF new
<1>4. \A l \in loads' : l.token = load_token' => l = new
  BY <1>1, <1>2, <1>3 DEF Ordered
<1>5. ~ Idle' /\ loads' # {}
  BY <1>1, <1>2 DEF Idle, Newest
<1>6. \A l \in loads' : Newest(l)' => l.hidden = show_hidden' /\ l.upToDate
  BY <1>1, <1>4 DEF Newest
<1> QED BY <1>5, <1>6 DEF Settled, Toolbar, Follow

(* Before a folder is shown a reload leaves everything as it was. *)
LEMMA ReloadSettles ==
  ASSUME IInv, Settled, NEW ls \in SUBSET Listing, Ordered(ls, load_token),
         show_hidden' \in BOOLEAN, UNCHANGED <<current, back, forward>>,
         ls = {} => loads = {},
         (\A l \in ls : ~ Newest(l)) => Idle,
         Reload(ls)
  PROVE  Settled'
<1>1. CASE current = NoDir
  <2>1. /\ loads' = ls /\ load_token' = load_token /\ busy' = busy
        /\ buttons' = buttons /\ "early" \in excuses'
    BY <1>1 DEF Reload
  <2>2. Follow'
    BY <2>1 DEF Follow
  <2>3. loads' = {} => ~ busy'
    BY <2>1, Zenon DEF Settled, Toolbar
  <2>4. Idle' => Idle
    BY <2>1 DEF Idle, Newest
  <2>5. Toolbar'
    BY <2>1, <2>3, <2>4, Zenon DEF Settled, Toolbar
  <2> QED BY <2>2, <2>5 DEF Settled
<1>2. CASE current # NoDir
  <2>1. current \in Dirs /\ Begin(ls, current, FALSE, FALSE)
    BY <1>2 DEF Reload, IInv, Types
  <2> QED BY <2>1, BeginSettles
<1> QED BY <1>1, <1>2

(* Marking a listing keeps it, and keeps what it was asked for. *)
LEMMA MarkedSettles ==
  ASSUME IInv, NEW D, NEW ls \in Marked(D)
  PROVE  /\ ls = {} => loads = {}
         /\ (\A l \in ls : ~ Newest(l)) => Idle
         /\ \A l \in ls : Newest(l) => \E k \in loads : Newest(k) /\ k.hidden = l.hidden
<1>1. CASE ls = loads
  BY <1>1 DEF Idle
<1>2. CASE \E l \in loads : /\ Newest(l)
                            /\ ls = (loads \ {l}) \cup {[l EXCEPT !.upToDate = FALSE]}
  <2>1. PICK l \in loads : /\ Newest(l)
                           /\ ls = (loads \ {l}) \cup {[l EXCEPT !.upToDate = FALSE]}
    BY <1>2
  <2>2. l \in Listing
    BY DEF IInv, Types
  <2>3. /\ [l EXCEPT !.upToDate = FALSE].token = l.token
        /\ [l EXCEPT !.upToDate = FALSE].hidden = l.hidden
    BY <2>2 DEF Listing
  <2>4. Newest([l EXCEPT !.upToDate = FALSE])
    BY <2>1, <2>3 DEF Newest
  <2> QED BY <2>1, <2>3, <2>4
<1> QED BY <1>1, <1>2 DEF Marked

(* A change that is followed by no request yet. *)
LEMMA ChangeSettles ==
  ASSUME IInv, Settled, NEW D, Changed(D), loads' \in Marked(D),
         UNCHANGED <<load_token, busy, buttons>>,
         \/ excuses' # {}
         \/ excuses' = excuses /\ Pending'
  PROVE  Settled'
<1>1. /\ UNCHANGED <<current, back, forward, show_hidden>>
      /\ shown'.hidden = shown.hidden
  BY DEF Changed, navigation, IInv, Types, Picture
<1>2. /\ loads' = {} => loads = {}
      /\ (\A l \in loads' : ~ Newest(l)) => Idle
      /\ \A l \in loads' : Newest(l) => \E k \in loads : Newest(k) /\ k.hidden = l.hidden
  BY MarkedSettles
<1>3. Idle' => Idle
  BY <1>2 DEF Idle, Newest
<1>4. loads' = {} => ~ busy'
  BY <1>2, Zenon DEF Settled, Toolbar
<1>5. Toolbar'
  BY <1>1, <1>3, <1>4, Zenon DEF Settled, Toolbar
<1>6. \A l \in loads' : Newest(l)' <=> Newest(l)
  BY DEF Newest
<1>7. ASSUME excuses' = excuses, Pending' PROVE Follow'
  <2>1. CASE excuses = {}
    <3>1. /\ \A l \in loads : Newest(l) => l.hidden = show_hidden
          /\ Idle => shown.hidden = show_hidden
      BY <2>1 DEF Settled, Follow
    <3>2. \A l \in loads' : Newest(l)' => l.hidden = show_hidden'
      BY <1>1, <1>2, <1>6, <3>1
    <3> QED BY <1>1, <1>3, <1>7, <3>1, <3>2 DEF Follow
  <2>2. CASE excuses # {}
    BY <1>7, <2>2 DEF Follow
  <2> QED BY <2>1, <2>2
<1>8. ASSUME excuses' # {} PROVE Follow'
  BY <1>8 DEF Follow
<1> QED BY <1>5, <1>7, <1>8 DEF Settled

(* A dialog opens or closes with nothing done and nothing left to do. *)
LEMMA DialogSettles ==
  ASSUME Settled, UNCHANGED <<navigation, asked, show_hidden, shown>>, ~ Pending
  PROVE  Settled'
<1>1. UNCHANGED <<loads, load_token, busy, buttons, excuses, current, back, forward>>
  BY DEF navigation, asked
<1>2. (Idle' <=> Idle) /\ \A l \in loads : Newest(l)' <=> Newest(l)
  BY <1>1 DEF Idle, Newest
<1>3. Toolbar'
  BY <1>1, <1>2, Zenon DEF Settled, Toolbar
<1>4. Follow'
  BY <1>1, <1>2, Zenon DEF Settled, Follow
<1> QED BY <1>3, <1>4 DEF Settled

LEMMA RequestSettles ==
  ASSUME IInv, Settled,
         \/ \E d \in Dirs : NavigateTo(d)
         \/ NavigateHome \/ NavigateUp \/ GoBack \/ GoForward
  PROVE  Settled'
<1>1. loads \in SUBSET Listing /\ Ordered(loads, load_token) /\ show_hidden \in BOOLEAN
  BY DEF IInv, Types, Tokens
<1>2. ASSUME NEW d \in Dirs, NavigateTo(d) PROVE Settled'
  BY <1>1, <1>2, BeginSettles DEF NavigateTo
<1>3. CASE NavigateUp
  <2>1. Parent[current] \in Dirs
    BY <1>3, ParentAssumption DEF NavigateUp, CanUp, IInv, Types
  <2> QED BY <1>2, <1>3, <2>1 DEF NavigateUp
<1>4. CASE GoBack
  <2>1. Last(back) \in Dirs
    BY <1>4, TopOfStack DEF GoBack, IInv, Types
  <2> QED BY <1>1, <1>4, <2>1, BeginSettles DEF GoBack
<1>5. CASE GoForward
  <2>1. Last(forward) \in Dirs
    BY <1>5, TopOfStack DEF GoForward, IInv, Types
  <2> QED BY <1>1, <1>5, <2>1, BeginSettles DEF GoForward
<1> QED BY <1>2, <1>3, <1>4, <1>5, HomeAssumption DEF NavigateHome

LEMMA PlainReloadSettles ==
  ASSUME IInv, Settled, PressReload \/ ToggleHidden \/ CloseReport
  PROVE  Settled'
<1>1. loads \in SUBSET Listing /\ Ordered(loads, load_token)
  BY DEF IInv, Types, Tokens
<1>2. /\ Reload(loads) /\ UNCHANGED <<current, back, forward>>
      /\ show_hidden' \in BOOLEAN
  BY DEF PressReload, ToggleHidden, CloseReport, navigation, IInv, Types
<1> QED BY <1>1, <1>2, ReloadSettles DEF Idle

--------------------------------------------------------------------------------
LEMMA OvertakenSettles ==
  ASSUME IInv, Settled, NEW l \in loads, Overtaken(l) PROVE Settled'
<1>1. /\ ~ Newest(l) /\ loads' = loads \ {l} /\ busy' = FALSE
      /\ UNCHANGED <<current, back, forward, load_token, buttons, show_hidden, shown,
                     dialog, excuses>>
  BY DEF Overtaken, navigation
<1>2. (Idle' <=> Idle) /\ \A k \in loads : Newest(k)' <=> Newest(k)
  BY <1>1 DEF Idle, Newest
<1>3. Toolbar'
  BY <1>1, <1>2, Zenon DEF Settled, Toolbar
<1>4. Pending' <=> Pending
  BY <1>1 DEF Pending
<1>5. \A k \in loads' : k \in loads
  BY <1>1
<1>6. Follow'
  BY <1>1, <1>2, <1>4, <1>5, Zenon DEF Settled, Follow
<1> QED BY <1>3, <1>6 DEF Settled

LEMMA FailedSettles ==
  ASSUME IInv, Settled, NEW l \in loads, Failed(l) PROVE Settled'
<1>1. /\ busy' = FALSE /\ UNCHANGED <<current, back, forward>>
      /\ buttons' = Possible(current, back, forward) \cup {"home", "reload"}
  BY DEF Failed, navigation
<1>2. Toolbar'
  BY <1>1, Zenon DEF Toolbar
<1>3. excuses' # {}
  BY DEF Failed
<1> QED BY <1>2, <1>3, Zenon DEF Settled, Follow

LEMMA ArrivedSettles ==
  ASSUME IInv, Settled, NEW l \in loads, Arrived(l) PROVE Settled'
<1>1. /\ Newest(l) /\ loads' = loads \ {l} /\ busy' = FALSE /\ current' = l.dir
      /\ UNCHANGED <<load_token, show_hidden, dialog, excuses>>
      /\ shown' = [token |-> l.token, dir |-> l.dir, hidden |-> l.hidden,
                   upToDate |-> l.upToDate]
      /\ buttons' = Possible(l.dir, back', forward') \cup {"home", "reload"}
  BY Zenon DEF Arrived, Show
<1>2. Toolbar'
  BY <1>1, Zenon DEF Toolbar
<1>3. \A k \in loads' : ~ Newest(k)'
  BY <1>1 DEF Newest, IInv, Tokens, Ordered
<1>4. shown'.hidden = l.hidden /\ shown'.upToDate = l.upToDate
  BY <1>1
<1>5. Pending' <=> Pending
  BY <1>1 DEF Pending
<1>6. Follow'
  BY <1>1, <1>3, <1>4, <1>5, Zenon DEF Settled, Follow
<1> QED BY <1>2, <1>6 DEF Settled

--------------------------------------------------------------------------------
LEMMA DoneAndReloadSettles ==
  ASSUME IInv, Settled, NEW D, DoneAndReload(D) PROVE Settled'
<1>1. UNCHANGED <<current, back, forward, show_hidden>>
  BY DEF DoneAndReload, Changed, navigation
<1>2. PICK ls \in Marked(D) : Reload(ls)
  BY DEF DoneAndReload
<1>3. ls \in SUBSET Listing /\ Ordered(ls, load_token)
  BY MarkedKeeps
<1>4. /\ ls = {} => loads = {}
      /\ (\A l \in ls : ~ Newest(l)) => Idle
  BY MarkedSettles
<1>5. show_hidden' \in BOOLEAN
  BY <1>1 DEF IInv, Types
<1> QED BY <1>1, <1>2, <1>3, <1>4, <1>5, ReloadSettles

LEMMA ReportSettles ==
  ASSUME IInv, Settled, NEW D, DoneWithReport(D) PROVE Settled'
<1>1. Pending'
  BY DEF DoneWithReport, Pending
<1> QED BY <1>1, ChangeSettles DEF DoneWithReport

LEMMA AbandonedSettles ==
  ASSUME IInv, Settled, NEW D, Abandoned(D) PROVE Settled'
<1>1. excuses' # {}
  BY DEF Abandoned
<1> QED BY <1>1, ChangeSettles DEF Abandoned

LEMMA DeleteOneSettles ==
  ASSUME IInv, Settled, DeleteOne PROVE Settled'
<1>1. dialog \in [op : Operations, dir : Dirs \cup {NoDir}]
  <2>1. NoDialog.op = "none"
    BY DEF NoDialog
  <2> QED BY <2>1 DEF DeleteOne, IInv, Types
<1>2. Pending'
  BY <1>1 DEF DeleteOne, Pending
<1> QED BY <1>2, ChangeSettles DEF DeleteOne

LEMMA OperationSettles == ASSUME IInv, Settled, Operation PROVE Settled'
<1> USE DoneAndReloadSettles, ReportSettles, AbandonedSettles
<1>1. ASSUME NEW op, NEW d, Open(op, d), ~ Pending PROVE Settled'
  BY <1>1, DialogSettles DEF Open
<1>2. ASSUME NEW op, Ask(op) PROVE Settled'
  <2>1. ~ Pending
    BY <1>2 DEF Ask, Free, NoDialog, Pending
  <2> QED BY <1>1, <1>2, <2>1 DEF Ask
<1>3. CASE Cancel
  <2>1. ~ Pending
    BY <1>3 DEF Cancel, Pending
  <2> QED BY <1>3, <2>1, DialogSettles DEF Cancel
<1>4. CASE Create \/ DeleteDone \/ DeleteStopped
  BY <1>4 DEF Create, DeleteDone, DeleteStopped
<1>5. CASE Shred \/ Rename
  BY <1>5 DEF Shred, Rename
<1>6. CASE Compress \/ Decompress
  BY <1>6 DEF Compress, Decompress, Archived
<1>7. CASE Encrypt
  <2>1. Asking("encrypt") => ~ Pending
    BY DEF Asking, Pending
  <2> QED BY <1>1, <1>7, <2>1 DEF Encrypt, Archived
<1>8. CASE Decrypt \/ Drop
  BY <1>8 DEF Decrypt, Drop
<1> QED BY <1>2, <1>3, <1>4, <1>5, <1>6, <1>7, <1>8, PlainReloadSettles,
           DeleteOneSettles DEF Operation

LEMMA NextSettles == IInv /\ Settled /\ [Next]_vars => Settled'
<1> SUFFICES ASSUME IInv, Settled, [Next]_vars PROVE Settled'
  OBVIOUS
<1>1. ASSUME NEW l \in loads, Overtaken(l) \/ Failed(l) \/ Arrived(l) PROVE Settled'
  BY <1>1, OvertakenSettles, FailedSettles, ArrivedSettles
<1>2. CASE Operation
  BY <1>2, OperationSettles
<1>3. CASE UNCHANGED vars
  <2>1. /\ Toolbar'
        /\ (Idle' <=> Idle) /\ (Pending' <=> Pending)
    BY <1>3 DEF vars, navigation, asked, Settled, Toolbar, Idle, Newest, Pending
  <2>2. Follow'
    BY <1>3, <2>1 DEF vars, navigation, asked, Settled, Follow, Newest
  <2> QED BY <2>1, <2>2 DEF Settled
<1> QED BY <1>1, <1>2, <1>3, RequestSettles, PlainReloadSettles DEF Next, Operation

(* The toolbar and the icons, with the requests under way, are an invariant.  *)
THEOREM SettledInvariance == Spec => []Settled
BY InitSettled, NextSettles, Invariance, PTL DEF Spec

(* No order of requests, answers and failures leaves the watch on, a button   *)
(* disabled or a history promised (set_loading and update_nav_buttons).       *)
THEOREM IdleToolbar == Spec => []IdleToolbarTrue
<1>1. Settled => IdleToolbarTrue
  BY Zenon DEF Settled, Toolbar, Idle, IdleToolbarTrue
<1> QED BY <1>1, SettledInvariance, PTL

(* The icons have every change made here once nothing is under way, unless    *)
(* there is an excuse (the reload at the end of each operation).              *)
THEOREM IconsAreCurrent == Spec => []IconsFollow
<1>1. Settled => IconsFollow
  <2> SUFFICES ASSUME Settled, loads = {}, Free, excuses = {}
               PROVE  shown.upToDate /\ shown.hidden = show_hidden
    BY DEF IconsFollow
  <2>1. Idle /\ ~ Pending
    BY DEF Idle, Free, NoDialog, Pending
  <2> QED BY <2>1 DEF Settled, Follow
<1> QED BY <1>1, SettledInvariance, PTL
--------------------------------------------------------------------------------
(* The history. *)

(* A way spelt out by the two stacks and the folder between them. *)
WayOf(b, h, f) == b \o (IF h = NoDir THEN <<>> ELSE <<h>>) \o Reverse(f)

PushOn(s, h) == IF h = NoDir THEN s ELSE Append(s, h)

Here == IF Steps = {} THEN current ELSE (CHOOSE l \in Steps : TRUE).dir

(* What TrailKept says of a step. *)
Kept == \/ Trail' = Trail
        \/ Steps # {} /\ current' = current /\ Trail' = Way(current)
        \/ Trail' = Append(Push(back), current')

(* There is no history before the first folder, and a reload is of the folder *)
(* shown: without the second, a listing that arrives could change the folder  *)
(* and leave no trace of the one that was there.                              *)
Course ==
  /\ current = NoDir => back = <<>> /\ forward = <<>>
  /\ \A l \in loads : Newest(l) /\ ~ l.push /\ ~ l.step => l.dir = current

(* A sequence is its front with its last behind. *)
LEMMA FrontAndLast ==
  ASSUME NEW S, NEW s \in Seq(S), s # <<>>
  PROVE  /\ Front(s) \in Seq(S) /\ Last(s) \in S
         /\ s = Front(s) \o <<Last(s)>>
         /\ s = Append(Front(s), Last(s))
<1>1. PICK t \in Seq(S), e \in S : s = Append(t, e)
  BY SequenceEmptyOrAppend
<1>2. Last(s) = e
  BY <1>1, AppendProperties DEF Last
<1>3. Front(s) = t
  <2>1. Len(s) - 1 = Len(t) /\ Len(t) \in Nat
    BY <1>1, AppendProperties
  <2>2. Front(s) = [i \in 1..Len(t) |-> s[i]]
    BY <1>1, <2>1 DEF Front
  <2>3. \A i \in 1..Len(t) : s[i] = t[i]
    BY <1>1, AppendProperties
  <2> QED BY <2>2, <2>3
<1>4. Append(t, e) = t \o <<e>>
  BY AppendIsConcat
<1> QED BY <1>1, <1>2, <1>3, <1>4

(* What is put on a stack comes first when it is read from the top. *)
LEMMA ReverseAppend ==
  ASSUME NEW S, NEW s \in Seq(S), NEW e \in S
  PROVE  /\ Reverse(s) \in Seq(S)
         /\ Reverse(Append(s, e)) = <<e>> \o Reverse(s)
<1>1. Len(s) \in Nat /\ s \in [1..Len(s) -> S]
  OBVIOUS
<1>2. /\ Append(s, e) \in Seq(S) /\ Len(Append(s, e)) = Len(s) + 1
      /\ \A i \in 1..Len(s) : Append(s, e)[i] = s[i]
      /\ Append(s, e)[Len(s) + 1] = e
  BY AppendProperties
<1>3. ASSUME NEW t \in Seq(S)
      PROVE  /\ Reverse(t) \in Seq(S) /\ Len(Reverse(t)) = Len(t)
             /\ \A i \in 1..Len(t) : Reverse(t)[i] = t[(Len(t) - i) + 1]
  <2>1. Reverse(t) = [i \in 1..Len(t) |-> t[(Len(t) - i) + 1]]
    BY DEF Reverse
  <2>2. \A i \in 1..Len(t) : (Len(t) - i) + 1 \in 1..Len(t)
    OBVIOUS
  <2>3. [i \in 1..Len(t) |-> t[(Len(t) - i) + 1]] \in [1..Len(t) -> S]
    BY <2>2
  <2> QED BY <2>1, <2>3
<1>4. /\ Reverse(s) \in Seq(S) /\ Len(Reverse(s)) = Len(s)
      /\ \A i \in 1..Len(s) : Reverse(s)[i] = s[(Len(s) - i) + 1]
  BY <1>3
<1> DEFINE l == Reverse(Append(s, e))
           r == <<e>> \o Reverse(s)
<1>5. l \in Seq(S) /\ Len(l) = Len(s) + 1
  BY <1>2, <1>3
<1>6. /\ r \in Seq(S) /\ Len(r) = 1 + Len(s) /\ r[1] = e
      /\ \A i \in 1..Len(s) : r[i + 1] = Reverse(s)[i]
  BY <1>1, <1>4
<1>7. \A i \in 1..(Len(s) + 1) : l[i] = r[i]
  <2> SUFFICES ASSUME NEW i \in 1..(Len(s) + 1) PROVE l[i] = r[i]
    OBVIOUS
  <2>1. l[i] = Append(s, e)[((Len(s) + 1) - i) + 1]
    <3> DEFINE t == Append(s, e)
    <3>1. t \in Seq(S) /\ Len(t) = Len(s) + 1 /\ l = Reverse(t)
      BY <1>2
    <3> HIDE DEF t, l
    <3>2. l[i] = t[(Len(t) - i) + 1]
      BY <1>3, <3>1
    <3> QED BY <3>1, <3>2 DEF t
  <2>2. CASE i = 1
    <3>1. ((Len(s) + 1) - i) + 1 = Len(s) + 1
      BY <1>1, <2>2
    <3> HIDE DEF l, r
    <3> QED BY <1>2, <1>6, <2>1, <2>2, <3>1
  <2>3. CASE i # 1
    <3>1. i - 1 \in 1..Len(s) /\ (i - 1) + 1 = i
          /\ ((Len(s) + 1) - i) + 1 = (Len(s) - (i - 1)) + 1
          /\ (Len(s) - (i - 1)) + 1 \in 1..Len(s)
      BY <1>1, <2>3
    <3>2. r[i] = s[(Len(s) - (i - 1)) + 1]
      <4> HIDE DEF r
      <4> QED BY <1>4, <1>6, <3>1
    <3> HIDE DEF l, r
    <3> QED BY <1>2, <2>1, <3>1, <3>2
  <2> QED BY <2>2, <2>3
<1> HIDE DEF l, r
<1>8. l = r
  BY <1>1, <1>5, <1>6, <1>7, SeqEqual
<1> QED BY <1>4, <1>8 DEF l, r

(* Sequences of one, and of three. *)
LEMMA Single == \A S : \A e \in S : <<e>> \in Seq(S)
OBVIOUS

Stacks == Seq(Dirs)

LEMMA Grouped == \A s, t, u \in Stacks : (s \o t) \o u = s \o (t \o u)
BY ConcatAssociative DEF Stacks

(* The folder between the stacks, if any, as a sequence. *)
LEMMA WayTypes ==
  ASSUME NEW b \in Seq(Dirs), NEW h \in Dirs \cup {NoDir}, NEW f \in Seq(Dirs)
  PROVE  /\ (IF h = NoDir THEN <<>> ELSE <<h>>) \in Seq(Dirs)
         /\ Reverse(f) \in Seq(Dirs)
         /\ PushOn(b, h) = b \o (IF h = NoDir THEN <<>> ELSE <<h>>)
         /\ Reverse(PushOn(f, h)) = (IF h = NoDir THEN <<>> ELSE <<h>>) \o Reverse(f)
<1>1. Home \in Dirs /\ Reverse(f) \in Seq(Dirs)
  BY HomeAssumption, ReverseAppend
<1>2. CASE h = NoDir
  BY <1>1, <1>2, ConcatEmptySeq DEF PushOn
<1>3. CASE h # NoDir
  <2>1. h \in Dirs /\ <<h>> \in Seq(Dirs)
    BY <1>3
  <2>2. Append(b, h) = b \o <<h>> /\ Reverse(Append(f, h)) = <<h>> \o Reverse(f)
    BY <2>1, AppendIsConcat, ReverseAppend
  <2> QED BY <1>1, <1>3, <2>1, <2>2 DEF PushOn
<1> QED BY <1>2, <1>3

(* Going back moves along the way. *)
LEMMA WayBack ==
  ASSUME NEW b \in Seq(Dirs), b # <<>>, NEW h \in Dirs \cup {NoDir}, NEW f \in Seq(Dirs)
  PROVE  WayOf(Front(b), Last(b), PushOn(f, h)) = WayOf(b, h, f)
<1> DEFINE x == IF h = NoDir THEN <<>> ELSE <<h>>
<1>1. /\ Front(b) \in Seq(Dirs) /\ Last(b) \in Dirs /\ b = Front(b) \o <<Last(b)>>
      /\ Last(b) # NoDir /\ <<Last(b)>> \in Seq(Dirs)
  <2>1. Front(b) \in Seq(Dirs) /\ Last(b) \in Dirs /\ b = Front(b) \o <<Last(b)>>
    BY FrontAndLast
  <2> HIDE DEF x
  <2> QED BY <2>1, HomeAssumption, Single
<1>2. /\ x \in Seq(Dirs) /\ Reverse(f) \in Seq(Dirs)
      /\ Reverse(PushOn(f, h)) = x \o Reverse(f)
  BY WayTypes
<1> HIDE DEF x
<1>3. WayOf(Front(b), Last(b), PushOn(f, h))
        = (Front(b) \o <<Last(b)>>) \o (x \o Reverse(f))
  BY <1>1, <1>2 DEF WayOf
<1>4. WayOf(b, h, f) = (b \o x) \o Reverse(f)
  BY DEF WayOf, x
<1>5. (b \o x) \o Reverse(f) = b \o (x \o Reverse(f))
  <2> DEFINE u == Reverse(f)
  <2>1. b \in Stacks /\ x \in Stacks /\ u \in Stacks
    BY <1>2 DEF Stacks
  <2> HIDE DEF u
  <2>2. (b \o x) \o u = b \o (x \o u)
    BY <2>1, Grouped
  <2> QED BY <2>2 DEF u
<1> QED BY <1>1, <1>3, <1>4, <1>5

(* So does going forward. *)
LEMMA WayForward ==
  ASSUME NEW b \in Seq(Dirs), NEW h \in Dirs \cup {NoDir}, NEW f \in Seq(Dirs), f # <<>>
  PROVE  WayOf(PushOn(b, h), Last(f), Front(f)) = WayOf(b, h, f)
<1> DEFINE x == IF h = NoDir THEN <<>> ELSE <<h>>
<1>1. /\ Front(f) \in Seq(Dirs) /\ Last(f) \in Dirs /\ f = Append(Front(f), Last(f))
      /\ Last(f) # NoDir /\ <<Last(f)>> \in Seq(Dirs)
  <2>1. Front(f) \in Seq(Dirs) /\ Last(f) \in Dirs /\ f = Append(Front(f), Last(f))
    BY FrontAndLast
  <2> HIDE DEF x
  <2> QED BY <2>1, HomeAssumption, Single
<1>2. x \in Seq(Dirs) /\ PushOn(b, h) = b \o x /\ b \o x \in Seq(Dirs)
  BY WayTypes, ConcatProperties
<1>3. /\ Reverse(Front(f)) \in Seq(Dirs)
      /\ Reverse(f) = <<Last(f)>> \o Reverse(Front(f))
  BY <1>1, ReverseAppend
<1> HIDE DEF x
<1>4. WayOf(PushOn(b, h), Last(f), Front(f))
        = ((b \o x) \o <<Last(f)>>) \o Reverse(Front(f))
  BY <1>1, <1>2 DEF WayOf
<1>5. WayOf(b, h, f) = (b \o x) \o Reverse(f)
  BY DEF WayOf, x
<1>6. ((b \o x) \o <<Last(f)>>) \o Reverse(Front(f))
        = (b \o x) \o (<<Last(f)>> \o Reverse(Front(f)))
  <2> DEFINE s == b \o x
             t == <<Last(f)>>
             u == Reverse(Front(f))
  <2>1. s \in Stacks /\ t \in Stacks /\ u \in Stacks
    BY <1>1, <1>2, <1>3 DEF Stacks
  <2> HIDE DEF s, t, u
  <2>2. (s \o t) \o u = s \o (t \o u)
    BY <2>1, Grouped
  <2> QED BY <2>2 DEF s, t, u
<1> QED BY <1>3, <1>4, <1>5, <1>6

(* A way that ends here. *)
LEMMA WayEnds ==
  ASSUME NEW b \in Seq(Dirs), NEW d \in Dirs
  PROVE  WayOf(b, d, <<>>) = Append(b, d)
<1>1. Reverse(<<>>) = <<>>
  BY DEF Reverse
<1>2. <<d>> \in Seq(Dirs) /\ b \o <<d>> \in Seq(Dirs) /\ d # NoDir
  BY ConcatProperties, HomeAssumption
<1>3. (b \o <<d>>) \o <<>> = b \o <<d>>
  BY <1>2, ConcatEmptySeq
<1> QED BY <1>1, <1>2, <1>3, AppendIsConcat DEF WayOf

--------------------------------------------------------------------------------
LEMMA TrailIsWay ==
  /\ Trail = WayOf(back, Here, forward) /\ Trail' = WayOf(back', Here', forward')
  /\ \A h : Way(h) = WayOf(back, h, forward)
  /\ \A s : Push(s) = PushOn(s, current)
BY DEF Trail, Way, WayOf, Here, Push, PushOn

(* Which folder is here. *)
LEMMA WhereWeAre ==
  ASSUME NEW ls, NEW n, Ordered(ls, n)
  PROVE  LET steps == {l \in ls : l.token = n /\ l.step}
         IN  \A l \in steps : (CHOOSE k \in steps : TRUE) = l
BY DEF Ordered

LEMMA HereIs ==
  ASSUME IInv
  PROVE  /\ \A l \in loads : Newest(l) /\ l.step => Here = l.dir
         /\ (\A l \in loads : Newest(l) => ~ l.step) => Here = current
<1> DEFINE steps == {l \in loads : l.token = load_token /\ l.step}
<1>1. Steps = steps
  BY DEF Steps, Newest
<1>2. \A l \in steps : (CHOOSE k \in steps : TRUE) = l
  BY WhereWeAre DEF IInv, Tokens
<1> HIDE DEF steps
<1>3. Here = IF steps = {} THEN current ELSE (CHOOSE k \in steps : TRUE).dir
  BY <1>1 DEF Here
<1>4. \A l \in steps : Here = l.dir
  BY <1>2, <1>3
<1> QED BY <1>3, <1>4 DEF steps, Newest

LEMMA HereWillBe ==
  ASSUME IInv'
  PROVE  /\ \A l \in loads' : l.token = load_token' /\ l.step => Here' = l.dir
         /\ (\A l \in loads' : l.token = load_token' => ~ l.step) => Here' = current'
<1> DEFINE steps == {l \in loads' : l.token = load_token' /\ l.step}
<1>1. Steps' = steps
  BY DEF Steps, Newest
<1>2. \A l \in steps : (CHOOSE k \in steps : TRUE) = l
  BY WhereWeAre DEF IInv, Tokens
<1> HIDE DEF steps
<1>3. Here' = IF steps = {} THEN current' ELSE (CHOOSE k \in steps : TRUE).dir
  BY <1>1 DEF Here
<1>4. \A l \in steps : Here' = l.dir
  BY <1>2, <1>3
<1> QED BY <1>3, <1>4 DEF steps

(* Every newest listing of ls is in ks, but for what it may lack. *)
Among(ls, ks) ==
  \A l \in ls : Newest(l) => \E k \in ks : /\ Newest(k)
                                           /\ k.dir = l.dir /\ k.push = l.push /\ k.step = l.step

LEMMA MarkedAmong ==
  ASSUME IInv, NEW D, NEW ls \in Marked(D)
  PROVE  Among(ls, loads) /\ Among(loads, ls)
<1>1. CASE ls = loads
  BY <1>1 DEF Among
<1>2. CASE \E l \in loads : ls = (loads \ {l}) \cup {[l EXCEPT !.upToDate = FALSE]}
  <2>1. PICK l \in loads : ls = (loads \ {l}) \cup {[l EXCEPT !.upToDate = FALSE]}
    BY <1>2
  <2> DEFINE m == [l EXCEPT !.upToDate = FALSE]
  <2>2. m.token = l.token /\ m.dir = l.dir /\ m.push = l.push /\ m.step = l.step
    BY DEF IInv, Types, Listing
  <2> HIDE DEF m
  <2>3. ls = (loads \ {l}) \cup {m}
    BY <2>1 DEF m
  <2> QED BY <2>2, <2>3 DEF Among, Newest
<1> QED BY <1>1, <1>2 DEF Marked

(* Where no request begins or ends the way is the same. *)
LEMMA StillTrail ==
  ASSUME IInv, IInv', Course, Among(loads, loads'), Among(loads', loads),
         UNCHANGED <<current, back, forward, load_token>>
  PROVE  Course' /\ Kept
<1>1. Course'
  BY DEF Course, Among, Newest
<1>2. Here' = Here
  <2>1. CASE \E l \in loads : Newest(l) /\ l.step
    <3>1. PICK l \in loads : Newest(l) /\ l.step
      BY <2>1
    <3>2. PICK k \in loads' : k.token = load_token' /\ k.dir = l.dir /\ k.step = l.step
      BY <3>1 DEF Among, Newest
    <3>3. k.step
      BY <3>1, <3>2, Zenon
    <3>4. Here = l.dir /\ Here' = k.dir
      BY <3>1, <3>2, <3>3, HereIs, HereWillBe
    <3> QED BY <3>2, <3>4
  <2>2. CASE ~ \E l \in loads : Newest(l) /\ l.step
    <3>1. \A k \in loads' : k.token = load_token' => ~ k.step
      BY <2>2 DEF Among, Newest
    <3> QED BY <2>2, <3>1, HereIs, HereWillBe
  <2> QED BY <2>1, <2>2
<1>3. Trail' = Trail
  BY <1>2, TrailIsWay
<1> QED BY <1>1, <1>3 DEF Kept

(* A new request is the only newest. *)
LEMMA BeginIsNewest ==
  ASSUME IInv, NEW ls \in SUBSET Listing, NEW d \in Dirs, NEW push \in BOOLEAN,
         NEW step \in BOOLEAN, show_hidden' \in BOOLEAN,
         Ordered(ls, load_token), Begin(ls, d, push, step)
  PROVE  /\ \E l \in loads' : l.token = load_token'
         /\ \A l \in loads' : l.token = load_token' =>
              l.dir = d /\ l.push = push /\ l.step = step
<1> DEFINE new == Load(load_token + 1, d, push, show_hidden', step)
<1>1. new.token = load_token + 1 /\ new.dir = d /\ new.push = push /\ new.step = step
  BY DEF Load
<1>2. new \in loads' /\ load_token' = load_token + 1
  BY DEF Begin
<1>3. Ordered(loads', load_token')
  BY BeginKeeps
<1> HIDE DEF new
<1>4. \A l \in loads' : l.token = load_token' => l = new
  BY <1>1, <1>2, <1>3 DEF Ordered
<1> QED BY <1>1, <1>2, <1>4

(* When the listing of a Back or Forward is not awaited any more, it is the    *)
(* folder shown that is here again.                                           *)
LEMMA HereAgain ==
  ASSUME IInv, IInv', UNCHANGED <<current, back, forward>>,
         \A l \in loads' : l.token = load_token' => ~ l.step
  PROVE  Kept
<1>1. Here' = current /\ Trail' = Way(current)
  BY HereWillBe, TrailIsWay
<1>2. CASE Steps = {}
  <2>1. Trail' = Trail
    BY <1>1, <1>2, TrailIsWay DEF Here
  <2> QED BY <2>1 DEF Kept
<1>3. CASE Steps # {}
  BY <1>1, <1>3 DEF Kept
<1> QED BY <1>2, <1>3

(* A request that is not Back or Forward: a reload is of the folder shown. *)
LEMMA RequestTrail ==
  ASSUME IInv, IInv', Course, NEW ls \in SUBSET Listing, NEW d \in Dirs,
         NEW push \in BOOLEAN, Ordered(ls, load_token), Begin(ls, d, push, FALSE),
         ~ push => d = current, UNCHANGED <<current, back, forward>>
  PROVE  Course' /\ Kept
<1>1. show_hidden' \in BOOLEAN
  BY DEF IInv, Types
<1>2. \A l \in loads' : l.token = load_token' => l.dir = d /\ l.push = push /\ ~ l.step
  <2>1. \A l \in loads' : l.token = load_token' =>
          l.dir = d /\ l.push = push /\ l.step = FALSE
    <3> DEFINE no == FALSE
    <3>1. no \in BOOLEAN /\ Begin(ls, d, push, no)
      OBVIOUS
    <3> HIDE DEF no
    <3>2. \A l \in loads' : l.token = load_token' =>
            l.dir = d /\ l.push = push /\ l.step = no
      BY <1>1, <3>1, BeginIsNewest
    <3> QED BY <3>2 DEF no
  <2> QED BY <2>1, Zenon
<1>3. Course'
  BY <1>2 DEF Course, Newest
<1>4. Kept
  BY <1>2, HereAgain
<1> QED BY <1>3, <1>4

LEMMA ReloadTrail ==
  ASSUME IInv, IInv', Course, NEW ls \in SUBSET Listing, Ordered(ls, load_token),
         Among(ls, loads), Among(loads, ls), Reload(ls),
         UNCHANGED <<current, back, forward>>
  PROVE  Course' /\ Kept
<1>1. CASE current = NoDir
  BY <1>1, StillTrail DEF Reload
<1>2. CASE current # NoDir
  <2>1. current \in Dirs /\ Begin(ls, current, FALSE, FALSE)
    BY <1>2 DEF Reload, IInv, Types
  <2> QED BY <2>1, RequestTrail
<1> QED BY <1>1, <1>2

LEMMA PlainReloadTrail ==
  ASSUME IInv, IInv', Course, Reload(loads), UNCHANGED <<current, back, forward>>
  PROVE  Course' /\ Kept
<1>1. loads \in SUBSET Listing /\ Ordered(loads, load_token) /\ Among(loads, loads)
  BY DEF IInv, Types, Tokens, Among
<1> QED BY <1>1, ReloadTrail

LEMMA NavigateTrail ==
  ASSUME IInv, IInv', Course, NEW d \in Dirs, NavigateTo(d) PROVE Course' /\ Kept
<1>1. loads \in SUBSET Listing /\ Ordered(loads, load_token)
  BY DEF IInv, Types, Tokens
<1>2. Begin(loads, d, TRUE, FALSE) /\ UNCHANGED <<current, back, forward>>
  BY DEF NavigateTo, navigation
<1> QED BY <1>1, <1>2, RequestTrail

(* Back and Forward: when none is under way, the whole trail is kept.         *)
LEMMA StepTrail ==
  ASSUME IInv, IInv', Course, NEW d \in Dirs, Begin(loads, d, FALSE, TRUE),
         current' = current, current # NoDir,
         WayOf(back', d, forward') = WayOf(back, current, forward)
  PROVE  Course' /\ Kept
<1>1. /\ loads \in SUBSET Listing /\ Ordered(loads, load_token)
      /\ show_hidden' \in BOOLEAN
  BY DEF IInv, Types, Tokens
<1>2. /\ \E l \in loads' : l.token = load_token'
      /\ \A l \in loads' : l.token = load_token' => l.dir = d /\ l.step
  BY <1>1, BeginIsNewest
<1>3. Course'
  BY <1>2 DEF Course, Newest
<1>4. Here' = d /\ Trail' = Way(current)
  BY <1>2, HereWillBe, TrailIsWay
<1>5. CASE Steps = {}
  <2>1. Trail' = Trail
    BY <1>4, <1>5, TrailIsWay DEF Here
  <2> QED BY <1>3, <2>1 DEF Kept
<1>6. CASE Steps # {}
  BY <1>3, <1>4, <1>6 DEF Kept
<1> QED BY <1>5, <1>6

LEMMA GoBackTrail ==
  ASSUME IInv, IInv', Course, GoBack PROVE Course' /\ Kept
<1>1. /\ back # <<>> /\ back' = Front(back) /\ forward' = PushOn(forward, current)
      /\ current' = current /\ Begin(loads, Last(back), FALSE, TRUE)
  BY TrailIsWay DEF GoBack
<1>2. /\ back \in Seq(Dirs) /\ forward \in Seq(Dirs) /\ current \in Dirs \cup {NoDir}
      /\ current # NoDir
  BY <1>1 DEF IInv, Types, Course
<1>3. WayOf(back', Last(back), forward') = WayOf(back, current, forward)
  BY <1>1, <1>2, WayBack
<1>4. Last(back) \in Dirs
  BY <1>1, <1>2, FrontAndLast
<1> QED BY <1>1, <1>2, <1>3, <1>4, StepTrail

LEMMA GoForwardTrail ==
  ASSUME IInv, IInv', Course, GoForward PROVE Course' /\ Kept
<1>1. /\ forward # <<>> /\ forward' = Front(forward) /\ back' = PushOn(back, current)
      /\ current' = current /\ Begin(loads, Last(forward), FALSE, TRUE)
  BY TrailIsWay DEF GoForward
<1>2. /\ back \in Seq(Dirs) /\ forward \in Seq(Dirs) /\ current \in Dirs \cup {NoDir}
      /\ current # NoDir
  BY <1>1 DEF IInv, Types, Course
<1>3. WayOf(back', Last(forward), forward') = WayOf(back, current, forward)
  BY <1>1, <1>2, WayForward
<1>4. Last(forward) \in Dirs
  BY <1>1, <1>2, FrontAndLast
<1> QED BY <1>1, <1>2, <1>3, <1>4, StepTrail

LEMMA OvertakenTrail ==
  ASSUME IInv, IInv', Course, NEW l \in loads, Overtaken(l) PROVE Course' /\ Kept
<1>1. /\ loads' = loads \ {l} /\ ~ Newest(l)
      /\ UNCHANGED <<current, back, forward, load_token>>
  BY DEF Overtaken, navigation
<1>2. Among(loads, loads') /\ Among(loads', loads)
  BY <1>1 DEF Among
<1> QED BY <1>1, <1>2, StillTrail

(* Of the listings left, none is the newest. *)
LEMMA FailedTrail ==
  ASSUME IInv, IInv', Course, NEW l \in loads, Failed(l) PROVE Course' /\ Kept
<1>1. /\ loads' = loads \ {l} /\ Newest(l)
      /\ UNCHANGED <<current, back, forward, load_token>>
  BY DEF Failed, navigation
<1>2. \A k \in loads' : k.token # load_token'
  BY <1>1 DEF Newest, IInv, Tokens, Ordered
<1>3. Course'
  BY <1>1, <1>2 DEF Course, Newest
<1> QED BY <1>1, <1>2, <1>3, HereAgain

LEMMA ArrivedTrail ==
  ASSUME IInv, IInv', Course, NEW l \in loads, Arrived(l) PROVE Course' /\ Kept
<1>1. /\ loads' = loads \ {l} /\ Newest(l) /\ load_token' = load_token
      /\ current' = l.dir
  BY DEF Arrived, Show
<1>2. /\ l.dir \in Dirs /\ l.dir # NoDir
      /\ back \in Seq(Dirs) /\ forward \in Seq(Dirs) /\ current \in Dirs \cup {NoDir}
  BY HomeAssumption DEF IInv, Types, Listing
<1>3. \A k \in loads' : k.token # load_token'
  BY <1>1 DEF Newest, IInv, Tokens, Ordered
<1>4. Course'
  BY <1>1, <1>2, <1>3 DEF Course, Newest
<1>5. Here' = l.dir /\ Trail' = WayOf(back', l.dir, forward')
  BY <1>1, <1>3, HereWillBe, TrailIsWay
<1>6. CASE Leaves(l)
  <2>1. back' = Append(back, current) /\ forward' = <<>> /\ current # NoDir
    BY <1>6 DEF Arrived, Show, Leaves
  <2>2. back' \in Seq(Dirs) /\ Push(back) = back'
    BY <1>2, <2>1, AppendProperties DEF Push
  <2>3. Trail' = Append(Push(back), current')
    BY <1>1, <1>2, <1>5, <2>1, <2>2, WayEnds
  <2> QED BY <1>4, <2>3 DEF Kept
<1>7. CASE ~ Leaves(l)
  <2>1. back' = back /\ forward' = forward
    BY <1>7 DEF Arrived, Show
  <2>2. CASE l.step
    <3>1. Here = l.dir
      BY <1>1, <2>2, HereIs
    <3>2. Trail' = Trail
      BY <1>5, <2>1, <3>1, TrailIsWay
    <3> QED BY <1>4, <3>2 DEF Kept
  <2>3. CASE ~ l.step /\ current = l.dir
    <3>1. \A k \in loads : Newest(k) => ~ k.step
      BY <1>1, <2>3 DEF Newest, IInv, Tokens, Ordered
    <3>2. Trail' = Trail
      BY <1>5, <2>1, <2>3, <3>1, HereIs, TrailIsWay
    <3> QED BY <1>4, <3>2 DEF Kept
  <2>4. CASE ~ l.step /\ current # l.dir
    <3>1. current = NoDir /\ back = <<>> /\ forward = <<>>
      BY <1>1, <1>7, <2>4 DEF Leaves, Course
    <3>2. Trail' = Append(Push(back), current')
      BY <1>1, <1>2, <1>5, <2>1, <3>1, WayEnds DEF Push
    <3> QED BY <1>4, <3>2 DEF Kept
  <2> QED BY <2>2, <2>3, <2>4
<1> QED BY <1>6, <1>7

--------------------------------------------------------------------------------
(* No operation on files touches the history. *)
LEMMA ChangeTrail ==
  ASSUME IInv, IInv', Course, NEW D, Changed(D), loads' \in Marked(D),
         load_token' = load_token
  PROVE  Course' /\ Kept
<1>1. UNCHANGED <<current, back, forward>>
  BY DEF Changed, navigation
<1>2. Among(loads, loads') /\ Among(loads', loads)
  BY MarkedAmong
<1> QED BY <1>1, <1>2, StillTrail

LEMMA DoneAndReloadTrail ==
  ASSUME IInv, IInv', Course, NEW D, DoneAndReload(D) PROVE Course' /\ Kept
<1>1. UNCHANGED <<current, back, forward>>
  BY DEF DoneAndReload, Changed, navigation
<1>2. PICK ls \in Marked(D) : Reload(ls)
  BY DEF DoneAndReload
<1>3. ls \in SUBSET Listing /\ Ordered(ls, load_token)
  BY MarkedKeeps
<1>4. Among(ls, loads) /\ Among(loads, ls)
  BY MarkedAmong
<1> QED BY <1>1, <1>2, <1>3, <1>4, ReloadTrail

LEMMA UnchangedTrail ==
  ASSUME IInv, IInv', Course, UNCHANGED <<navigation, asked>> PROVE Course' /\ Kept
<1>1. UNCHANGED <<current, back, forward, load_token, loads>>
  BY DEF navigation, asked
<1>2. Among(loads, loads') /\ Among(loads', loads)
  BY <1>1 DEF Among
<1> QED BY <1>1, <1>2, StillTrail

LEMMA OperationTrail ==
  ASSUME IInv, IInv', Course, Operation PROVE Course' /\ Kept
<1>1. ASSUME NEW D, DoneAndReload(D) \/ DoneWithReport(D) \/ Abandoned(D)
      PROVE  Course' /\ Kept
  BY <1>1, DoneAndReloadTrail, ChangeTrail DEF DoneWithReport, Abandoned
<1>2. ASSUME NEW op, NEW d, Open(op, d) PROVE Course' /\ Kept
  BY <1>2, UnchangedTrail DEF Open
<1>3. CASE (\E op \in {"create", "delete", "shred", "rename", "compress", "encrypt",
                       "decrypt"} : Ask(op)) \/ Cancel
  BY <1>2, <1>3, UnchangedTrail DEF Ask, Cancel
<1>4. CASE CloseReport
  BY <1>4, PlainReloadTrail DEF CloseReport, navigation
<1>5. CASE DeleteOne
  BY <1>5, ChangeTrail DEF DeleteOne
<1>6. CASE Create \/ DeleteDone \/ DeleteStopped \/ Shred \/ Rename
  BY <1>1, <1>6 DEF Create, DeleteDone, DeleteStopped, Shred, Rename
<1>7. CASE Compress \/ Decompress \/ Encrypt
  BY <1>1, <1>2, <1>7 DEF Compress, Decompress, Encrypt, Archived
<1>8. CASE Decrypt \/ Drop
  BY <1>1, <1>8 DEF Decrypt, Drop
<1> QED BY <1>3, <1>4, <1>5, <1>6, <1>7, <1>8 DEF Operation

LEMMA NextTrail == IInv /\ IInv' /\ Course /\ [Next]_vars => Course' /\ Kept
<1> SUFFICES ASSUME IInv, IInv', Course, [Next]_vars PROVE Course' /\ Kept
  OBVIOUS
<1>1. ASSUME NEW d \in Dirs, NavigateTo(d) PROVE Course' /\ Kept
  BY <1>1, NavigateTrail
<1>2. CASE NavigateHome
  BY <1>2, HomeAssumption, NavigateTrail DEF NavigateHome
<1>3. CASE NavigateUp
  <2>1. Parent[current] \in Dirs
    BY <1>3, ParentAssumption DEF NavigateUp, CanUp, IInv, Types
  <2> QED BY <1>3, <2>1, NavigateTrail DEF NavigateUp
<1>4. CASE PressReload \/ ToggleHidden
  BY <1>4, PlainReloadTrail DEF PressReload, ToggleHidden, navigation
<1>5. ASSUME NEW l \in loads, Overtaken(l) \/ Failed(l) \/ Arrived(l)
      PROVE  Course' /\ Kept
  BY <1>5, OvertakenTrail, FailedTrail, ArrivedTrail
<1>6. CASE Operation
  BY <1>6, OperationTrail
<1>7. CASE UNCHANGED vars
  BY <1>7, UnchangedTrail DEF vars
<1> QED BY <1>1, <1>2, <1>3, <1>4, <1>5, <1>6, <1>7, GoBackTrail, GoForwardTrail
        DEF Next, Operation

LEMMA InitCourse == Init => Course
<1> SUFFICES ASSUME Init PROVE Course
  OBVIOUS
<1>1. \A l \in loads : l.push
  BY DEF Init, Load
<1> QED BY <1>1 DEF Init, Course

(* Back and Forward lose no folder but the one that a failed or overtaken step  *)
(* was for, and a folder newly gone to replaces those ahead (history.vala,      *)
(* load_directory_async), in every tree and with any number of requests.        *)
THEOREM TrailIsKept == Spec => TrailKept
<1>1. Spec => []Course
  BY InitCourse, NextTrail, Invariance, PTL DEF Spec
<1>2. IInv /\ IInv' /\ Course /\ [Next]_vars => [Kept]_vars
  BY NextTrail
<1>3. Spec => [][Kept]_vars
  BY <1>1, <1>2, Invariance, PTL DEF Spec
<1> QED BY <1>3 DEF TrailKept, Kept
================================================================================
