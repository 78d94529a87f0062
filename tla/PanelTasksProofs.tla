--------------------------- MODULE PanelTasksProofs ---------------------------
(****************************************************************************)
(* The list of windows, what is marked in it and what the panel shows are    *)
(* right for any number of windows, places and events under way.             *)
(****************************************************************************)
EXTENDS PanelTasks, TLAPS

(* update_layout: the rectangles are those of the clients and of the text. *)
Fits == \A i \in DOMAIN clients : rects[i] = Width(i, Len(clients), Room[text])

Drawn == drawn = Buttons(clients, rects) \/ "buttons" \in undrawn

Shown == Drawn /\ Fits

(* What is not on the screen is going to be: the buttons, which change with   *)
(* the clients and with the text's width only when both a layout and a        *)
(* drawing are due, and the time.                                             *)
AboutToDraw ==
  /\ pc \in {"top", "select"} => Drawn
  /\ pc = "top" => Shown
  /\ (need.layout /\ need.redraw) \/ Shown
  /\ said = text \/ "time" \in undrawn \/ (pc # "top" /\ (need.redraw \/ need.clock))

IInv == TypeOK /\ ListCurrent /\ MarksCurrent /\ AboutToDraw

--------------------------------------------------------------------------------
(* Sequences of events, of which some are of a kind. *)

LEMMA HasAppend ==
  ASSUME NEW S, NEW s \in Seq(S), NEW e \in S, NEW k
  PROVE  Has(Append(s, e), k) <=> Has(s, k) \/ e.kind = k
<1>1. /\ Append(s, e) \in Seq(S) /\ Len(Append(s, e)) = Len(s) + 1
      /\ \A i \in 1..Len(s) : Append(s, e)[i] = s[i]
      /\ Append(s, e)[Len(s) + 1] = e
      /\ Len(s) \in Nat /\ DOMAIN s = 1..Len(s)
      /\ DOMAIN Append(s, e) = 1..(Len(s) + 1)
  OBVIOUS
<1>2. \A i : i \in 1..(Len(s) + 1) <=> i \in 1..Len(s) \/ i = Len(s) + 1
  BY <1>1
<1> QED  BY <1>1, <1>2, Zenon DEF Has

LEMMA HasTail ==
  ASSUME NEW S, NEW s \in Seq(S), s # <<>>, NEW k
  PROVE  /\ Has(s, k) <=> Head(s).kind = k \/ Has(Tail(s), k)
         /\ Tail(s) \in Seq(S) /\ Head(s) \in S
<1>1. /\ Tail(s) \in Seq(S) /\ Len(Tail(s)) = Len(s) - 1 /\ Head(s) \in S
      /\ \A i \in 1..Len(Tail(s)) : Tail(s)[i] = s[i + 1]
      /\ Head(s) = s[1] /\ Len(s) \in Nat \ {0}
      /\ DOMAIN s = 1..Len(s) /\ DOMAIN Tail(s) = 1..Len(Tail(s))
  OBVIOUS
<1>2. ASSUME Has(s, k)
      PROVE  Head(s).kind = k \/ Has(Tail(s), k)
  <2>1. PICK i \in 1..Len(s) : s[i].kind = k
    BY <1>1, <1>2 DEF Has
  <2>2. CASE i = 1
    BY <1>1, <2>1, <2>2
  <2>3. CASE i # 1
    <3>1. i - 1 \in 1..Len(Tail(s)) /\ (i - 1) + 1 = i
      BY <1>1, <2>1, <2>3
    <3>2. Tail(s)[i - 1] = s[i]
      BY <1>1, <3>1
    <3> QED  BY <1>1, <2>1, <3>1, <3>2 DEF Has
  <2> QED  BY <2>2, <2>3
<1>3. ASSUME Has(Tail(s), k)
      PROVE  Has(s, k)
  <2>1. PICK i \in 1..Len(Tail(s)) : Tail(s)[i].kind = k
    BY <1>1, <1>3 DEF Has
  <2>2. i + 1 \in 1..Len(s) /\ s[i + 1] = Tail(s)[i]
    BY <1>1, <2>1
  <2> QED  BY <1>1, <2>1, <2>2 DEF Has
<1>4. ASSUME Head(s).kind = k
      PROVE  Has(s, k)
  <2>1. 1 \in DOMAIN s /\ s[1].kind = k
    BY <1>1, <1>4
  <2> QED  BY <2>1 DEF Has
<1> QED  BY <1>1, <1>2, <1>3, <1>4

LEMMA HasConcat ==
  ASSUME NEW S, NEW s \in Seq(S), NEW t \in Seq(S), NEW k
  PROVE  Has(s \o t, k) <=> Has(s, k) \/ Has(t, k)
<1>1. /\ s \o t \in Seq(S) /\ Len(s \o t) = Len(s) + Len(t)
      /\ \A i \in 1..Len(s \o t) :
            (s \o t)[i] = IF i <= Len(s) THEN s[i] ELSE t[i - Len(s)]
      /\ Len(s) \in Nat /\ Len(t) \in Nat
      /\ DOMAIN s = 1..Len(s) /\ DOMAIN t = 1..Len(t) /\ DOMAIN (s \o t) = 1..Len(s \o t)
  OBVIOUS
<1>2. ASSUME Has(s \o t, k)
      PROVE  Has(s, k) \/ Has(t, k)
  <2>1. PICK i \in 1..Len(s \o t) : (s \o t)[i].kind = k
    BY <1>1, <1>2 DEF Has
  <2>2. CASE i <= Len(s)
    <3>1. i \in 1..Len(s) /\ (s \o t)[i] = s[i]
      BY <1>1, <2>1, <2>2
    <3> QED  BY <1>1, <2>1, <3>1 DEF Has
  <2>3. CASE ~(i <= Len(s))
    <3>1. i - Len(s) \in 1..Len(t) /\ (s \o t)[i] = t[i - Len(s)]
      BY <1>1, <2>1, <2>3
    <3> QED  BY <1>1, <2>1, <3>1 DEF Has
  <2> QED  BY <2>2, <2>3
<1>3. ASSUME Has(s, k)
      PROVE  Has(s \o t, k)
  <2>1. PICK i \in 1..Len(s) : s[i].kind = k
    BY <1>1, <1>3 DEF Has
  <2>2. i \in 1..Len(s \o t) /\ (s \o t)[i] = s[i]
    BY <1>1, <2>1
  <2> QED  BY <1>1, <2>1, <2>2 DEF Has
<1>4. ASSUME Has(t, k)
      PROVE  Has(s \o t, k)
  <2>1. PICK i \in 1..Len(t) : t[i].kind = k
    BY <1>1, <1>4 DEF Has
  <2>2. i + Len(s) \in 1..Len(s \o t) /\ (s \o t)[i + Len(s)] = t[i]
    BY <1>1, <2>1
  <2> QED  BY <1>1, <2>1, <2>2 DEF Has
<1> QED  BY <1>2, <1>3, <1>4

--------------------------------------------------------------------------------
(* Events on their way to the panel.  None is lost, and none overtakes.      *)

LEMMA TellTells ==
  ASSUME TypeOK, NEW e \in Event, Tell(e)
  PROVE  /\ wire' \in Seq(Event) /\ queue' \in Seq(Event)
         /\ \A k : Awaits(k)' <=> Awaits(k) \/ e.kind = k
<1>1. wire \in Seq(Event) /\ queue \in Seq(Event) /\ wire' = Append(wire, e) /\ queue' = queue
  BY DEF TypeOK, Tell
<1>2. \A k : Has(wire', k) <=> Has(wire, k) \/ e.kind = k
  BY <1>1, HasAppend
<1>3. \A k : Has(queue', k) <=> Has(queue, k)
  BY <1>1
<1>4. wire' \in Seq(Event)
  BY <1>1
<1> QED  BY <1>1, <1>2, <1>3, <1>4 DEF Awaits

LEMMA PendingFirst ==
  ASSUME TypeOK
  PROVE  /\ Pending \in Seq(Event) /\ Unread \in Seq(Event)
         /\ \A k : Awaits(k) <=> Has(Pending, k) \/ Has(Unread, k)
<1>1. \A k : ~Has(<<>>, k)
  BY DEF Has
<1>2. CASE queue = <<>>
  BY <1>1, <1>2 DEF TypeOK, Pending, Unread, Awaits
<1>3. CASE queue # <<>>
  BY <1>1, <1>3 DEF TypeOK, Pending, Unread, Awaits
<1> QED  BY <1>2, <1>3

LEMMA HandledTakes ==
  ASSUME TypeOK, Pending # <<>>, NEW t \in BOOLEAN, Handled(t)
  PROVE  /\ wire' \in Seq(Event) /\ queue' \in Seq(Event) /\ Head(Pending) \in Event
         /\ \A k : Awaits(k) <=> Head(Pending).kind = k \/ Awaits(k)'
<1>1. /\ Pending \in Seq(Event) /\ Unread \in Seq(Event)
      /\ \A k : Awaits(k) <=> Has(Pending, k) \/ Has(Unread, k)
  BY PendingFirst
<1>2. /\ Tail(Pending) \in Seq(Event) /\ Head(Pending) \in Event
      /\ \A k : Has(Pending, k) <=> Head(Pending).kind = k \/ Has(Tail(Pending), k)
  BY <1>1, HasTail
<1>3. \A k : ~Has(<<>>, k)
  BY DEF Has
<1>4. CASE t
  <2>1. queue' = Tail(Pending) \o Unread /\ wire' = <<>>
    BY <1>4 DEF Handled
  <2>2. \A k : Has(queue', k) <=> Has(Tail(Pending), k) \/ Has(Unread, k)
    BY <1>1, <1>2, <2>1, HasConcat
  <2>3. queue' \in Seq(Event) /\ wire' \in Seq(Event)
    BY <1>1, <1>2, <2>1
  <2>4. \A k : Awaits(k)' <=> Has(queue', k) \/ Has(wire', k)
    BY DEF Awaits
  <2> QED  BY <1>1, <1>2, <1>3, <2>1, <2>2, <2>3, <2>4
<1>5. CASE ~t
  <2>1. queue' = Tail(Pending) /\ wire' = Unread
    BY <1>5 DEF Handled
  <2>2. \A k : Awaits(k)' <=> Has(queue', k) \/ Has(wire', k)
    BY DEF Awaits
  <2> QED  BY <1>1, <1>2, <2>1, <2>2
<1> QED  BY <1>4, <1>5

(* XPending and the round trips of a drawing only move events to the queue. *)
LEMMA ReadingKeepsEvents ==
  ASSUME TypeOK, queue' = queue \o wire, wire' = <<>>
  PROVE  /\ wire' \in Seq(Event) /\ queue' \in Seq(Event)
         /\ \A k : Awaits(k)' <=> Awaits(k)
<1>1. wire \in Seq(Event) /\ queue \in Seq(Event)
  BY DEF TypeOK
<1>2. \A k : Has(queue', k) <=> Has(queue, k) \/ Has(wire, k)
  BY <1>1, HasConcat
<1>3. \A k : ~Has(<<>>, k)
  BY DEF Has
<1>4. \A k : Awaits(k)' <=> Has(queue', k) \/ Has(wire', k)
  BY DEF Awaits
<1>5. wire' \in Seq(Event) /\ queue' \in Seq(Event)
  BY <1>1
<1> QED  BY <1>2, <1>3, <1>4, <1>5 DEF Awaits

--------------------------------------------------------------------------------
(* Lists of windows. *)

LEMMA MarksAreWindows ==
  ASSUME NEW s \in Seq(Windows)
  PROVE  Marks(s) \subseteq Windows
  BY DEF Marks, In

LEMMA ListedIsList ==
  ASSUME NEW s \in Seq(Windows)
  PROVE  Listed(s) \in Seq(Windows) /\ Len(Listed(s)) <= MaxClients
<1>1. Len(s) \in Nat /\ MaxClients \in Nat
  BY TasksAssumption
<1>2. CASE Len(s) < MaxClients
  BY <1>1, <1>2 DEF Listed
<1>3. CASE ~(Len(s) < MaxClients)
  BY <1>1, <1>3 DEF Listed
<1> QED  BY <1>2, <1>3

LEMMA WithoutIsList ==
  ASSUME NEW s \in Seq(Windows), NEW i \in DOMAIN s
  PROVE  Without(s, i) \in Seq(Windows)
<1>1. Len(s) \in Nat /\ i \in 1..Len(s)
  OBVIOUS
<1>2. SubSeq(s, 1, i - 1) \in Seq(Windows) /\ SubSeq(s, i + 1, Len(s)) \in Seq(Windows)
  BY <1>1
<1> QED  BY <1>2 DEF Without

(* update_layout gives every place a width, for any number of clients and    *)
(* any text of the clock.                                                    *)
LEMMA WidthIsNumber ==
  ASSUME NEW i \in Nat, NEW n \in Nat, NEW room \in Int
  PROVE  Width(i, n, room) \in Nat
<1>1. (IF n > 0 THEN room \div n ELSE 0) \in Int
  OBVIOUS
<1>2. Share(n, room) \in Nat
  BY <1>1 DEF Share, Clamped, Narrowest, Widest
<1> QED  BY <1>2 DEF Width

LEMMA LaidOutIsWidths ==
  ASSUME TypeOK, NEW n \in Nat, NEW room \in Int
  PROVE  LaidOut(n, room) \in [Places -> Nat]
<1>1. ASSUME NEW i \in Places
      PROVE  (IF i <= n THEN Width(i, n, room) ELSE rects[i]) \in Nat
  <2>1. i \in Nat
    BY TasksAssumption DEF Places
  <2> QED  BY <2>1, WidthIsNumber DEF TypeOK
<1> QED  BY <1>1 DEF LaidOut

(* The rectangles of a layout are those of the clients and of its text.      *)
LEMMA LaidOutFits ==
  ASSUME TypeOK, NEW room \in Int
  PROVE  \A i \in DOMAIN clients : LaidOut(Len(clients), room)[i] = Width(i, Len(clients), room)
<1>1. /\ clients \in Seq(Windows) /\ Len(clients) \in Nat /\ Len(clients) <= MaxClients
      /\ MaxClients \in Nat /\ DOMAIN clients = 1..Len(clients)
  BY TasksAssumption DEF TypeOK
<1>2. \A i \in 1..Len(clients) : i \in Places /\ i <= Len(clients)
  BY <1>1 DEF Places
<1> QED  BY <1>1, <1>2 DEF LaidOut

LEMMA RoomIsNumber ==
  ASSUME NEW t \in Texts
  PROVE  Room[t] \in Int
  BY TasksAssumption

LEMMA ButtonsAreButtons ==
  ASSUME NEW s \in Seq(Windows), NEW r \in [Places -> Nat]
  PROVE  /\ DOMAIN Buttons(s, r) \subseteq Places
         /\ Buttons(s, r) \in [DOMAIN Buttons(s, r) -> Button]
<1> DEFINE S == {j \in Places : j <= Len(s) /\ r[j] # 0}
<1>1. \A i \in S : [win |-> s[i], width |-> r[i]] \in Button
  <2>1. \A i \in S : s[i] \in Windows /\ r[i] \in Nat
    BY DEF Places
  <2> QED  BY <2>1 DEF Button
<1>2. Buttons(s, r) = [i \in S |-> [win |-> s[i], width |-> r[i]]]
  BY DEF Buttons
<1> HIDE DEF S
<1>3. DOMAIN Buttons(s, r) = S /\ Buttons(s, r) \in [S -> Button]
  BY <1>1, <1>2
<1> QED  BY <1>3 DEF S

--------------------------------------------------------------------------------
(* Every step keeps the types. *)

LEMMA InitTypes == Init => TypeOK
<1> SUFFICES ASSUME Init
             PROVE  TypeOK
  OBVIOUS
<1>1. /\ tasks \in Seq(Windows) /\ wire \in Seq(Event) /\ queue \in Seq(Event)
      /\ clients \in Seq(Windows) /\ Len(clients) <= MaxClients
  BY TasksAssumption DEF Init
<1>2. DOMAIN drawn \subseteq Places /\ drawn \in [DOMAIN drawn -> Button]
  BY DEF Init
<1>3. rects \in [Places -> Nat] /\ marked \subseteq Windows
  BY DEF Init
<1>4. need \in [layout : BOOLEAN, redraw : BOOLEAN, clock : BOOLEAN]
  BY DEF Init, Nothing
<1> QED  BY <1>1, <1>2, <1>3, <1>4 DEF Init, TypeOK

LEMMA EventTypes ==
  /\ \A k \in {"list", "active", "expose", "configure"} : [kind |-> k] \in Event
  /\ \A p \in Spots \union {None} : [kind |-> "press", at |-> p] \in Event
  BY DEF Event, Press

LEMMA OutsideTypes ==
  ASSUME TypeOK, Outside
  PROVE  TypeOK'
<1>1. CASE TasksChange
  <2>1. tasks' \in Seq(Windows)
    <3>1. CASE \E w \in Windows : tasks' = Append(tasks, w)
      BY <3>1 DEF TypeOK
    <3>2. CASE \E i \in DOMAIN tasks : tasks' = Without(tasks, i)
      BY <3>2, WithoutIsList DEF TypeOK
    <3> QED  BY <1>1, <3>1, <3>2 DEF TasksChange
  <2> QED  BY <1>1, <2>1 DEF TasksChange, TypeOK, panel, list, screen, news
<1>2. CASE TasksTold
  <2>1. Tell([kind |-> "list"])
    BY <1>2 DEF TasksTold
  <2>2. wire' \in Seq(Event) /\ queue' \in Seq(Event)
    BY <2>1, EventTypes, TellTells
  <2> QED  BY <1>2, <2>2 DEF TasksTold, TypeOK, panel, list, screen
<1>3. CASE ActiveChanges
  <2>1. Tell([kind |-> "active"]) /\ active' \in Windows \union {None}
    BY <1>3 DEF ActiveChanges, Activates
  <2>2. wire' \in Seq(Event) /\ queue' \in Seq(Event)
    BY <2>1, EventTypes, TellTells
  <2> QED  BY <1>3, <2>1, <2>2 DEF ActiveChanges, TypeOK, panel, list, screen
<1>4. CASE Served
  <2>1. asked \in Requests
    BY <1>4 DEF Served, TypeOK
  <2>2. \/ Tell([kind |-> "active"]) /\ active' \in Windows \union {None}
        \/ UNCHANGED <<active, wire, queue>>
    BY <1>4, <2>1 DEF Served, Activates, Requests, news
  <2>3. wire' \in Seq(Event) /\ queue' \in Seq(Event) /\ active' \in Windows \union {None}
    BY <2>2, EventTypes, TellTells DEF TypeOK
  <2>4. asked' = None /\ UNCHANGED <<tasks, untold, wall, list, screen, menu, need, pc>>
    BY <1>4 DEF Served
  <2> QED  BY <2>3, <2>4 DEF TypeOK, list, screen
<1>5. CASE Disturbed
  <2>1. PICK k \in {"expose", "configure"} : Tell([kind |-> k])
    BY <1>5 DEF Disturbed
  <2>2. wire' \in Seq(Event) /\ queue' \in Seq(Event)
    BY <2>1, EventTypes, TellTells
  <2> QED  BY <1>5, <2>2 DEF Disturbed, TypeOK, server, panel, list, screen
<1>6. CASE Pressed
  <2>1. PICK p \in Spots \union {None} : Tell([kind |-> "press", at |-> p])
    BY <1>6 DEF Pressed
  <2>4. wire' \in Seq(Event) /\ queue' \in Seq(Event)
    BY <2>1, EventTypes, TellTells
  <2> QED  BY <1>6, <2>4 DEF Pressed, TypeOK, server, panel, list, screen
<1>7. CASE ClockMoves
  BY <1>7 DEF ClockMoves, TypeOK, panel, list, screen, news
<1>8. CASE HoldEnds
  BY <1>8 DEF HoldEnds, TypeOK, server, screen, news
<1> QED  BY <1>1, <1>2, <1>3, <1>4, <1>5, <1>6, <1>7, <1>8 DEF Outside

LEMMA DrainTypes ==
  ASSUME TypeOK, Drain
  PROVE  TypeOK'
<1> DEFINE e == Head(Pending)
<1>1. Pending # <<>> /\ pc \in {"top", "select", "drain", "tail"}
  BY DEF Drain, TypeOK
<1>2. ASSUME NEW t \in BOOLEAN, Handled(t)
      PROVE  /\ wire' \in Seq(Event) /\ queue' \in Seq(Event)
             /\ UNCHANGED <<server, screen>> /\ (pc' = pc)
  BY <1>1, <1>2, HandledTakes DEF Handled
<1>3. ASSUME OnList(e)
      PROVE  TypeOK'
  <2>1. /\ wire' \in Seq(Event) /\ queue' \in Seq(Event)
        /\ UNCHANGED <<server, screen>> /\ (pc' = pc)
    BY <1>2, <1>3 DEF OnList, TypeOK
  <2>2. need' \in [layout : BOOLEAN, redraw : BOOLEAN, clock : BOOLEAN]
    BY <1>3 DEF OnList, TypeOK, Both
  <2>3. /\ clients' \in Seq(Windows) /\ Len(clients') <= MaxClients /\ marked' \subseteq Windows
        /\ held' \in BOOLEAN /\ dropped' \in BOOLEAN
    <3>1. tasks \in Seq(Windows)
      BY DEF TypeOK
    <3>2. CASE held
      BY <1>3, <3>2 DEF OnList, UpdateClients, TypeOK
    <3>3. CASE ~held
      BY <1>3, <3>1, <3>3, ListedIsList, MarksAreWindows DEF OnList, UpdateClients, Refresh
    <3> QED  BY <3>2, <3>3
  <2>4. UNCHANGED <<asked, menu>>
    BY <1>3 DEF OnList
  <2> QED  BY <2>1, <2>2, <2>3, <2>4 DEF TypeOK, server, screen
<1>4. ASSUME OnActive(e)
      PROVE  TypeOK'
  <2>1. /\ wire' \in Seq(Event) /\ queue' \in Seq(Event)
        /\ UNCHANGED <<server, screen>> /\ (pc' = pc)
    BY <1>2, <1>4 DEF OnActive
  <2>2. /\ need' \in [layout : BOOLEAN, redraw : BOOLEAN, clock : BOOLEAN]
        /\ UNCHANGED <<clients, held, dropped, asked, menu>>
    BY <1>4 DEF OnActive, TypeOK
  <2>3. marked' \subseteq Windows
    BY <1>4, MarksAreWindows DEF OnActive, TypeOK
  <2> QED  BY <2>1, <2>2, <2>3 DEF TypeOK, server, screen
<1>5. ASSUME OnExpose(e) \/ OnConfigure(e)
      PROVE  TypeOK'
  <2>1. /\ wire' \in Seq(Event) /\ queue' \in Seq(Event)
        /\ UNCHANGED <<server, screen>> /\ (pc' = pc)
    BY <1>2, <1>5 DEF OnExpose, OnConfigure
  <2>2. /\ need' \in [layout : BOOLEAN, redraw : BOOLEAN, clock : BOOLEAN]
        /\ UNCHANGED <<list, asked, menu>>
    BY <1>5 DEF OnExpose, OnConfigure, TypeOK
  <2> QED  BY <2>1, <2>2 DEF TypeOK, server, screen, list
<1>6. ASSUME OnMenuPress(e)
      PROVE  TypeOK'
  <2>1. /\ wire' \in Seq(Event) /\ queue' \in Seq(Event)
        /\ UNCHANGED <<server, screen>> /\ (pc' = pc)
    BY <1>2, <1>6 DEF OnMenuPress
  <2>2. menu' \in BOOLEAN /\ UNCHANGED <<list, need, asked>>
    BY <1>6 DEF OnMenuPress, TypeOK
  <2> QED  BY <2>1, <2>2 DEF TypeOK, server, screen, list
<1>7. ASSUME OnPress(e)
      PROVE  TypeOK'
  <2>1. /\ \E t \in BOOLEAN : Handled(t)
        /\ menu' \in {menu, TRUE}
        /\ asked' = asked \/ (\E p \in Meant(e) : \E i \in Hit(p) : HitTask(i))
    BY <1>7 DEF OnPress
  <2>2. /\ wire' \in Seq(Event) /\ queue' \in Seq(Event)
        /\ UNCHANGED <<server, screen>> /\ (pc' = pc)
    BY <1>2, <2>1
  <2>3. menu' \in BOOLEAN
    BY <2>1 DEF TypeOK
  <2>4. asked' \in Requests \union {None}
    <3>1. ASSUME NEW i \in DOMAIN clients, HitTask(i)
          PROVE  asked' \in Requests
      <4>1. clients[i] \in Windows
        BY DEF TypeOK
      <4> QED  BY <3>1, <4>1 DEF HitTask, Requests
    <3>2. \A p : Hit(p) \subseteq DOMAIN clients
      BY DEF Hit
    <3> QED  BY <2>1, <3>1, <3>2 DEF TypeOK
  <2>5. UNCHANGED <<list, need>>
    BY <1>7 DEF OnPress
  <2> QED  BY <2>2, <2>3, <2>4, <2>5 DEF TypeOK, server, screen, list
<1> QED  BY <1>3, <1>4, <1>5, <1>6, <1>7 DEF Drain

LEMMA TopTypes ==
  ASSUME TypeOK, Top
  PROVE  TypeOK'
<1>1. text' \in Texts
  BY DEF Top, TypeOK
<1>2. need' \in [layout : BOOLEAN, redraw : BOOLEAN, clock : BOOLEAN]
  <2>1. need' \in {Nothing, [Nothing EXCEPT !.clock = TRUE], Both(Nothing)}
    BY DEF Top
  <2>2. Nothing \in [layout : BOOLEAN, redraw : BOOLEAN, clock : BOOLEAN]
    BY DEF Nothing
  <2>3. [Nothing EXCEPT !.clock = TRUE] \in [layout : BOOLEAN, redraw : BOOLEAN, clock : BOOLEAN]
    BY <2>2
  <2>4. Both(Nothing) \in [layout : BOOLEAN, redraw : BOOLEAN, clock : BOOLEAN]
    BY <2>2 DEF Both
  <2> QED  BY <2>1, <2>2, <2>3, <2>4, Zenon
<1> QED  BY <1>1, <1>2 DEF Top, TypeOK, server, news, list

LEMMA FinishTypes ==
  ASSUME TypeOK, Finish
  PROVE  TypeOK'
<1>1. clients \in Seq(Windows) /\ Len(clients) <= MaxClients /\ MaxClients \in Nat
  BY TasksAssumption DEF TypeOK
<1>2. text' \in Texts /\ rects' \in [Places -> Nat]
  <2>1. text' \in Texts /\ rects' \in {LaidOut(Len(clients), Room[text']), rects}
    BY DEF Finish, Layout, TypeOK
  <2>2. Len(clients) \in Nat /\ Room[text'] \in Int
    BY <1>1, <2>1, RoomIsNumber
  <2> QED  BY <2>1, <2>2, LaidOutIsWidths DEF TypeOK
<1>3. /\ DOMAIN drawn' \subseteq Places /\ drawn' \in [DOMAIN drawn' -> Button]
      /\ said' \in Texts /\ undrawn' \subseteq {"time", "buttons"}
  <2>1. /\ drawn' \in {drawn, Buttons(clients, rects')} /\ said' \in {said, text'}
        /\ undrawn' \subseteq undrawn \union {"time", "buttons"}
    BY DEF Finish, Draw, Moved, Retimed
  <2>2. /\ DOMAIN Buttons(clients, rects') \subseteq Places
        /\ Buttons(clients, rects') \in [DOMAIN Buttons(clients, rects') -> Button]
    BY <1>1, <1>2, ButtonsAreButtons
  <2> QED  BY <1>2, <2>1, <2>2 DEF TypeOK
<1>4. wire' \in Seq(Event) /\ queue' \in Seq(Event)
  <2>1. UNCHANGED news \/ (queue' = queue \o wire /\ wire' = <<>>)
    BY DEF Finish
  <2> QED  BY <2>1, ReadingKeepsEvents DEF news, TypeOK
<1>5. pc' = "top" /\ UNCHANGED <<server, list, asked, menu, need>>
  BY DEF Finish
<1> QED  BY <1>2, <1>3, <1>4, <1>5 DEF TypeOK, server, list

LEMMA TypeKept ==
  ASSUME TypeOK, [Next]_vars
  PROVE  TypeOK'
<1>1. CASE Wake \/ Drained
  <2>1. pc' \in {"drain", "tail"}
    BY <1>1 DEF Wake, Drained
  <2> QED  BY <1>1, <2>1 DEF Wake, Drained, TypeOK, server, news, list, screen
<1>2. CASE UNCHANGED vars
  BY <1>2 DEF vars, TypeOK, server, news, list, screen
<1> QED
  BY <1>1, <1>2, OutsideTypes, DrainTypes, TopTypes, FinishTypes DEF Next, Loop

--------------------------------------------------------------------------------
(* The list and what is marked in it: a change is under way as an event until *)
(* the panel has asked for what changed.                                     *)

(* What neither the list nor the marks depend on. *)
LEMMA TellKeeps ==
  ASSUME TypeOK, ListCurrent, MarksCurrent, NEW e \in Event, Tell(e),
         UNCHANGED <<tasks, untold, list>>,
         active' = active \/ e.kind = "active"
  PROVE  ListCurrent' /\ MarksCurrent'
<1>1. \A k : Awaits(k)' <=> Awaits(k) \/ e.kind = k
  BY TellTells
<1>2. UNCHANGED <<tasks, untold, clients, marked, dropped>>
  BY DEF list
<1>3. ListCurrent'
  BY <1>1, <1>2 DEF ListCurrent
<1>4. MarksCurrent'
  <2>1. ~Awaits("active")' => active' = active
    BY <1>1
  <2> QED  BY <1>1, <1>2, <2>1 DEF MarksCurrent, Marks
<1> QED  BY <1>3, <1>4

LEMMA StillKeeps ==
  ASSUME ListCurrent, MarksCurrent, \A k : Awaits(k)' <=> Awaits(k),
         UNCHANGED <<tasks, untold, active, clients, marked, dropped>>
  PROVE  ListCurrent' /\ MarksCurrent'
  BY DEF ListCurrent, MarksCurrent, Marks

LEMMA OutsideKeepsList ==
  ASSUME TypeOK, ListCurrent, MarksCurrent, Outside
  PROVE  ListCurrent' /\ MarksCurrent'
<1>1. CASE TasksChange
  <2>1. untold' = TRUE /\ UNCHANGED <<active, wire, queue, clients, marked>>
    BY <1>1 DEF TasksChange, news, panel, list
  <2>2. \A k : Awaits(k)' <=> Awaits(k)
    BY <2>1 DEF Awaits
  <2> QED  BY <2>1, <2>2 DEF ListCurrent, MarksCurrent, Marks
<1>2. CASE TasksTold
  <2>1. Tell([kind |-> "list"]) /\ UNCHANGED <<tasks, active, clients, marked, dropped>>
    BY <1>2 DEF TasksTold, panel, list
  <2>2. \A k : Awaits(k)' <=> Awaits(k) \/ [kind |-> "list"].kind = k
    BY <2>1, EventTypes, TellTells
  <2>3. Awaits("list")' /\ (Awaits("active")' <=> Awaits("active"))
    BY <2>2
  <2> QED  BY <2>1, <2>3 DEF ListCurrent, MarksCurrent, Marks
<1>3. CASE ActiveChanges
  BY <1>3, EventTypes, TellKeeps DEF ActiveChanges, Activates, panel
<1>4. CASE Served
  <2>1. UNCHANGED <<tasks, untold, list>>
    BY <1>4 DEF Served
  <2>2. Tell([kind |-> "active"]) \/ UNCHANGED <<active, wire, queue>>
    BY <1>4 DEF Served, Activates, news
  <2>3. CASE Tell([kind |-> "active"])
    BY <2>1, <2>3, EventTypes, TellKeeps
  <2>4. CASE UNCHANGED <<active, wire, queue>>
    <3>1. \A k : Awaits(k)' <=> Awaits(k)
      BY <2>4 DEF Awaits
    <3> QED  BY <2>1, <2>4, <3>1, StillKeeps DEF list
  <2> QED  BY <2>2, <2>3, <2>4
<1>5. CASE Disturbed
  <2>1. PICK k \in {"expose", "configure"} : Tell([kind |-> k])
    BY <1>5 DEF Disturbed
  <2>2. UNCHANGED <<tasks, untold, active, list>>
    BY <1>5 DEF Disturbed, server, panel
  <2> QED  BY <2>1, <2>2, EventTypes, TellKeeps
<1>6. CASE Pressed
  <2>1. PICK p \in Spots \union {None} : Tell([kind |-> "press", at |-> p])
    BY <1>6 DEF Pressed
  <2>2. UNCHANGED <<tasks, untold, active, list>>
    BY <1>6 DEF Pressed, server, panel
  <2>3. [kind |-> "press", at |-> p] \in Event
    BY EventTypes
  <2> QED  BY <2>1, <2>2, <2>3, TellKeeps
<1>7. CASE ClockMoves \/ HoldEnds
  <2>1. UNCHANGED <<tasks, untold, active, wire, queue, clients, marked, dropped>>
    BY <1>7 DEF ClockMoves, HoldEnds, server, news, panel, list
  <2>2. \A k : Awaits(k)' <=> Awaits(k)
    BY <2>1 DEF Awaits
  <2> QED  BY <2>1, <2>2, StillKeeps
<1> QED  BY <1>1, <1>2, <1>3, <1>4, <1>5, <1>6, <1>7 DEF Outside

LEMMA DrainKeepsList ==
  ASSUME TypeOK, ListCurrent, MarksCurrent, Drain
  PROVE  ListCurrent' /\ MarksCurrent'
<1> DEFINE e == Head(Pending)
<1>1. Pending # <<>>
  BY DEF Drain
<1>2. ASSUME NEW t \in BOOLEAN, Handled(t)
      PROVE  /\ UNCHANGED <<tasks, untold, active>>
             /\ \A k : Awaits(k) <=> e.kind = k \/ Awaits(k)'
  BY <1>1, <1>2, HandledTakes DEF Handled, server
<1>3. CASE OnList(e)
  <2>1. /\ e.kind = "list" /\ UNCHANGED <<tasks, untold, active>>
        /\ \A k : Awaits(k) <=> e.kind = k \/ Awaits(k)'
    BY <1>2, <1>3 DEF OnList, TypeOK
  <2>2. CASE held
    <3>1. dropped' = TRUE /\ UNCHANGED <<clients, marked>>
      BY <1>3, <2>2 DEF OnList, UpdateClients
    <3> QED  BY <2>1, <3>1 DEF ListCurrent, MarksCurrent, Marks
  <2>3. CASE ~held
    <3>1. clients' = Listed(tasks) /\ marked' = Marks(Listed(tasks))
      BY <1>3, <2>3 DEF OnList, UpdateClients, Refresh
    <3>2. ListCurrent'
      BY <2>1, <3>1 DEF ListCurrent
    <3>3. MarksCurrent'
      BY <2>1, <3>1 DEF MarksCurrent, Marks
    <3> QED  BY <3>2, <3>3
  <2> QED  BY <2>2, <2>3
<1>4. CASE OnActive(e)
  <2>1. /\ e.kind = "active" /\ UNCHANGED <<tasks, untold, active, clients, dropped>>
        /\ \A k : Awaits(k) <=> e.kind = k \/ Awaits(k)'
        /\ marked' = Marks(clients)
    BY <1>2, <1>4 DEF OnActive
  <2>2. ListCurrent'
    BY <2>1 DEF ListCurrent
  <2>3. MarksCurrent'
    BY <2>1 DEF MarksCurrent, Marks
  <2> QED  BY <2>2, <2>3
<1>5. CASE OnExpose(e) \/ OnConfigure(e) \/ OnMenuPress(e) \/ OnPress(e)
  <2>1. \E t \in BOOLEAN : Handled(t)
    BY <1>5 DEF OnExpose, OnConfigure, OnMenuPress, OnPress
  <2>2. e.kind \notin {"list", "active"} /\ UNCHANGED list
    BY <1>5 DEF OnExpose, OnConfigure, OnMenuPress, OnPress
  <2>3. /\ UNCHANGED <<tasks, untold, active>>
        /\ \A k : Awaits(k) <=> e.kind = k \/ Awaits(k)'
    BY <1>2, <2>1
  <2>4. /\ UNCHANGED <<clients, marked, dropped>>
        /\ Awaits("list")' <=> Awaits("list")
        /\ Awaits("active")' <=> Awaits("active")
    BY <2>2, <2>3 DEF list
  <2> QED  BY <2>3, <2>4 DEF ListCurrent, MarksCurrent, Marks
<1> QED  BY <1>3, <1>4, <1>5 DEF Drain

LEMMA ListKept ==
  ASSUME TypeOK, ListCurrent, MarksCurrent, [Next]_vars
  PROVE  ListCurrent' /\ MarksCurrent'
<1>1. CASE Top \/ Wake \/ Drained \/ UNCHANGED vars
  <2>1. UNCHANGED <<tasks, untold, active, wire, queue, clients, marked, dropped>>
    BY <1>1 DEF Top, Wake, Drained, vars, server, news, list
  <2>2. \A k : Awaits(k)' <=> Awaits(k)
    BY <2>1 DEF Awaits
  <2> QED  BY <2>1, <2>2, StillKeeps
<1>2. CASE Finish
  <2>1. UNCHANGED <<tasks, untold, active, clients, marked, dropped>>
    BY <1>2 DEF Finish, server, list
  <2>2. UNCHANGED <<wire, queue>> \/ (queue' = queue \o wire /\ wire' = <<>>)
    BY <1>2 DEF Finish, news
  <2>3. \A k : Awaits(k)' <=> Awaits(k)
    BY <2>2, ReadingKeepsEvents DEF Awaits
  <2> QED  BY <2>1, <2>3, StillKeeps
<1> QED  BY <1>1, <1>2, OutsideKeepsList, DrainKeepsList DEF Next, Loop

--------------------------------------------------------------------------------
(* The screen. *)

LEMMA SameWidthsSameButtons ==
  ASSUME TypeOK, NEW r \in [Places -> Nat], \A i \in DOMAIN clients : r[i] = rects[i]
  PROVE  Buttons(clients, r) = Buttons(clients, rects)
<1>1. \A j \in Places : j <= Len(clients) => j \in DOMAIN clients
  BY DEF TypeOK, Places
<1>2. \A j \in Places : j <= Len(clients) => r[j] = rects[j]
  BY <1>1
<1>3. {j \in Places : j <= Len(clients) /\ r[j] # 0}
      = {j \in Places : j <= Len(clients) /\ rects[j] # 0}
  BY <1>2
<1> QED  BY <1>2, <1>3, Zenon DEF Buttons

(* A layout gives every client the rectangle it had, as long as the clock's   *)
(* text keeps its width: what is drawn stays right.                           *)
LEMMA LayoutKeepsButtons ==
  ASSUME TypeOK, Fits, NEW t \in Texts, Room[t] = Room[text]
  PROVE  Buttons(clients, LaidOut(Len(clients), Room[t])) = Buttons(clients, rects)
<1>1. Room[t] \in Int /\ Len(clients) \in Nat
  BY RoomIsNumber DEF TypeOK
<1>2. \A i \in DOMAIN clients : LaidOut(Len(clients), Room[t])[i] = rects[i]
  BY <1>1, LaidOutFits DEF Fits
<1>3. LaidOut(Len(clients), Room[t]) \in [Places -> Nat]
  BY <1>1, LaidOutIsWidths
<1> QED  BY <1>2, <1>3, SameWidthsSameButtons

LEMMA FinishDraws ==
  ASSUME TypeOK, AboutToDraw, Finish
  PROVE  AboutToDraw'
<1>1. /\ pc = "tail" /\ pc' = "top" /\ UNCHANGED <<clients, need>>
      /\ text' = (IF need.layout THEN wall ELSE text)
      /\ rects' = (IF need.layout THEN LaidOut(Len(clients), Room[text']) ELSE rects)
  BY DEF Finish, Layout, list
<1>2. text' \in Texts /\ Room[text'] \in Int
  BY <1>1, RoomIsNumber DEF TypeOK
<1>3. Fits'
  <2>1. CASE need.layout
    BY <1>1, <1>2, <2>1, LaidOutFits DEF Fits
  <2>2. CASE ~need.layout
    BY <1>1, <2>2 DEF AboutToDraw, Shown, Fits
  <2> QED  BY <2>1, <2>2
<1>4. Drawn'
  <2>1. CASE need.redraw
    <3>1. drawn' = Buttons(clients, rects')
      BY <2>1 DEF Finish, Draw
    <3> QED  BY <1>1, <3>1 DEF Drawn
  <2>2. CASE ~need.redraw
    <3>1. Shown
      BY <2>2 DEF AboutToDraw
    <3>2. /\ drawn' = drawn /\ Moved \subseteq undrawn'
          /\ "buttons" \in undrawn => "buttons" \in undrawn'
      BY <2>2 DEF Finish, Draw
    <3>3. CASE ~need.layout
      BY <1>1, <3>1, <3>2, <3>3 DEF Shown, Drawn
    <3>4. CASE need.layout /\ Room[text'] # Room[text]
      BY <3>2, <3>4 DEF Moved, Drawn
    <3>5. CASE need.layout /\ Room[text'] = Room[text]
      <4>1. Buttons(clients, rects') = Buttons(clients, rects)
        BY <1>1, <1>2, <3>1, <3>5, LayoutKeepsButtons DEF Shown
      <4> QED  BY <1>1, <3>1, <3>2, <4>1 DEF Shown, Drawn
    <3> QED  BY <3>3, <3>4, <3>5
  <2> QED  BY <2>1, <2>2
<1>5. said' = text' \/ "time" \in undrawn'
  <2>1. CASE need.redraw \/ need.clock
    BY <2>1 DEF Finish, Draw
  <2>2. CASE ~need.redraw /\ ~need.clock
    <3>1. said = text \/ "time" \in undrawn
      BY <1>1, <2>2 DEF AboutToDraw
    <3>2. said' = said /\ undrawn' = undrawn \union Moved \union Retimed
      BY <2>2 DEF Finish, Draw
    <3> QED  BY <3>1, <3>2 DEF Retimed
  <2> QED  BY <2>1, <2>2
<1> QED  BY <1>1, <1>3, <1>4, <1>5 DEF AboutToDraw, Shown

LEMMA DrainAsks ==
  ASSUME TypeOK, AboutToDraw, Drain
  PROVE  AboutToDraw'
<1> DEFINE e == Head(Pending)
<1>1. pc = "drain" /\ pc' = "drain" /\ UNCHANGED screen
  BY DEF Drain, OnList, OnActive, OnExpose, OnConfigure, OnMenuPress, OnPress, Handled
<1>2. CASE OnList(e)
  <2>1. need'.layout /\ need'.redraw
    BY <1>2 DEF OnList, Both, TypeOK
  <2> QED  BY <1>1, <2>1 DEF AboutToDraw, screen
<1>3. CASE OnActive(e) \/ OnExpose(e) \/ OnConfigure(e) \/ OnMenuPress(e) \/ OnPress(e)
  <2>1. clients' = clients
    BY <1>3 DEF OnActive, OnExpose, OnConfigure, OnMenuPress, OnPress, list
  <2>2. need' \in {need, [need EXCEPT !.redraw = TRUE], [need EXCEPT !.layout = TRUE]}
    BY <1>3 DEF OnActive, OnExpose, OnConfigure, OnMenuPress, OnPress
  <2>3. /\ need.layout => need'.layout
        /\ need.redraw => need'.redraw
        /\ need.clock => need'.clock
    BY <2>2 DEF TypeOK
  <2>4. Shown => Shown'
    BY <1>1, <2>1 DEF Shown, Drawn, Fits, screen
  <2> QED  BY <1>1, <2>3, <2>4 DEF AboutToDraw, screen
<1> QED  BY <1>2, <1>3 DEF Drain

LEMMA DrawingKept ==
  ASSUME TypeOK, AboutToDraw, [Next]_vars
  PROVE  AboutToDraw'
<1>1. CASE Outside \/ UNCHANGED vars
  <2>1. UNCHANGED <<clients, screen, need, pc>>
    BY <1>1 DEF Outside, TasksChange, TasksTold, ActiveChanges, Served, Disturbed, Pressed,
                ClockMoves, HoldEnds, panel, vars, list
  <2> QED  BY <2>1 DEF AboutToDraw, Shown, Drawn, Fits, screen
<1>2. CASE Top
  <2>1. /\ pc = "top" /\ pc' = "select" /\ UNCHANGED <<clients, rects, drawn, said, undrawn>>
    BY <1>2 DEF Top, list
  <2>2. text' = text \/ need'.clock \/ need'.redraw
    BY <1>2 DEF Top, Nothing, Both
  <2>3. Drawn' /\ Fits
    BY <2>1 DEF AboutToDraw, Shown, Drawn
  <2>4. Room[text'] = Room[text] \/ (need'.layout /\ need'.redraw)
    BY <1>2 DEF Top, Nothing, Both
  <2>5. Fits' \/ (need'.layout /\ need'.redraw)
    BY <2>1, <2>3, <2>4 DEF Fits
  <2> QED  BY <2>1, <2>2, <2>3, <2>5 DEF AboutToDraw, Shown
<1>3. CASE Wake \/ Drained
  <2>1. UNCHANGED <<clients, screen, need>> /\ pc' \in {"drain", "tail"} /\ pc # "top"
    BY <1>3 DEF Wake, Drained, list
  <2>2. Shown => Shown'
    BY <2>1 DEF Shown, Drawn, Fits, screen
  <2> QED  BY <2>1, <2>2 DEF AboutToDraw, screen
<1> QED  BY <1>1, <1>2, <1>3, DrainAsks, FinishDraws DEF Next, Loop

LEMMA ShownAtSelect == AboutToDraw => PictureMatches
<1> SUFFICES ASSUME AboutToDraw, pc = "select"
             PROVE  /\ Drawn
                    /\ need.layout \/ Fits
                    /\ said = text \/ need # Nothing \/ "time" \in undrawn
  BY DEF PictureMatches, Drawn, Fits
<1>1. need.redraw \/ need.clock => need # Nothing
  BY DEF Nothing
<1> QED  BY <1>1 DEF AboutToDraw, Shown

--------------------------------------------------------------------------------
(* The types, the list, the marks and what is due are an invariant, for every *)
(* number of windows, of places and of events under way (the panel's loop).   *)
THEOREM Invariance == Spec => []IInv
<1>1. Init => IInv
  <2> SUFFICES ASSUME Init
               PROVE  IInv
    OBVIOUS
  <2>1. TypeOK
    BY InitTypes
  <2>2. Listed(<<>>) = <<>> /\ Marks(<<>>) = {}
    BY TasksAssumption DEF Listed, Marks, In
  <2>3. ListCurrent /\ MarksCurrent
    BY <2>2 DEF Init, ListCurrent, MarksCurrent
  <2>4. Buttons(<<>>, rects) = <<>>
    <3>1. {j \in Places : j <= Len(<<>>) /\ rects[j] # 0} = {}
      BY DEF Places
    <3> QED  BY <3>1 DEF Buttons
  <2>5. AboutToDraw
    BY <2>4 DEF Init, AboutToDraw, Shown, Drawn, Fits
  <2> QED  BY <2>1, <2>3, <2>5 DEF IInv
<1>2. IInv /\ [Next]_vars => IInv'
  BY TypeKept, ListKept, DrawingKept DEF IInv
<1> QED  BY <1>1, <1>2, PTL DEF Spec

(* The panel's state has its types (struct ClientItem, task_rects).           *)
THEOREM TypeCorrect == Spec => []TypeOK
  BY Invariance, PTL DEF IInv

(* The list is the window manager's, unless news of a change is under way or  *)
(* a refresh was refused (update_clients, tasklist_update_clients).          *)
THEOREM ListIsCurrent == Spec => []ListCurrent
  BY Invariance, PTL DEF IInv

(* A press on a button means iconify for the active window and for no other,  *)
(* once the news of a change has been read (tasklist_update_active).         *)
THEOREM MarksAreCurrent == Spec => []MarksCurrent
  BY Invariance, PTL DEF IInv

(* The panel never waits for events with a picture whose buttons are not      *)
(* those of its clients, where a press is looked for, unless a layout moved   *)
(* them with the clock's text and drew nothing (the loop of main,             *)
(* update_layout, redraw, redraw_clock_only).                                *)
THEOREM PictureIsRight == Spec => []PictureMatches
  BY Invariance, ShownAtSelect, PTL DEF IInv
================================================================================
