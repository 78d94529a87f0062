--------------------------- MODULE DockAutohideProofs ---------------------------
(****************************************************************************)
(* Proofs about the dock's event loop for all delays and any number of       *)
(* unprocessed events: the types and ranges, and the stacking.               *)
(****************************************************************************)
EXTENDS DockAutohide, TLAPS

IInv == TypeOK /\ StackFollows

(* The assumption, constant by constant. *)
LEMMA Delays ==
  /\ HideDelay \in Nat \ {0} /\ ToggleGap \in Nat \ {0} /\ ClickHold \in Nat \ {0}
  /\ LongHold \in Nat \ {0} /\ PopupTime \in Nat \ {0} /\ ClickHold <= LongHold
BY DelayAssumption

(* What a menu that is hidden leaves of the stacking, whatever was there.     *)
LEMMA MenuHideStacks ==
  ASSUME IInv
  PROVE  /\ MenuHide.above \in BOOLEAN /\ MenuHide.raiseIn \in Unset..PopupTime
         /\ hidden => ~MenuHide.above
         /\ ~hidden /\ MenuHide.raiseIn = Unset => MenuHide.above
<1>1. MenuHide.above = (above \/ (menu /\ ~hidden))
  BY DEF MenuHide
<1>2. MenuHide.raiseIn = IF menu THEN Unset ELSE raiseIn
  BY DEF MenuHide
<1>3. MenuHide.raiseIn \in Unset..PopupTime
  BY <1>2, Delays DEF IInv, TypeOK, Unset
<1>4. MenuHide.above \in BOOLEAN /\ (hidden => ~MenuHide.above)
  BY <1>1 DEF IInv, TypeOK, StackFollows
<1>5. ~hidden /\ MenuHide.raiseIn = Unset => MenuHide.above
  BY <1>1, <1>2 DEF IInv, TypeOK, StackFollows
<1> QED BY <1>3, <1>4, <1>5

(* Every answer of a tray item keeps the stacking that of the dock's place.   *)
LEMMA AnswerStacks ==
  ASSUME IInv, NEW kept \in 0..LongHold, Activation(kept), hidden' = hidden
  PROVE  /\ menu' \in BOOLEAN /\ above' \in BOOLEAN
         /\ suppress' \in 0..LongHold /\ raiseIn' \in Unset..PopupTime
         /\ StackFollows'
<1>1. LongHold \in 0..LongHold /\ PopupTime \in Nat \ {0}
  BY Delays
<1>2. Longer(MenuHide.raiseIn, PopupTime) = PopupTime
  BY <1>1, MenuHideStacks DEF Longer, Unset
<1>3. PopupTime \in Unset..PopupTime /\ PopupTime # Unset
  BY <1>1 DEF Unset
<1>4. menu' \in BOOLEAN /\ suppress' \in 0..LongHold
  BY <1>1, Zenon DEF Activation, Answer, OpenMenu, NoMenu
<1>5. CASE StayInFront
  BY <1>4, <1>5, MenuHideStacks DEF StayInFront, StackFollows
<1>6. CASE ~hidden /\ above' = FALSE /\ raiseIn' = PopupTime
  BY <1>3, <1>4, <1>6 DEF StackFollows
<1>7. StayInFront \/ (~hidden /\ above' = FALSE /\ raiseIn' = PopupTime)
  BY <1>2, Zenon DEF Activation, Answer, MakeRoom
<1> QED BY <1>5, <1>6, <1>7

LEMMA InitHolds == Init => IInv
<1> SUFFICES ASSUME Init PROVE IInv
  OBVIOUS
<1>1. socket \in Seq(Kinds) /\ queue \in Seq(Kinds)
  BY DEF Init
<1>2. /\ hideIn \in Unset..HideDelay /\ suppress \in 0..LongHold
      /\ toggled \in 0..ToggleGap /\ raiseIn \in Unset..PopupTime
  BY Delays DEF Init, Unset
<1> QED BY <1>1, <1>2 DEF Init, IInv, TypeOK, StackFollows

(* What is appended to the socket is an event. *)
LEMMA SendsEvents ==
  ASSUME IInv, NEW e \in Kinds
  PROVE  Append(socket, e) \in Seq(Kinds)
BY DEF IInv, TypeOK

LEMMA TickHolds == IInv /\ Tick => IInv'
<1> SUFFICES ASSUME IInv, Tick PROVE IInv'
  OBVIOUS
<1>1. /\ hideIn' \in Unset..HideDelay /\ suppress' \in 0..LongHold
      /\ toggled' \in 0..ToggleGap /\ raiseIn' \in Unset..PopupTime
      /\ raiseIn' = Unset => raiseIn = Unset
  BY Delays DEF Tick, Down, IInv, TypeOK, Unset
<1> QED BY <1>1 DEF IInv, TypeOK, StackFollows, Tick, user, input, look

LEMMA UserHolds == IInv /\ User => IInv'
<1> SUFFICES ASSUME IInv, User PROVE IInv'
  OBVIOUS
<1>1. socket' \in Seq(Kinds)
  BY SendsEvents DEF User, Enter, Leave, Click, Other, Sends, Kinds, IInv, TypeOK
<1>2. over' \in BOOLEAN /\ held' \in {"none", "left", "right"}
  BY DEF User, Enter, Leave, Click, Other, IInv, TypeOK, user
<1>3. UNCHANGED <<pc, queue, look, timers, redraw>>
  BY DEF User, Enter, Leave, Click, Other
<1> QED BY <1>1, <1>2, <1>3 DEF IInv, TypeOK, StackFollows, look, timers

LEMMA WaitHolds == IInv /\ (Arm \/ Wake \/ WakeByBus) => IInv'
<1> SUFFICES ASSUME IInv, Arm \/ Wake \/ WakeByBus PROVE IInv'
  OBVIOUS
<1>1. CASE Arm
  <2>1. UNCHANGED <<user, input, hidden, menu, hideIn, suppress, toggled>> /\ pc' = "poll"
    BY <1>1 DEF Arm
  <2>2. CASE raiseIn = 0
    <3>1. raiseIn' \in Unset..PopupTime
      BY <1>1, <2>2, Delays DEF Arm, Unset
    <3>2. above' \in BOOLEAN /\ redraw' \in BOOLEAN
      BY <1>1, <2>2 DEF Arm, IInv, TypeOK
    <3>3. StackFollows'
      BY <1>1, <2>1, <2>2 DEF Arm, IInv, StackFollows
    <3> QED BY <2>1, <3>1, <3>2, <3>3 DEF IInv, TypeOK, user, input
  <2>3. CASE raiseIn # 0
    BY <1>1, <2>1, <2>3 DEF Arm, IInv, TypeOK, StackFollows, user, input
  <2> QED BY <2>2, <2>3
<1>2. CASE Wake \/ WakeByBus
  <2>1. redraw' \in BOOLEAN
    BY <1>2 DEF Wake, WakeByBus, IInv, TypeOK
  <2> QED BY <1>2, <2>1
          DEF Wake, WakeByBus, IInv, TypeOK, StackFollows, user, input, look, timers
<1> QED BY <1>1, <1>2

(* The handlers of events, which take one from the queue. *)
LEMMA ProcessHolds == IInv /\ Process => IInv'
<1> SUFFICES ASSUME IInv, Process PROVE IInv'
  OBVIOUS
<1>1. ASSUME NEW e, Takes(e)
      PROVE  queue' \in Seq(Kinds)
  BY <1>1 DEF Takes, IInv, TypeOK
<1>2. CASE Read \/ Drained
  BY <1>2 DEF Read, Drained, IInv, TypeOK, StackFollows, user, input, look, timers
<1>3. CASE OnStrip
  <2>1. queue' \in Seq(Kinds) /\ UNCHANGED <<pc, user, menu, suppress, raiseIn>>
    BY <1>1, <1>3 DEF OnStrip
  <2>2. CASE ShowDock
    <3>1. socket' \in Seq(Kinds)
      BY <2>2, SendsEvents DEF ShowDock, Kinds, IInv, TypeOK
    <3>2. hideIn' \in Unset..HideDelay /\ toggled' \in 0..ToggleGap
      BY <2>2, Delays DEF ShowDock, Unset
    <3> QED BY <2>1, <2>2, <3>1, <3>2 DEF ShowDock, IInv, TypeOK, StackFollows, user
  <2>3. CASE UNCHANGED <<hidden, above, hideIn, toggled, redraw, socket>>
    BY <2>1, <2>3 DEF IInv, TypeOK, StackFollows, user
  <2> QED BY <1>3, <2>2, <2>3 DEF OnStrip
<1>4. CASE OnEnter \/ OnLeave
  <2>1. queue' \in Seq(Kinds)
    BY <1>1, <1>4 DEF OnEnter, OnLeave
  <2>2. hideIn' \in Unset..HideDelay
    BY <1>4, Delays DEF OnEnter, OnLeave, IInv, TypeOK, Unset
  <2> QED BY <1>4, <2>1, <2>2
          DEF OnEnter, OnLeave, IInv, TypeOK, StackFollows, user, look
<1>5. ClickHold \in 0..LongHold /\ Unset \in Unset..HideDelay
  BY Delays DEF Unset
<1>6. (redraw \/ menu) \in BOOLEAN
  OBVIOUS
<1>7. CASE OnPress
  <2>1. queue' \in Seq(Kinds) /\ hideIn' = Unset /\ redraw' \in BOOLEAN
        /\ UNCHANGED <<pc, user, socket, hidden, toggled>>
    BY <1>1, <1>6, <1>7 DEF OnPress
  <2>2. /\ menu' \in BOOLEAN /\ above' \in BOOLEAN
        /\ suppress' \in 0..LongHold /\ raiseIn' \in Unset..PopupTime /\ StackFollows'
    <3>1. CASE Answer(ClickHold)
      <4>1. Activation(ClickHold)
        BY <3>1, Zenon DEF Activation
      <4> QED BY <1>5, <2>1, <4>1, AnswerStacks
    <3>2. CASE NoMenu(ClickHold) /\ StayInFront
      BY <1>5, <2>1, <3>2, MenuHideStacks DEF NoMenu, StayInFront, StackFollows
    <3> QED BY <1>7, <3>1, <3>2 DEF OnPress
  <2> QED BY <1>5, <2>1, <2>2 DEF IInv, TypeOK, user
<1>8. CASE OnRelease
  <2>1. queue' \in Seq(Kinds) /\ UNCHANGED <<pc, user, socket, hidden, hideIn, toggled>>
    BY <1>1, <1>8 DEF OnRelease
  <2>2. CASE Activation(ClickHold) /\ redraw' = (redraw \/ menu)
    <3>1. /\ menu' \in BOOLEAN /\ above' \in BOOLEAN
          /\ suppress' \in 0..LongHold /\ raiseIn' \in Unset..PopupTime /\ StackFollows'
      BY <1>5, <2>1, <2>2, AnswerStacks
    <3>2. redraw' \in BOOLEAN
      BY <1>6, <2>2
    <3> QED BY <2>1, <3>1, <3>2 DEF IInv, TypeOK, user
  <2>3. CASE suppress' = ClickHold /\ UNCHANGED <<menu, above, raiseIn, redraw>>
    BY <1>5, <2>1, <2>3 DEF IInv, TypeOK, StackFollows, user
  <2> QED BY <1>8, <2>2, <2>3 DEF OnRelease
<1>9. CASE OnMenuPress
  <2>1. queue' \in Seq(Kinds) /\ UNCHANGED <<pc, user, socket, hidden, hideIn, toggled>>
        /\ redraw' \in BOOLEAN
    BY <1>1, <1>9 DEF OnMenuPress, IInv, TypeOK
  <2>2. /\ menu' \in BOOLEAN /\ above' \in BOOLEAN
        /\ suppress' \in 0..LongHold /\ raiseIn' \in Unset..PopupTime /\ StackFollows'
    <3>1. CASE Activation(suppress)
      BY <2>1, <3>1, AnswerStacks DEF IInv, TypeOK
    <3>2. CASE NoMenu(ClickHold) /\ StayInFront
      BY <1>5, <2>1, <3>2, MenuHideStacks DEF NoMenu, StayInFront, StackFollows
    <3> QED BY <1>9, <3>1, <3>2 DEF OnMenuPress
  <2> QED BY <2>1, <2>2 DEF IInv, TypeOK, user
<1>10. CASE OnObscured
  <2>1. queue' \in Seq(Kinds)
    BY <1>1, <1>10 DEF OnObscured
  <2>2. above' \in BOOLEAN /\ (hidden => above' = above) /\ (above => above')
    BY <1>10 DEF OnObscured, IInv, TypeOK
  <2> QED BY <1>10, <2>1, <2>2
          DEF OnObscured, IInv, TypeOK, StackFollows, user, timers
<1> QED BY <1>2, <1>3, <1>4, <1>7, <1>8, <1>9, <1>10 DEF Process

LEMMA AutohideHolds == IInv /\ Autohide => IInv'
<1> SUFFICES ASSUME IInv, Autohide PROVE IInv'
  OBVIOUS
<1>1. queue \o socket \in Seq(Kinds) /\ \A S : <<>> \in Seq(S)
  BY DEF IInv, TypeOK
<1>2. queue' \in Seq(Kinds) /\ socket' \in Seq(Kinds)
  BY <1>1 DEF Autohide, TailHeld, TailUnderPointer, TailWaits, HideDock, NotifyPanel,
              RoundTrip, input, IInv, TypeOK
<1>3. hideIn' \in Unset..HideDelay /\ toggled' \in 0..ToggleGap
  BY Delays DEF Autohide, TailHeld, TailUnderPointer, TailWaits, HideDock,
              NotifyPanel, timers, IInv, TypeOK, Unset
<1>4. CASE HideDock
  BY <1>2, <1>3, <1>4 DEF HideDock, Watching, IInv, TypeOK, StackFollows, user
<1>5. CASE TailHeld \/ TailUnderPointer \/ TailWaits \/ NotifyPanel
  <2>1. redraw' \in BOOLEAN /\ UNCHANGED <<user, look, suppress, raiseIn>> /\ pc' = "arm"
    BY <1>5 DEF TailHeld, TailUnderPointer, TailWaits, NotifyPanel, timers, IInv, TypeOK
  <2> QED BY <1>2, <1>3, <2>1 DEF IInv, TypeOK, StackFollows, user, look
<1> QED BY <1>4, <1>5 DEF Autohide

LEMMA StepHolds == IInv /\ [Next]_vars => IInv'
<1>1. IInv /\ UNCHANGED vars => IInv'
  BY DEF IInv, TypeOK, StackFollows, vars
<1> QED BY <1>1, TickHolds, UserHolds, WaitHolds, ProcessHolds, AutohideHolds DEF Next

(* The types and the stacking together are inductive. *)
THEOREM Invariance == Spec => []IInv
BY InitHolds, StepHolds, PTL DEF Spec

(* Timers stay in their ranges, and what is read are events. *)
THEOREM TypeCorrect == Spec => []TypeOK
<1>1. IInv => TypeOK
  BY DEF IInv
<1> QED BY <1>1, Invariance, PTL

(* A hidden dock is not raised, and a shown one is in front once its popup    *)
(* and its menu are gone.                                                    *)
THEOREM Stacking == Spec => []StackFollows
<1>1. IInv => StackFollows
  BY DEF IInv
<1> QED BY <1>1, Invariance, PTL
================================================================================
