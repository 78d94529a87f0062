---------------------------- MODULE DockReloadProofs ----------------------------
(****************************************************************************)
(* Proofs about the reload of docks, for any number of them: the types, that *)
(* news of an edit is under way until the code drops it, that no request is  *)
(* forgotten, and that two docks run together only if one is astray.         *)
(****************************************************************************)
EXTENDS DockReload, FiniteSetTheorems, TLAPS

PCs == {"off", "load", "init"} \cup Looping

Threads == {"none", "unlink", "bind", "listen", "accept"}

Told == TypeOK /\ NewsIsUnderWay /\ NoRequestForgotten

(* A dock that does not run has no thread.                                    *)
ThreadsOfDocks == \A d \in Docks : ~Runs(d) => thread[d] = "none"

(* A dock that is not astray has its thread, and the path once it is bound;   *)
(* no other thread is on the way to take the path, and no other dock runs     *)
(* but strays: so one that is started later finds it.                         *)
FoundByOthers ==
  \A d \in Docks : Runs(d) /\ d \notin astray =>
    /\ thread[d] # "none"
    /\ thread[d] \in {"listen", "accept"} => path = d
    /\ \A e \in Docks \ {d} : e \notin Rising /\ (Runs(e) => e \in astray)

Alone == ThreadsOfDocks /\ FoundByOthers

IInv == Told /\ Alone

--------------------------------------------------------------------------------
(* What is told to the docks: each step of a dock changes its own part. *)

LEMMA InitHolds == Init => IInv
<1> SUFFICES ASSUME Init PROVE IInv
  OBVIOUS
<1>1. Told
  BY DEF Init, Told, TypeOK, NewsIsUnderWay, NoRequestForgotten, Looping
<1>2. \A d \in Docks : ~Runs(d) /\ thread[d] = "none"
  BY DEF Init, Runs
<1> QED BY <1>1, <1>2 DEF IInv, Alone, ThreadsOfDocks, FoundByOthers

LEMMA StillTold == Told /\ UNCHANGED vars => Told'
BY DEF vars, Told, TypeOK, NewsIsUnderWay, NoRequestForgotten

LEMMA ListeningIsDock ==
  ASSUME TypeOK, Listening # None
  PROVE  Listening \in Docks /\ thread[Listening] = "accept" /\ path = Listening
BY DEF Listening, TypeOK

LEMMA SettingsTell == Told /\ SettingsNext => Told'
<1> SUFFICES ASSUME Told, SettingsNext PROVE Told'
  OBVIOUS
<1>1. Started \subseteq Docks
  BY DEF Started
<1>2. CASE Edit
  BY <1>1, <1>2 DEF Edit, Told, TypeOK, NewsIsUnderWay, NoRequestForgotten, ipc, history
<1>3. CASE EditFails
  BY <1>1, <1>3 DEF EditFails, Unaware, Told, TypeOK, NewsIsUnderWay, NoRequestForgotten, ipc
<1>4. CASE Notify
  <2>1. waiting' \in SUBSET Docks /\ waiting \subseteq waiting'
    BY <1>4, ListeningIsDock DEF Notify, SendReload, Told, TypeOK
  <2>2. /\ untold' \in SUBSET behind
        /\ \A d \in behind : d \in untold' \/ d \in waiting' \/ d \notin Unaware
    BY <1>4 DEF Notify, SendReload, Told, TypeOK
  <2> QED BY <1>4, <2>1, <2>2
          DEF Notify, Unaware, Told, TypeOK, NewsIsUnderWay, NoRequestForgotten
<1>5. CASE Quit
  BY <1>5 DEF Quit, Unaware, Told, TypeOK, NewsIsUnderWay, NoRequestForgotten, ipc, news
<1> QED BY <1>2, <1>3, <1>4, <1>5 DEF SettingsNext

(* A dock that goes on without loading and without its flag had no news to act *)
(* on.                                                                        *)
LEMMA GoneOn ==
  ASSUME Told, NEW d \in Docks, NEW p \in PCs,
         pc' = [pc EXCEPT ![d] = p], pc[d] \notin {"load", "reload"},
         UNCHANGED <<timer, flag, waiting, news, untold>>
  PROVE  pc' \in [Docks -> PCs] /\ NewsIsUnderWay' /\ NoRequestForgotten'
BY DEF Told, TypeOK, NewsIsUnderWay, NoRequestForgotten, PCs, news

(* A load shows a dock everything; one that fails leaves it untold, or with   *)
(* other news to come.  Either way nothing more is owed, whatever it does next. *)
LEMMA LoadTells ==
  ASSUME Told, NEW d \in Docks, NEW p \in PCs, pc' = [pc EXCEPT ![d] = p],
         Load(d), UNCHANGED <<timer, flag, waiting>>
  PROVE  /\ pc' \in [Docks -> PCs] /\ NewsIsUnderWay' /\ NoRequestForgotten'
         /\ behind' \in SUBSET Docks /\ owed' \in SUBSET behind' /\ untold' \in SUBSET behind'
BY DEF Load, Forget, Told, TypeOK, NewsIsUnderWay, NoRequestForgotten, PCs

LEMMA StartTells == ASSUME Told, NEW d \in Docks, StartNext(d) PROVE Told'
<1>1. {"off", "load", "init", "check"} \subseteq PCs /\ PCs \ {"load"} \subseteq PCs
  BY DEF PCs, Looping
<1>2. CASE ProbeFinds(d)
  <2>1. waiting' \in SUBSET Docks /\ waiting \subseteq waiting' /\ Listening \in waiting'
    BY <1>2, ListeningIsDock DEF ProbeFinds, SendReload, Told, TypeOK
  <2> QED BY <1>2, <2>1 DEF ProbeFinds, Told, TypeOK, NewsIsUnderWay, NoRequestForgotten
<1>3. CASE ProbeFindsNone(d) \/ ProbePassesOver(d)
  <2>1. pc[d] = "off" /\ pc' = [pc EXCEPT ![d] = "load"]
        /\ UNCHANGED <<timer, flag, waiting, path, behind, owed, untold>>
    BY <1>3 DEF ProbeFindsNone, ProbePassesOver, Goto, news
  <2>2. pc' \in [Docks -> PCs] /\ NewsIsUnderWay' /\ NoRequestForgotten'
    BY <1>1, <2>1, GoneOn DEF news
  <2>3. astray' \in SUBSET Docks /\ thread' \in [Docks -> Threads]
    BY <1>3, ListeningIsDock
       DEF ProbeFindsNone, ProbePassesOver, StartThread, Rising, Told, TypeOK, Threads
  <2> QED BY <2>1, <2>2, <2>3 DEF Told, TypeOK, PCs, Threads
<1>4. CASE LoadLaunchers(d)
  <2>1. /\ pc' \in [Docks -> PCs] /\ NewsIsUnderWay' /\ NoRequestForgotten'
        /\ behind' \in SUBSET Docks /\ owed' \in SUBSET behind' /\ untold' \in SUBSET behind'
    BY <1>1, <1>4, LoadTells DEF LoadLaunchers, Goto, ipc
  <2> QED BY <1>4, <2>1 DEF LoadLaunchers, Told, TypeOK, PCs, ipc
<1>5. CASE StartLoop(d)
  <2>1. pc' \in [Docks -> PCs] /\ NewsIsUnderWay' /\ NoRequestForgotten'
    BY <1>1, <1>5, GoneOn DEF StartLoop, Goto, ipc, history
  <2> QED BY <1>5, <2>1 DEF StartLoop, Told, TypeOK, PCs, ipc, news, history
<1>6. CASE Die(d)
  <2>1. /\ thread' \in [Docks -> Threads] /\ flag' \in [Docks -> BOOLEAN]
        /\ pc' \in [Docks -> PCs]
        /\ \A e \in Docks \ {d} : flag'[e] = flag[e] /\ pc'[e] = pc[e]
    BY <1>1, <1>6 DEF Die, Told, TypeOK, PCs, Threads
  <2> QED BY <1>6, <2>1 DEF Die, Forget, Told, TypeOK, NewsIsUnderWay, NoRequestForgotten,
                            PCs, Threads
<1> QED BY <1>2, <1>3, <1>4, <1>5, <1>6 DEF StartNext

LEMMA ThreadTells == ASSUME Told, NEW d \in Docks, ThreadNext(d) PROVE Told'
<1>1. CASE Unlink(d) \/ Bind(d) \/ Listen(d)
  <2>1. thread' \in [Docks -> Threads] /\ path' \in Docks \cup {None} /\ astray' \in SUBSET Docks
    BY <1>1 DEF Unlink, Bind, Listen, GiveUp, Told, TypeOK, Threads
  <2>2. UNCHANGED <<timer, waiting, pc, flag, behind, owed, untold>>
    BY <1>1 DEF Unlink, Bind, Listen, news
  <2> QED BY <2>1, <2>2 DEF Told, TypeOK, NewsIsUnderWay, NoRequestForgotten, Threads
<1>2. CASE Accept(d)
  <2>1. /\ flag' \in [Docks -> BOOLEAN] /\ flag'[d] /\ \A e \in Docks \ {d} : flag'[e] = flag[e]
    BY <1>2 DEF Accept, Told, TypeOK
  <2>2. NoRequestForgotten' /\ NewsIsUnderWay'
    BY <1>2, <2>1 DEF Accept, Told, TypeOK, NoRequestForgotten, NewsIsUnderWay, history
  <2> QED BY <1>2, <2>1, <2>2 DEF Accept, Told, TypeOK, history
<1> QED BY <1>1, <1>2 DEF ThreadNext

LEMMA LoopTells == ASSUME Told, NEW d \in Docks, LoopNext(d) \/ Wake(d) \/ Hup(d) PROVE Told'
<1>1. Looping \subseteq PCs
  BY DEF PCs
<1>2. CASE Check(d)
  <2>1. /\ flag' \in [Docks -> BOOLEAN] /\ pc' \in [Docks -> PCs]
    BY <1>2 DEF Check, Told, TypeOK, PCs, Looping
  <2>2. /\ ~flag[d] => pc' = [pc EXCEPT ![d] = "arm"] /\ flag' = flag
        /\ flag[d] => pc'[d] = "reload"
        /\ \A e \in Docks \ {d} : flag'[e] = flag[e] /\ pc'[e] = pc[e]
        /\ pc[d] = "check"
    BY <1>2 DEF Check, Told, TypeOK
  <2>3. NoRequestForgotten' /\ NewsIsUnderWay'
    BY <1>2, <2>2 DEF Check, Told, TypeOK, NoRequestForgotten, NewsIsUnderWay, news, ipc, history
  <2> QED BY <1>2, <2>1, <2>3 DEF Check, Told, TypeOK, PCs, ipc, news, history
<1>3. CASE Reload(d)
  <2>1. /\ pc' \in [Docks -> PCs] /\ NewsIsUnderWay' /\ NoRequestForgotten'
        /\ behind' \in SUBSET Docks /\ owed' \in SUBSET behind' /\ untold' \in SUBSET behind'
    BY <1>1, <1>3, LoadTells DEF Reload, Goto, Looping, ipc
  <2> QED BY <1>3, <2>1 DEF Reload, Told, TypeOK, PCs, ipc
<1>4. CASE Block(d) \/ Wake(d) \/ Serve(d)
  <2>1. pc' \in [Docks -> PCs] /\ NewsIsUnderWay' /\ NoRequestForgotten'
    BY <1>1, <1>4, GoneOn DEF Block, Wake, Serve, Goto, Looping, ipc, history
  <2> QED BY <1>4, <2>1 DEF Block, Wake, Serve, Told, TypeOK, PCs, ipc, news, history
<1>5. CASE Hup(d)
  <2>1. /\ flag' \in [Docks -> BOOLEAN] /\ flag'[d] /\ \A e \in Docks \ {d} : flag'[e] = flag[e]
        /\ pc' \in [Docks -> PCs] /\ \A e \in Docks \ {d} : pc'[e] = pc[e]
    BY <1>5 DEF Hup, Told, TypeOK, PCs, Looping
  <2>2. NoRequestForgotten' /\ NewsIsUnderWay'
    BY <1>5, <2>1 DEF Hup, Told, TypeOK, NoRequestForgotten, NewsIsUnderWay, ipc
  <2> QED BY <1>5, <2>1, <2>2 DEF Hup, Told, TypeOK, PCs, ipc
<1> QED BY <1>2, <1>3, <1>4, <1>5 DEF LoopNext

--------------------------------------------------------------------------------
(* Which docks run. *)

(* A step in which no dock begins or ends and no thread takes one. *)
LEMMA AloneStays ==
  ASSUME Alone, UNCHANGED <<path, thread, astray>>,
         \A d \in Docks : Runs(d)' <=> Runs(d)
  PROVE  Alone'
BY DEF Alone, ThreadsOfDocks, FoundByOthers, Rising

(* A dock that is started: those that run and are not astray listened, so     *)
(* that it passed over them, or shared the start with the risers.             *)
LEMMA StartKeepsAlone ==
  ASSUME Told, Alone, NEW d \in Docks, ProbeFindsNone(d) \/ ProbePassesOver(d)
  PROVE  Alone'
<1> DEFINE P == IF Listening = None THEN {} ELSE {Listening}
<1>1. /\ pc \in [Docks -> PCs] /\ thread \in [Docks -> Threads] /\ None \notin Docks
  BY NoneAssumption DEF Told, TypeOK, PCs, Threads
<1>2. /\ Runs(d)' /\ ~Runs(d) /\ thread'[d] = "unlink" /\ path' = path
      /\ \A e \in Docks \ {d} : (Runs(e)' <=> Runs(e)) /\ thread'[e] = thread[e]
      /\ astray' = astray \cup P \cup Rising \cup {e \in {d} : Rising # {}}
  BY <1>1 DEF ProbeFindsNone, ProbePassesOver, StartThread, Goto, Runs
<1>3. ThreadsOfDocks'
  BY <1>2 DEF Alone, ThreadsOfDocks
<1>4. ASSUME NEW e \in Docks \ {d}, Runs(e), e \notin astray' PROVE FALSE
  <2>1. e \notin astray /\ e \notin P /\ e \notin Rising
    BY <1>2, <1>4
  <2>2. thread[e] = "accept" /\ path = e
    BY <1>1, <1>4, <2>1 DEF Alone, FoundByOthers, Rising, Threads
  <2>3. Listening = e
    BY <1>1, <2>2 DEF Listening
  <2> QED BY <1>1, <2>1, <2>3
<1>5. d \notin astray' => Rising = {}
  BY <1>2
<1>6. \A e \in Docks \ {d} : e \in Rising' => e \in Rising
  BY <1>2 DEF Rising
<1> QED BY <1>2, <1>3, <1>4, <1>5, <1>6 DEF Alone, FoundByOthers

(* Only a thread that rises touches the path: while it does no other dock is   *)
(* there that has a path to lose, but strays.                                 *)
LEMMA ThreadKeepsAlone ==
  ASSUME Told, Alone, NEW d \in Docks, ThreadNext(d)
  PROVE  Alone'
<1>1. /\ pc \in [Docks -> PCs] /\ thread \in [Docks -> Threads] /\ None \notin Docks
  BY NoneAssumption DEF Told, TypeOK, PCs, Threads
<1>2. CASE Accept(d)
  <2>1. UNCHANGED <<path, thread, astray, pc>>
    BY <1>2 DEF Accept, history
  <2> QED BY <2>1, AloneStays DEF Runs
<1>3. CASE Unlink(d) \/ Bind(d) \/ Listen(d)
  <2>1. /\ pc' = pc /\ d \in Rising /\ thread[d] # "none"
        /\ astray \subseteq astray'
        /\ \A e \in Docks \ {d} : thread'[e] = thread[e]
    BY <1>1, <1>3 DEF Unlink, Bind, Listen, GiveUp, Rising
  <2>2. Runs(d) /\ \A e \in Docks : Runs(e)' <=> Runs(e)
    BY <2>1 DEF Runs, Alone, ThreadsOfDocks
  <2>3. ThreadsOfDocks'
    BY <2>1, <2>2 DEF Alone, ThreadsOfDocks
  <2>4. \A e \in Docks \ {d} : Runs(e) => e \in astray
    BY <2>1 DEF Alone, FoundByOthers
  <2>5. d \notin astray' =>
          thread'[d] # "none" /\ (thread'[d] \in {"listen", "accept"} => path' = d)
    BY <1>1, <1>3, <2>2 DEF Unlink, Bind, Listen, GiveUp, Alone, FoundByOthers
  <2>6. d \notin astray' => \A e \in Docks \ {d} : e \notin Rising'
    <3>1. d \notin astray' => \A e \in Docks \ {d} : e \notin Rising
      BY <2>1, <2>2 DEF Alone, FoundByOthers
    <3> QED BY <2>1, <3>1 DEF Rising
  <2> QED BY <2>1, <2>2, <2>3, <2>4, <2>5, <2>6 DEF Alone, FoundByOthers
<1> QED BY <1>2, <1>3 DEF ThreadNext

LEMMA StepKeepsAlone ==
  ASSUME Told, Alone, NEW d \in Docks,
         StartNext(d) \/ ThreadNext(d) \/ LoopNext(d) \/ Wake(d) \/ Hup(d)
  PROVE  Alone'
<1>1. /\ pc \in [Docks -> PCs] /\ thread \in [Docks -> Threads]
  BY DEF Told, TypeOK, PCs, Threads
<1>2. CASE ProbeFinds(d) \/ LoadLaunchers(d) \/ StartLoop(d) \/ LoopNext(d) \/ Wake(d) \/ Hup(d)
  <2>1. UNCHANGED <<path, thread, astray>>
    BY <1>2 DEF ProbeFinds, LoadLaunchers, StartLoop, LoopNext, Check, Reload, Block,
                Serve, Wake, Hup, ipc, history
  <2>2. \A e \in Docks : Runs(e)' <=> Runs(e)
    BY <1>1, <1>2 DEF ProbeFinds, LoadLaunchers, StartLoop, LoopNext, Check, Reload,
                Block, Serve, Wake, Hup, Goto, Runs, Looping
  <2> QED BY <2>1, <2>2, AloneStays
<1>3. CASE Die(d)
  <2>1. /\ ~Runs(d)' /\ thread'[d] = "none" /\ path' = path /\ astray' = astray \ {d}
        /\ \A e \in Docks \ {d} : (Runs(e)' <=> Runs(e)) /\ thread'[e] = thread[e]
    BY <1>1, <1>3 DEF Die, Runs
  <2>2. \A e \in Docks : e \in Rising' => e \in Rising
    BY <2>1 DEF Rising
  <2> QED BY <2>1, <2>2 DEF Alone, ThreadsOfDocks, FoundByOthers
<1> QED BY <1>2, <1>3, StartKeepsAlone, ThreadKeepsAlone DEF StartNext

LEMMA StepHolds == IInv /\ [Next]_vars => IInv'
<1> SUFFICES ASSUME IInv, [Next]_vars PROVE IInv'
  OBVIOUS
<1>1. CASE SettingsNext
  <2>1. UNCHANGED <<path, thread, astray, pc>>
    BY <1>1 DEF SettingsNext, Edit, EditFails, Notify, Quit, ipc, history
  <2>2. \A d \in Docks : Runs(d)' <=> Runs(d)
    BY <2>1 DEF Runs
  <2> QED BY <1>1, <2>1, <2>2, SettingsTell, AloneStays DEF IInv
<1>2. ASSUME NEW d \in Docks,
             StartNext(d) \/ ThreadNext(d) \/ LoopNext(d) \/ Wake(d) \/ Hup(d)
      PROVE  IInv'
  BY <1>2, StartTells, ThreadTells, LoopTells, StepKeepsAlone DEF IInv
<1>3. CASE UNCHANGED vars
  <2>1. Alone'
    BY <1>3, AloneStays DEF IInv, Runs, vars
  <2> QED BY <1>3, <2>1, StillTold DEF IInv
<1> QED BY <1>1, <1>2, <1>3 DEF Next

--------------------------------------------------------------------------------
(* What is told to the docks, and which of them run, together are inductive. *)
THEOREM Invariance == Spec => []IInv
BY InitHolds, StepHolds, PTL DEF Spec

(* The docks' state has its types; what is owed is about what is missed. *)
THEOREM TypeCorrect == Spec => []TypeOK
<1>1. IInv => TypeOK
  BY DEF IInv, Told
<1> QED BY <1>1, Invariance, PTL

(* From the debounce timer to the load, news of an edit is dropped only where *)
(* the code drops it.                                                        *)
THEOREM NewsIsKept == Spec => []NewsIsUnderWay
<1>1. IInv => NewsIsUnderWay
  BY DEF IInv, Told
<1> QED BY <1>1, Invariance, PTL

(* g_reload_config is cleared before the load that answers it. *)
THEOREM RequestsAreKept == Spec => []NoRequestForgotten
<1>1. IInv => NoRequestForgotten
  BY DEF IInv, Told
<1> QED BY <1>1, Invariance, PTL

(* The probe of the socket keeps a second dock from running beside one that   *)
(* can be found.                                                             *)
THEOREM OneDock == Spec => []OneDockButForStrays
<1>1. IInv => OneDockButForStrays
  <2> SUFFICES ASSUME IInv
               PROVE  Cardinality({d \in Docks : Runs(d) /\ d \notin astray}) <= 1
    BY DEF OneDockButForStrays
  <2> DEFINE R == {d \in Docks : Runs(d) /\ d \notin astray}
  <2>1. \A d, e \in R : d = e
    BY DEF IInv, Alone, FoundByOthers
  <2>2. CASE R = {}
    BY <2>2, FS_EmptySet
  <2>3. CASE R # {}
    <3>1. PICK d \in R : R = {d}
      BY <2>1, <2>3
    <3>2. Cardinality({d}) = 1
      BY FS_Singleton
    <3> QED BY <3>1, <3>2
  <2> QED BY <2>2, <2>3
<1> QED BY <1>1, Invariance, PTL
================================================================================
