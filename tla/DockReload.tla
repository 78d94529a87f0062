------------------------------- MODULE DockReload -------------------------------
(****************************************************************************)
(* How an edit of the applications database reaches a dock: nizam-settings  *)
(* commits it and, 150 ms later, sends "reload" to the socket of the dock;  *)
(* the dock's IPC thread raises g_reload_config; the dock's main thread     *)
(* looks at the flag at the top of its event loop, and blocks in poll()     *)
(* until the X server, the bus or a deadline of its own wakes it.           *)
(*                                                                          *)
(* Several docks may be started.  One that finds another listening sends it *)
(* "reload" and exits; one that does not starts its own IPC thread, which   *)
(* unlinks the socket's path and binds it, and loads its launchers.  Each   *)
(* step may fail: a socket that is not to be had, bound or listened to      *)
(* leaves a dock that runs and cannot be told anything, a peer that cannot  *)
(* be proved a dock is passed over, a database that cannot be read leaves   *)
(* edits out of the launchers, and nizam-settings may end before its timer  *)
(* fires.  A dock may die at any time and leaves its path behind.           *)
(*                                                                          *)
(* Versions of the database are not counted: it matters only whether the    *)
(* launchers of a dock miss an edit, and whether it was asked to reload     *)
(* since.                                                                   *)
(****************************************************************************)
EXTENDS Naturals, FiniteSets

CONSTANTS Docks,      \* processes that run nizam-dock
          None

ASSUME NoneAssumption == None \notin Docks

VARIABLES
  timer,       \* apps_notify_id # 0
  path,        \* whose socket the path names, None when it does not exist
  waiting,     \* the docks whose socket holds a connection not yet accepted
  pc,          \* where each dock's main thread is
  thread,      \* where each dock's IPC thread is
  flag,        \* g_reload_config
  behind,      \* the docks whose launchers miss an edit of the database
  owed,        \* those of them whose flag was raised since
  untold,      \* history: the docks that miss an edit nobody will tell them of
  astray       \* history: the docks that one started later may not find

history == <<untold, astray>>
ipc == <<path, waiting, thread>>
news == <<behind, owed>>
vars == <<timer, path, waiting, pc, thread, flag, behind, owed, untold, astray>>

Looping == {"check", "reload", "arm", "poll", "serve"}

Runs(d) == pc[d] # "off"

Init ==
  /\ timer = FALSE
  /\ path = None /\ waiting = {}
  /\ pc = [d \in Docks |-> "off"]
  /\ thread = [d \in Docks |-> "none"]
  /\ flag = [d \in Docks |-> FALSE]
  /\ behind = {} /\ owed = {}
  /\ untold = {} /\ astray = {}

Goto(d, from, to) == pc[d] = from /\ pc' = [pc EXCEPT ![d] = to]

--------------------------------------------------------------------------------
(* The socket. *)

Listening == IF path # None /\ thread[path] = "accept" THEN path ELSE None

(* connect() and write() to the listening dock.  One that has a connection    *)
(* waiting already is told of everything by that one's reload: the model      *)
(* keeps the two as one, later, connection.                                   *)
SendReload == waiting' = waiting \cup {Listening}

(* The docks that no message, flag or load under way will bring up to date.   *)
Unaware == {d \in Docks : d \notin waiting /\ ~flag[d] /\ pc[d] \notin {"load", "reload"}}

(* Mutant: a load that only counts for the edits nobody told of. *)
LoadShallow(d) == /\ behind' = behind \ {d} /\ untold' = untold \ {d}
                  /\ UNCHANGED owed

Forget(d) == /\ behind' = behind \ {d} /\ owed' = owed \ {d}
             /\ untold' = untold \ {d}

(* Loading the launchers shows every edit made so far; unless the database    *)
(* cannot be opened, queried or read to the end.  Nothing is then tried again: *)
(* the request is spent, and the launchers are those of the local files, or    *)
(* the first rows.                                                             *)
Load(d) ==
  \/ Forget(d)
  \/ /\ behind' = behind \cup {d} /\ owed' = owed \ {d}
     /\ untold' = untold \cup {e \in {d} : d \notin waiting /\ ~flag[d]}

--------------------------------------------------------------------------------
(* nizam-settings. *)

(* The docks whose launchers an edit leaves behind. *)
Started == {d \in Docks : pc[d] \notin {"off", "load"}}

(* Mutant: the second edit removes the timer of the first. *)
EditRemovesTimer ==
  /\ timer' = ~timer
  /\ behind' = behind \cup Started
  /\ UNCHANGED <<ipc, pc, flag, owed, history>>

(* A sync, a save or a deletion that succeeds queues one notification, unless *)
(* one is queued.                                                            *)
Edit ==
  /\ timer' = TRUE
  /\ behind' = behind \cup Started
  /\ UNCHANGED <<ipc, pc, flag, owed, history>>

(* A sync that fails half-way has changed rows and queues nothing.           *)
EditFails ==
  /\ behind' = behind \cup Started
  /\ untold' = untold \cup (Started \cap Unaware)
  /\ UNCHANGED <<timer, ipc, pc, flag, owed, astray>>

(* The timer fires.  A connection that fails is ignored, and no dock but the  *)
(* one that listens hears of it.                                             *)
Notify ==
  /\ timer
  /\ timer' = FALSE
  /\ \/ /\ Listening # None /\ SendReload
        /\ untold' = (untold \cup (behind \cap Unaware)) \ {Listening}
     \/ UNCHANGED waiting /\ untold' = untold \cup (behind \cap Unaware)
  /\ UNCHANGED <<path, pc, thread, flag, behind, owed, astray>>

(* nizam-settings ends, and its timer with it.                               *)
Quit ==
  /\ timer
  /\ timer' = FALSE
  /\ untold' = untold \cup (behind \cap Unaware)
  /\ UNCHANGED <<ipc, pc, flag, news, astray>>

--------------------------------------------------------------------------------
(* A dock's start. *)

Rising == {e \in Docks : thread[e] \in {"unlink", "bind", "listen"}}

(* dock_ipc_start.  A dock that starts while the sockets of others are not up *)
(* can take the path from them, or they from it.                             *)
StartThread(d, passedOver) ==
  /\ thread' = [thread EXCEPT ![d] = "unlink"]
  /\ astray' = astray \cup passedOver \cup Rising \cup {e \in {d} : Rising # {}}

(* Mutant: the second dock asks the first to reload and starts all the same. *)
ProbeFindsStays(d) ==
  /\ Goto(d, "off", "load")
  /\ Listening # None
  /\ SendReload
  /\ untold' = untold \ {Listening}
  /\ UNCHANGED <<timer, path, thread, flag, behind, owed, astray>>

(* Another dock listens: it is told to reload, and this one exits at once.   *)
ProbeFinds(d) ==
  /\ pc[d] = "off"
  /\ Listening # None
  /\ SendReload
  /\ untold' = untold \ {Listening}
  /\ UNCHANGED <<timer, path, pc, thread, flag, behind, owed, astray>>

ProbeFindsNone(d) ==
  /\ Goto(d, "off", "load")
  /\ Listening = None
  /\ StartThread(d, {})
  /\ UNCHANGED <<timer, path, waiting, flag, news, untold>>

(* Another dock listens, but there is no socket to ask it with, or its name   *)
(* under /proc cannot be read: the connection is closed with nothing written, *)
(* which raises no flag, and this dock starts beside the other.              *)
ProbePassesOver(d) ==
  /\ Goto(d, "off", "load")
  /\ Listening # None
  /\ StartThread(d, {Listening})
  /\ UNCHANGED <<timer, path, waiting, flag, news, untold>>

LoadLaunchers(d) ==
  /\ Goto(d, "load", "init")
  /\ Load(d)
  /\ UNCHANGED <<timer, ipc, flag, astray>>

(* The windows, the tray, the signal handler and the first draw.             *)
StartLoop(d) ==
  /\ Goto(d, "init", "check")
  /\ UNCHANGED <<timer, ipc, flag, news, history>>

(* SIGHUP before the handler is installed, no X display, any other signal.   *)
Die(d) ==
  /\ Runs(d)
  /\ pc' = [pc EXCEPT ![d] = "off"]
  /\ thread' = [thread EXCEPT ![d] = "none"]
  /\ waiting' = waiting \ {d}
  /\ flag' = [flag EXCEPT ![d] = FALSE]
  /\ Forget(d)
  /\ astray' = astray \ {d}
  /\ UNCHANGED <<timer, path>>

--------------------------------------------------------------------------------
(* A dock's IPC thread. *)

(* The thread returns, and the dock runs on with no listener.                *)
GiveUp(d) == /\ thread' = [thread EXCEPT ![d] = "none"]
             /\ astray' = astray \cup {d}
             /\ UNCHANGED path

(* There is no thread or socket to be had, or the path is too long for one.  *)
Unlink(d) ==
  /\ thread[d] = "unlink"
  /\ \/ path' = None /\ thread' = [thread EXCEPT ![d] = "bind"] /\ UNCHANGED astray
     \/ GiveUp(d)
  /\ UNCHANGED <<timer, waiting, pc, flag, news, untold>>

(* bind() fails when another dock bound the path meanwhile, or for a reason  *)
(* of its own.                                                               *)
Bind(d) ==
  /\ thread[d] = "bind"
  /\ \/ /\ path = None
        /\ path' = d /\ thread' = [thread EXCEPT ![d] = "listen"]
        /\ UNCHANGED astray
     \/ GiveUp(d)
  /\ UNCHANGED <<timer, waiting, pc, flag, news, untold>>

Listen(d) ==
  /\ thread[d] = "listen"
  /\ \/ thread' = [thread EXCEPT ![d] = "accept"] /\ UNCHANGED <<path, astray>>
     \/ GiveUp(d)
  /\ UNCHANGED <<timer, waiting, pc, flag, news, untold>>

(* Mutant: the connection is closed unread. *)
AcceptUnread(d) ==
  /\ thread[d] = "accept"
  /\ d \in waiting
  /\ waiting' = waiting \ {d}
  /\ UNCHANGED <<timer, path, pc, thread, flag, news, history>>

(* The message is read and nizam_dock_request_config_reload called.          *)
Accept(d) ==
  /\ thread[d] = "accept"
  /\ d \in waiting
  /\ waiting' = waiting \ {d}
  /\ flag' = [flag EXCEPT ![d] = TRUE]
  /\ owed' = owed \cup (behind \cap {d})
  /\ UNCHANGED <<timer, path, pc, thread, behind, history>>

--------------------------------------------------------------------------------
(* A dock's event loop. *)

(* The flag is tested, and cleared before anything is loaded.                *)
Check(d) ==
  /\ pc[d] = "check"
  /\ pc' = [pc EXCEPT ![d] = IF flag[d] THEN "reload" ELSE "arm"]
  /\ flag' = [flag EXCEPT ![d] = FALSE]
  /\ UNCHANGED <<timer, ipc, news, history>>

(* Mutant: the launchers of the old configuration are kept. *)
ReloadKeeps(d) ==
  /\ Goto(d, "reload", "serve")
  /\ UNCHANGED <<timer, ipc, flag, news, history>>

(* The launchers are loaded again, the icons dropped and the window fitted to *)
(* its monitor; the redraw that is now pending makes poll() return at once.   *)
Reload(d) ==
  /\ Goto(d, "reload", "serve")
  /\ Load(d)
  /\ UNCHANGED <<timer, ipc, flag, astray>>

Block(d) ==
  /\ Goto(d, "arm", "poll")
  /\ UNCHANGED <<timer, ipc, flag, news, history>>

(* poll() returns: an X event, a message of the bus or the hide deadline.    *)
Wake(d) ==
  /\ Goto(d, "poll", "serve")
  /\ UNCHANGED <<timer, ipc, flag, news, history>>

(* Mutant: the flag is cleared at the bottom of the loop. *)
ServeClears(d) ==
  /\ pc[d] = "serve"
  /\ pc' = [pc EXCEPT ![d] = "check"]
  /\ flag' = [flag EXCEPT ![d] = FALSE]
  /\ UNCHANGED <<timer, ipc, news, history>>

(* The rest of the loop: events, autohide, the redraw.                       *)
Serve(d) ==
  /\ pc[d] = "serve"
  /\ pc' = [pc EXCEPT ![d] = "check"]
  /\ UNCHANGED <<timer, ipc, flag, news, history>>

(* SIGHUP with the handler in place: the flag is raised; poll() fails with   *)
(* EINTR and the loop begins again.                                          *)
Hup(d) ==
  /\ pc[d] \in Looping
  /\ flag' = [flag EXCEPT ![d] = TRUE]
  /\ owed' = owed \cup (behind \cap {d})
  /\ untold' = untold \ {d}
  /\ pc' = [pc EXCEPT ![d] = IF @ = "poll" THEN "check" ELSE @]
  /\ UNCHANGED <<timer, ipc, behind, astray>>

--------------------------------------------------------------------------------
SettingsNext == Edit \/ EditFails \/ Notify \/ Quit

StartNext(d) == \/ ProbeFinds(d) \/ ProbeFindsNone(d)
                \/ ProbePassesOver(d) \/ LoadLaunchers(d) \/ StartLoop(d) \/ Die(d)

ThreadNext(d) == Unlink(d) \/ Bind(d) \/ Listen(d) \/ Accept(d)

LoopNext(d) == Check(d) \/ Reload(d) \/ Block(d) \/ Serve(d)

Next == \/ SettingsNext
        \/ \E d \in Docks : \/ StartNext(d) \/ ThreadNext(d)
                            \/ LoopNext(d) \/ Wake(d) \/ Hup(d)

Spec == Init /\ [][Next]_vars

(* Timers fire, and a thread that can run does.  Nothing makes the X server   *)
(* send an event, so a blocked dock may stay blocked: a hidden one has no     *)
(* deadline that would end its poll().                                        *)
Fairness == /\ WF_vars(Notify)
            /\ \A d \in Docks :
                 /\ WF_vars(ThreadNext(d))
                 /\ WF_vars(LoopNext(d))
                 /\ WF_vars(LoadLaunchers(d) \/ StartLoop(d))

FairSpec == Spec /\ Fairness

--------------------------------------------------------------------------------
TypeOK ==
  /\ timer \in BOOLEAN
  /\ path \in Docks \cup {None}
  /\ waiting \in SUBSET Docks /\ astray \in SUBSET Docks
  /\ pc \in [Docks -> {"off", "load", "init"} \cup Looping]
  /\ thread \in [Docks -> {"none", "unlink", "bind", "listen", "accept"}]
  /\ flag \in [Docks -> BOOLEAN]
  /\ behind \in SUBSET Docks /\ owed \in SUBSET behind /\ untold \in SUBSET behind

(* News of an edit that a dock does not show is always somewhere on its way:  *)
(* in the debounce timer, in a connection, in the flag or in a load to come,   *)
(* from process to process and from thread to thread.  It stops only where the *)
(* code drops it: a sync that failed half-way, nizam-settings ended before the *)
(* timer fired, the dock not the one that listened, a load that failed         *)
(* (queue_applications_changed_notify, dock_ipc_thread_main, g_reload_config). *)
NewsIsUnderWay ==
  \A d \in behind \ untold :
    timer \/ d \in waiting \/ flag[d] \/ pc[d] \in {"load", "reload"}

(* A request that arrives while the launchers are being loaded is not lost:   *)
(* unless the flag is up or the load is still to come, a load was begun after *)
(* the last edit the dock was told of, if it did not fail (g_reload_config,    *)
(* xcb_app.c).                                                                *)
NoRequestForgotten ==
  \A d \in owed : flag[d] \/ pc[d] \in {"load", "reload"}

(* Two docks run together only if one of them could not be found when the     *)
(* other was started: they, or it and a third, were started before their       *)
(* sockets were up, its own socket failed, or it was not recognised for a dock *)
(* (dock_ipc_try_send_reload, dock_ipc_thread_main).                          *)
OneDockButForStrays ==
  Cardinality({d \in Docks : Runs(d) /\ d \notin astray}) <= 1

(* A dock that is awake, or about to look at the flag, performs the reload it *)
(* was asked for before it waits for the user again.                          *)
AwakeDockReloads ==
  \A d \in Docks :
    (d \in owed /\ pc[d] \in {"serve", "check"}) ~> d \notin owed

(* A connection made to a dock that misses an edit becomes a request, if no    *)
(* load shows the edit before (dock_ipc_thread_main).                         *)
NewsIsAccepted ==
  \A d \in Docks : (d \in waiting /\ d \in behind) ~> (d \in owed \/ d \notin behind)

(* "Changes made in nizam-settings ... are reflected immediately" (USAGE.md): *)
(* a notification that reached the socket of a dock in its loop ends in a load *)
(* of the launchers, with no further help from the user.                      *)
ReflectedImmediately ==
  \A d \in Docks :
    (d \in waiting \cap behind /\ pc[d] \in Looping) ~> pc[d] = "reload" \/ d \notin behind
================================================================================
