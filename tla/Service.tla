------------------------------ MODULE Service ------------------------------
(***************************************************************************)
(* overwitch-service (src/src/main-service.c): the main thread that runs   *)
(* D-Bus methods one after the other, the signal handlers that run on top  *)
(* of it wherever it is, the hotplug thread, and one runner thread for     *)
(* every JACK client of the pool.                                          *)
(*                                                                         *)
(* The main thread is a stack of activations: the D-Bus method (or the     *)
(* idle main loop), the handler of SIGHUP and that of SIGTERM and SIGINT.  *)
(* Only the one on top moves.  A handler does not interrupt itself: SIGHUP *)
(* is blocked while it is handled, and a second SIGTERM or SIGINT returns  *)
(* at once.                                                                *)
(*                                                                         *)
(* The lock is a spin lock without an owner: whoever unlocks it frees it,  *)
(* and jclient_runner unlocks it without having locked it.  A critical     *)
(* section of several steps may therefore lose it half way.                *)
(*                                                                         *)
(* A JACK client is reduced to what module Resampler shows of it: a stop   *)
(* before its engine is ready is lost, a stop or a failure while that      *)
(* waits for the resampler leaves it stuck, a stop after that ends it, and *)
(* it may end by itself.                                                   *)
(***************************************************************************)
EXTENDS Integers

CONSTANTS
  Pool,         \* POOLED_JCLIENT_LEN
  Devices,      \* bound: devices found at the start of the service
  Hotplug,      \* devices may be plugged in later
  Renames,      \* SetDeviceName may be called
  Signals,      \* SIGHUP, SIGTERM and SIGINT may come
  Faults,       \* initialisations and thread creations may fail
  MaxCommands   \* bound: D-Bus methods and signals

ASSUME ServiceAssumption ==
  /\ {Pool, Devices, MaxCommands} \subseteq Nat
  /\ Pool > 0
  /\ {Hotplug, Renames, Signals, Faults} \subseteq BOOLEAN

Slots == 1..Pool

Handlers == {"hup", "term"}
Acts     == {"method"} \union Handlers

VARIABLES
  lock,            \* the spin lock is taken
  force_stop, hotplug_running,
  hotplug_thread,  \* the thread that the handle names: "none", "live", "joined"
  pjc,             \* status of each slot: "AVAILABLE", "RUNNING", "STOPPED"
  client,          \* jclient of each slot
  runner,          \* where the last thread of each slot is; "none" if joined
  mpc,             \* where each activation of the main thread is
  mslot,           \* the slot it is at
  left,            \* devices that its start_all has not started yet
  running,         \* the activation on top, which runs
  under,           \* the activation that each handler interrupted
  cmd,             \* the method that the main thread executes, or "none"
  held,            \* g_application_hold holds the main loop
  hpc, hslot,      \* where the hotplug thread is, and the slot it is at
  broken,          \* "no", or the first undefined behaviour: "freed", "joined",
                   \* "shared"; or "orphan", a second hotplug thread
  commands,        \* history: commands and signals so far
  stolen,          \* history: a runner freed the lock under another thread
  nested           \* history: a SIGHUP came in the middle of a method or handler

globals == <<lock, force_stop, hotplug_running, hotplug_thread>>
slots   == <<pjc, client, runner>>
walks   == <<mslot, left>>
stack   == <<running, under, cmd, held, commands, nested>>
hot     == <<hpc, hslot>>
vars    == <<globals, slots, mpc, walks, stack, hot, broken, stolen>>

Clients == {"none", "init", "starting", "handshake", "on", "off", "stuck", "over"}
RunnerPcs == {"none", "start", "check", "wait", "unlock", "mark", "unlock_again",
              "ended"}
MainPcs == {"idle", "stop_lock", "stop_all", "wait_each", "join", "joining", "mark",
            "join_hotplug", "joining_hotplug", "stopped", "startup", "check",
            "start_lock", "start_single", "start_hotplug", "rename_join",
            "rename_joining", "restart", "exited"}
HotplugPcs == {"none", "begin", "loop", "recycle", "join", "joining", "recycled",
               "find", "lock", "start_single", "ended"}
Methods == {"none", "Launch", "Start", "Stop", "Exit", "SetDeviceName"}

(* app_startup is underway. *)
Init ==
  /\ lock = FALSE
  /\ force_stop = FALSE
  /\ hotplug_running = FALSE
  /\ hotplug_thread = "none"
  /\ pjc = [s \in Slots |-> "AVAILABLE"]
  /\ client = [s \in Slots |-> "none"]
  /\ runner = [s \in Slots |-> "none"]
  /\ mpc = [a \in Acts |-> IF a = "method" THEN "startup" ELSE "idle"]
  /\ mslot = [a \in Acts |-> 1]
  /\ left = [a \in Acts |-> 0]
  /\ running = "method"
  /\ under = [a \in Acts |-> "method"]
  /\ cmd = "Launch"
  /\ held = FALSE
  /\ hpc = "none"
  /\ hslot = 1
  /\ broken = "no"
  /\ commands = 0
  /\ stolen = FALSE
  /\ nested = FALSE

-----------------------------------------------------------------------------
(***************************************************************************)
(* What several threads do.                                                *)
(***************************************************************************)

(* jclient_stop on the clients of slots S. *)
StopClients(S) ==
  client' = [s \in Slots |->
               CASE s \in S /\ client[s] = "on"        -> "off"
                 [] s \in S /\ client[s] = "handshake" -> "stuck"
                 [] OTHER                              -> client[s]]

(* Memory of a client that its runner has destroyed. *)
Freed(s) == client[s] = "none"

Break(how, if) == broken' = IF if THEN how ELSE broken

(* start_single on slot s: the client cannot be initialised; or its runner *)
(* starts; or that thread cannot be created.  A slot that is started again *)
(* before its thread was joined is shared by two threads.                  *)
StartSingle(s) ==
  /\ Break("shared", runner[s] # "none")
  /\ \/ Faults /\ UNCHANGED slots
     \/ /\ client' = [client EXCEPT ![s] = "init"]
        /\ pjc' = [pjc EXCEPT ![s] = "RUNNING"]
        /\ runner' = [runner EXCEPT ![s] = "start"]
     \/ /\ Faults
        /\ client' = [client EXCEPT ![s] = "none"]
        /\ pjc' = [pjc EXCEPT ![s] = "STOPPED"]
        /\ UNCHANGED runner

(* Somebody is in pthread_join for the thread of slot s. *)
BeingJoined(s) ==
  \/ \E a \in Acts : mpc[a] \in {"joining", "rename_joining"} /\ mslot[a] = s
  \/ hpc = "joining" /\ hslot = s

(* pthread_join on the thread of slot s.  Joining a thread twice, at once  *)
(* or later, or one that was not created, is undefined.                    *)
JoinBegins(s) ==
  /\ Break("joined", runner[s] = "none" \/ BeingJoined(s))
  /\ UNCHANGED runner

JoinReturns(s) ==
  /\ runner[s] = "ended"
  /\ runner' = [runner EXCEPT ![s] = "none"]
  /\ UNCHANGED broken

-----------------------------------------------------------------------------
(***************************************************************************)
(* A JACK client and its runner thread, on slot s.                         *)
(***************************************************************************)
ClientStep(s, from, to) ==
  /\ client[s] \in from
  /\ client' = [client EXCEPT ![s] = to]
  /\ UNCHANGED <<globals, pjc, runner, mpc, walks, stack, hot, broken, stolen>>

(* The engine publishes READY. *)
ClientReady(s) == ClientStep(s, {"starting"}, "handshake")

(* The resampler has notified its readiness. *)
ClientRuns(s) == ClientStep(s, {"handshake"}, "on")

(* JACK fails or the device is unplugged. *)
ClientFails(s) ==
  \/ ClientStep(s, {"starting", "on"}, "over")
  \/ ClientStep(s, {"handshake"}, "stuck")

ClientEnds(s) == ClientStep(s, {"off"}, "over")

RunnerStep(s, from, to) ==
  /\ runner[s] = from
  /\ runner' = [runner EXCEPT ![s] = to]
  /\ UNCHANGED <<force_stop, hotplug_running, hotplug_thread, mpc, walks, stack, hot,
                 broken>>

(* jclient_start returns once jclient_run has begun. *)
RunnerStart(s) ==
  /\ RunnerStep(s, "start", "check")
  /\ client' = [client EXCEPT ![s] = "starting"]
  /\ UNCHANGED <<lock, pjc, stolen>>

RunnerCheck(s) ==
  /\ RunnerStep(s, "check", "wait")
  /\ ~lock
  /\ StopClients(IF force_stop THEN {s} ELSE {})
  /\ UNCHANGED <<lock, pjc, stolen>>

(* jclient_wait and jclient_destroy *)
RunnerWait(s) ==
  /\ RunnerStep(s, "wait", "unlock")
  /\ client[s] = "over"
  /\ client' = [client EXCEPT ![s] = "none"]
  /\ UNCHANGED <<lock, pjc, stolen>>

StrayUnlock ==
  /\ lock' = FALSE
  /\ stolen' = (stolen \/ lock)

(* Mutant: the runner locks, as it seems to be meant. *)
RunnerLock(s) ==
  /\ RunnerStep(s, "unlock", "mark")
  /\ ~lock
  /\ StrayUnlock
  /\ UNCHANGED <<client, pjc>>

(* An unlock where the code seems to mean a lock. *)
RunnerUnlock(s) ==
  /\ RunnerStep(s, "unlock", "mark")
  /\ StrayUnlock
  /\ UNCHANGED <<client, pjc>>

(* Mutant: a runner gives its slot back before anybody has joined it. *)
RunnerMarkAvailable(s) ==
  /\ RunnerStep(s, "mark", "unlock_again")
  /\ pjc' = [pjc EXCEPT ![s] = "AVAILABLE"]
  /\ UNCHANGED <<lock, client, stolen>>

RunnerMark(s) ==
  /\ RunnerStep(s, "mark", "unlock_again")
  /\ pjc' = [pjc EXCEPT ![s] = "STOPPED"]
  /\ UNCHANGED <<lock, client, stolen>>

RunnerUnlockAgain(s) ==
  /\ RunnerStep(s, "unlock_again", "ended")
  /\ StrayUnlock
  /\ UNCHANGED <<client, pjc>>

-----------------------------------------------------------------------------
(***************************************************************************)
(* The main thread: methods one after the other, and handlers on top.      *)
(***************************************************************************)
Cmd(a) == CASE a = "method" -> cmd
            [] a = "hup"    -> "Start"
            [] a = "term"   -> "Exit"

At == mslot[running]

Goto(from, to) ==
  /\ mpc[running] = from
  /\ mpc' = [mpc EXCEPT ![running] = to]

Step(from, to) ==
  /\ Goto(from, to)
  /\ UNCHANGED <<stack, hot, stolen>>

(* The activation ends, its variables with it.  A release before the first *)
(* hold is ignored.                                                        *)
Return(from) ==
  /\ Goto(from, "idle")
  /\ running' = under[running]
  /\ held' = CASE Cmd(running) = "Exit"   -> FALSE
               [] Cmd(running) = "Launch" -> TRUE
               [] OTHER                   -> held
  /\ under' = [under EXCEPT ![running] = "method"]
  /\ cmd' = IF running = "method" THEN "none" ELSE cmd
  /\ mslot' = [mslot EXCEPT ![running] = 1]
  /\ left' = [left EXCEPT ![running] = 0]
  /\ UNCHANGED <<commands, nested, stolen>>

Walk(s) == mslot' = [mslot EXCEPT ![running] = s]

Command ==
  /\ running = "method"
  /\ mpc["method"] = "idle"
  /\ held
  /\ commands < MaxCommands
  /\ commands' = commands + 1
  /\ UNCHANGED <<running, under, held, nested, hot, stolen>>

(* handle_method_call: handle_stop and handle_start. *)
StopOrStart ==
  /\ Command
  /\ cmd' \in {"Stop", "Start", "Exit"}
  /\ mpc' = [mpc EXCEPT !["method"] = "stop_lock"]
  /\ UNCHANGED <<globals, slots, walks, broken>>

(* signal_handler: it starts wherever the main thread is, even if that has *)
(* the lock, for which the handler then spins.                             *)
Signal(a) ==
  /\ Signals
  /\ mpc[a] = "idle"
  /\ commands < MaxCommands
  /\ commands' = commands + 1
  /\ mpc' = [mpc EXCEPT ![a] = "stop_lock"]
  /\ running' = a
  /\ under' = [under EXCEPT ![a] = running]
  /\ nested' = (nested \/ (a = "hup" /\ mpc[running] # "idle"))
  /\ UNCHANGED <<globals, slots, walks, cmd, held, hot, broken, stolen>>

StopLock ==
  /\ ~lock
  /\ Step("stop_lock", "stop_all")
  /\ lock' = TRUE
  /\ force_stop' = TRUE
  /\ hotplug_running' = FALSE
  /\ UNCHANGED <<hotplug_thread, slots, walks, broken>>

StopAll ==
  /\ Step("stop_all", "wait_each")
  /\ LET taken == {s \in Slots : pjc[s] = "RUNNING"}
     IN  /\ StopClients(taken)
         /\ Break("freed", \E s \in taken : Freed(s))
  /\ lock' = FALSE
  /\ Walk(1)
  /\ UNCHANGED <<force_stop, hotplug_running, hotplug_thread, pjc, runner, left>>

WaitEach ==
  /\ At <= Pool
  /\ ~lock
  /\ IF pjc[At] # "AVAILABLE"
       THEN Step("wait_each", "join") /\ UNCHANGED mslot
       ELSE Step("wait_each", "wait_each") /\ Walk(At + 1)
  /\ UNCHANGED <<globals, slots, left, broken>>

MainJoin ==
  /\ Step("join", "joining")
  /\ JoinBegins(At)
  /\ UNCHANGED <<globals, pjc, client, walks>>

MainJoined ==
  /\ Step("joining", "mark")
  /\ JoinReturns(At)
  /\ UNCHANGED <<globals, pjc, client, walks>>

MainMark ==
  /\ Step("mark", "wait_each")
  /\ pjc' = [pjc EXCEPT ![At] = "AVAILABLE"]
  /\ Walk(At + 1)
  /\ UNCHANGED <<globals, client, runner, left, broken>>

WaitedAll ==
  /\ At > Pool
  /\ Step("wait_each", "join_hotplug")
  /\ UNCHANGED <<globals, slots, walks, broken>>

(* The handle is never cleared: it may name a thread already joined. *)
JoinHotplug ==
  /\ Step("join_hotplug",
          IF hotplug_thread = "none" THEN "stopped" ELSE "joining_hotplug")
  /\ Break("joined", \/ hotplug_thread = "joined"
                     \/ \E a \in Acts : mpc[a] = "joining_hotplug")
  /\ UNCHANGED <<globals, slots, walks>>

JoinedHotplug ==
  /\ hpc = "ended"
  /\ Step("joining_hotplug", "stopped")
  /\ hotplug_thread' = "joined"
  /\ UNCHANGED <<lock, force_stop, hotplug_running, slots, walks, broken>>

(* handle_stop has returned: handle_start goes on, the others are done. *)
AfterStop ==
  /\ IF Cmd(running) = "Start" THEN Step("stopped", "startup") /\ UNCHANGED walks
                               ELSE Return("stopped") /\ UNCHANGED hot
  /\ UNCHANGED <<globals, slots, broken>>

(* startup, up to the list of devices. *)
Startup ==
  /\ \/ /\ Step("startup", "check")
        /\ \E n \in 0..Devices : n <= Pool /\ left' = [left EXCEPT ![running] = n]
        /\ Walk(1)
     \/ Faults /\ Return("startup") /\ UNCHANGED hot
  /\ force_stop' = FALSE
  /\ UNCHANGED <<lock, hotplug_running, hotplug_thread, slots, broken>>

(* start_all looks for the stop of a handler once, before it starts. *)
StartCheck ==
  /\ ~lock
  /\ Step("check", IF force_stop THEN "start_hotplug" ELSE "start_lock")
  /\ UNCHANGED <<globals, slots, walks, broken>>

StartLock ==
  /\ left[running] > 0
  /\ ~lock
  /\ Step("start_lock", "start_single")
  /\ lock' = TRUE
  /\ UNCHANGED <<force_stop, hotplug_running, hotplug_thread, slots, walks, broken>>

MainStartSingle ==
  /\ Step("start_single", "start_lock")
  /\ StartSingle(At)
  /\ lock' = FALSE
  /\ Walk(At + 1)
  /\ left' = [left EXCEPT ![running] = @ - 1]
  /\ UNCHANGED <<force_stop, hotplug_running, hotplug_thread>>

StartedAll ==
  /\ left[running] = 0
  /\ Step("start_lock", "start_hotplug")
  /\ UNCHANGED <<globals, slots, walks, broken>>

(* The thread is created, whatever start_all did.  The model does not      *)
(* follow a second one.                                                    *)
StartHotplug ==
  /\ Return("start_hotplug")
  /\ \/ /\ hpc \in {"none", "ended"}
        /\ hpc' = "begin"
        /\ hotplug_thread' = "live"
        /\ UNCHANGED broken
     \/ /\ hpc \notin {"none", "ended"}
        /\ broken' = "orphan"
        /\ UNCHANGED <<hpc, hotplug_thread>>
     \/ Faults /\ UNCHANGED <<hpc, hotplug_thread, broken>>
  /\ UNCHANGED <<lock, force_stop, hotplug_running, slots, hslot>>

(* handle_set_device_name holds the lock over the join of the runner. *)
Rename ==
  /\ Renames
  /\ ~lock
  /\ Command
  /\ \E s \in Slots :
       IF pjc[s] = "RUNNING"
         THEN /\ StopClients({s})
              /\ Break("freed", Freed(s))
              /\ lock' = TRUE
              /\ cmd' = "SetDeviceName"
              /\ Walk(s)
              /\ mpc' = [mpc EXCEPT !["method"] = "rename_join"]
         ELSE UNCHANGED <<client, broken, lock, cmd, mslot, mpc>>
  /\ UNCHANGED <<force_stop, hotplug_running, hotplug_thread, pjc, runner, left>>

RenameJoin ==
  /\ Step("rename_join", "rename_joining")
  /\ JoinBegins(At)
  /\ UNCHANGED <<globals, pjc, client, walks>>

RenameJoined ==
  /\ Step("rename_joining", "restart")
  /\ JoinReturns(At)
  /\ pjc' = [pjc EXCEPT ![At] = "AVAILABLE"]
  /\ UNCHANGED <<globals, client, walks>>

Restart ==
  /\ Return("restart")
  /\ StartSingle(At)
  /\ lock' = FALSE
  /\ UNCHANGED <<force_stop, hotplug_running, hotplug_thread, hot>>

GetState ==
  /\ ~lock
  /\ Command
  /\ Break("freed", \E s \in Slots : pjc[s] = "RUNNING" /\ Freed(s))
  /\ UNCHANGED <<globals, slots, cmd, mpc, walks>>

(* The main loop ends when nothing holds it. *)
Quit ==
  /\ running = "method"
  /\ ~held
  /\ Step("idle", "exited")
  /\ UNCHANGED <<globals, slots, walks, broken>>

-----------------------------------------------------------------------------
(***************************************************************************)
(* The hotplug thread: ow_hotplug_loop and hotplug_callback.               *)
(***************************************************************************)
HotStep(from, to) ==
  /\ hpc = from
  /\ hpc' = to
  /\ UNCHANGED <<mpc, walks, stack, force_stop, hotplug_thread, stolen>>

HotBegin ==
  /\ \/ HotStep("begin", "loop")
     \/ Faults /\ HotStep("begin", "ended")
  /\ hotplug_running' = TRUE
  /\ UNCHANGED <<lock, slots, hslot, broken>>

HotPoll ==
  /\ ~lock
  /\ HotStep("loop", IF hotplug_running THEN "loop" ELSE "ended")
  /\ UNCHANGED <<lock, hotplug_running, slots, hslot, broken>>

HotArrive ==
  /\ Hotplug
  /\ HotStep("loop", "recycle")
  /\ UNCHANGED <<lock, hotplug_running, slots, hslot, broken>>

HotRecycle ==
  /\ hslot <= Pool
  /\ ~lock
  /\ IF pjc[hslot] = "STOPPED"
       THEN HotStep("recycle", "join") /\ UNCHANGED hslot
       ELSE HotStep("recycle", "recycle") /\ hslot' = hslot + 1
  /\ UNCHANGED <<lock, hotplug_running, slots, broken>>

HotJoin ==
  /\ HotStep("join", "joining")
  /\ JoinBegins(hslot)
  /\ UNCHANGED <<lock, hotplug_running, pjc, client, hslot>>

HotJoined ==
  /\ HotStep("joining", "recycled")
  /\ JoinReturns(hslot)
  /\ UNCHANGED <<lock, hotplug_running, pjc, client, hslot>>

(* Mutant: the slot after a recycled one is skipped. *)
HotRecycledTwice ==
  /\ ~lock
  /\ HotStep("recycled", "recycle")
  /\ pjc' = [pjc EXCEPT ![hslot] = "AVAILABLE"]
  /\ hslot' = hslot + 2
  /\ UNCHANGED <<lock, hotplug_running, client, runner, broken>>

HotRecycled ==
  /\ ~lock
  /\ HotStep("recycled", "recycle")
  /\ pjc' = [pjc EXCEPT ![hslot] = "AVAILABLE"]
  /\ hslot' = hslot + 1
  /\ UNCHANGED <<lock, hotplug_running, client, runner, broken>>

HotRecycledAll ==
  /\ hslot > Pool
  /\ HotStep("recycle", "find")
  /\ hslot' = 1
  /\ UNCHANGED <<lock, hotplug_running, slots, broken>>

HotFind ==
  /\ IF hslot > Pool
       THEN HotStep("find", "loop") /\ hslot' = 1
       ELSE /\ ~lock
            /\ IF pjc[hslot] = "AVAILABLE"
                 THEN HotStep("find", "lock") /\ UNCHANGED hslot
                 ELSE HotStep("find", "find") /\ hslot' = hslot + 1
  /\ UNCHANGED <<lock, hotplug_running, slots, broken>>

(* Mutant: the early return forgets to unlock. *)
HotLockKept ==
  /\ ~lock
  /\ HotStep("lock", IF force_stop THEN "loop" ELSE "start_single")
  /\ hslot' = IF force_stop THEN 1 ELSE hslot
  /\ lock' = TRUE
  /\ UNCHANGED <<hotplug_running, slots, broken>>

(* Mutant: a stop in progress is not looked at. *)
HotLockBlindly ==
  /\ ~lock
  /\ HotStep("lock", "start_single")
  /\ lock' = TRUE
  /\ UNCHANGED <<hotplug_running, slots, hslot, broken>>

HotLock ==
  /\ ~lock
  /\ HotStep("lock", IF force_stop THEN "loop" ELSE "start_single")
  /\ hslot' = IF force_stop THEN 1 ELSE hslot
  /\ lock' = ~force_stop
  /\ UNCHANGED <<hotplug_running, slots, broken>>

HotStartSingle ==
  /\ HotStep("start_single", "loop")
  /\ StartSingle(hslot)
  /\ lock' = FALSE
  /\ hslot' = 1
  /\ UNCHANGED hotplug_running

-----------------------------------------------------------------------------
Client(s) == ClientReady(s) \/ ClientRuns(s) \/ ClientFails(s) \/ ClientEnds(s)

Runner(s) ==
  \/ RunnerStart(s) \/ RunnerCheck(s) \/ RunnerWait(s)
  \/ RunnerUnlock(s) \/ RunnerMark(s) \/ RunnerUnlockAgain(s)

Main ==
  \/ StopLock \/ StopAll \/ WaitEach \/ MainJoin \/ MainJoined \/ MainMark
  \/ WaitedAll \/ JoinHotplug \/ JoinedHotplug \/ AfterStop
  \/ Startup \/ StartCheck \/ StartLock \/ MainStartSingle \/ StartedAll
  \/ StartHotplug
  \/ RenameJoin \/ RenameJoined \/ Restart
  \/ Quit

Commands == StopOrStart \/ Rename \/ GetState

HotplugThread ==
  \/ HotBegin \/ HotPoll \/ HotArrive \/ HotRecycle \/ HotJoin \/ HotJoined
  \/ HotRecycled \/ HotRecycledAll \/ HotFind \/ HotLock \/ HotStartSingle

Running == broken = "no" /\ mpc["method"] # "exited"

Next ==
  \/ /\ Running
     /\ \/ \E s \in Slots : Client(s) \/ Runner(s)
        \/ Main
        \/ Commands
        \/ \E a \in Handlers : Signal(a)
        \/ HotplugThread
  \/ ~Running /\ UNCHANGED vars

Spec == Init /\ [][Next]_vars

(* The threads are scheduled and a client that was stopped ends.  Whoever  *)
(* waits for the lock may wait for ever: a spin lock is not fair.          *)
Fairness ==
  /\ WF_vars(Running /\ Main)
  /\ \A s \in Slots :
       /\ WF_vars(Running /\ Runner(s))
       /\ WF_vars(Running /\ ClientEnds(s))

FairSpec == Spec /\ Fairness

-----------------------------------------------------------------------------
TypeOK ==
  /\ {lock, force_stop, hotplug_running, stolen, nested, held} \subseteq BOOLEAN
  /\ hotplug_thread \in {"none", "live", "joined"}
  /\ pjc \in [Slots -> {"AVAILABLE", "RUNNING", "STOPPED"}]
  /\ client \in [Slots -> Clients]
  /\ runner \in [Slots -> RunnerPcs]
  /\ mpc \in [Acts -> MainPcs]
  /\ mslot \in [Acts -> 1..Pool + 1]
  /\ left \in [Acts -> 0..Devices]
  /\ running \in Acts
  /\ under \in [Acts -> Acts]
  /\ cmd \in Methods
  /\ hpc \in HotplugPcs
  /\ hslot \in 1..Pool + 1
  /\ broken \in {"no", "freed", "joined", "shared", "orphan"}
  /\ commands \in 0..MaxCommands

Inside(a) ==
  mpc[a] \in {"stop_all", "start_single", "rename_join", "rename_joining", "restart"}

(* Every way out of a critical section frees the lock: it is taken only    *)
(* while a thread is inside one (main-service.c:332-340, 418-441).         *)
LockReleased == lock => hpc = "start_single" \/ \E a \in Acts : Inside(a)

(* No slot is given out while its thread is not joined: one that is        *)
(* AVAILABLE has none (main-service.c:294-302), nor has one that start_all, *)
(* which does not look, fills (main-service.c:237-247), even if a SIGTERM  *)
(* stops everything in the middle of it.  That takes a lock that no runner *)
(* has freed under another thread, and no SIGHUP in the middle of a method *)
(* or of the handler of SIGTERM: it fills the slots under a start_all that *)
(* has looked at force_stop already (main-service.c:146-151, 224-230).     *)
AvailableIsFree ==
  ~stolen /\ ~nested =>
    /\ \A s \in Slots : pjc[s] = "AVAILABLE" => runner[s] = "none"
    /\ broken # "shared"

AllStopped ==
  \A a \in Acts, s \in Slots : mpc[a] = "stopped" => runner[s] = "none"

(* Under the same conditions no client is left when handle_stop returns,   *)
(* to Stop, Start, Exit or a signal, whatever devices are plugged in       *)
(* meanwhile and wherever a SIGTERM comes: force_stop is set and read      *)
(* under the lock (main-service.c:110-112, 332-337).  A SIGHUP in the      *)
(* middle starts clients in the slots that wait_all has passed.            *)
StopIsComplete == ~stolen /\ ~nested => AllStopped

(* Stopping the service will stop all the devices (README.md:123). *)
StopStopsAll == AllStopped

(* A client that stops for its new name is started again, although         *)
(* SetDeviceName waits for its runner with the lock in its hands: the      *)
(* runner does not lock on its way out (main-service.c:178-180, 418-441).  *)
(* This is so once it waits: before that, a device that is plugged in may  *)
(* have taken the slot of a client that was fast to end, and then it waits *)
(* for the new one.  No signal comes: it would spin for the lock on top.   *)
RenameRestarts ==
  \A s \in Slots :
    (/\ mpc["method"] = "rename_joining"
     /\ mslot["method"] = s
     /\ runner[s] = "wait"
     /\ client[s] = "off")
      ~> (mpc["method"] = "idle" \/ broken # "no")

=============================================================================
