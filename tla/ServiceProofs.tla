---------------------------- MODULE ServiceProofs ----------------------------
(***************************************************************************)
(* What holds of overwitch-service for every size of its pool and every    *)
(* number of devices, methods, signals and faults.                         *)
(***************************************************************************)
EXTENDS Service, TLAPS

Available(s) == pjc[s] = "AVAILABLE"

NoHotplug == hpc \in {"none", "ended"}

StopPcs   == {"stop_all", "wait_each", "join", "joining", "mark", "join_hotplug",
              "joining_hotplug", "stopped"}
StartPcs  == {"startup", "check", "start_lock", "start_single", "start_hotplug"}
RenamePcs == {"rename_join", "rename_joining", "restart"}

(***************************************************************************)
(* What holds even after a runner has freed the lock under another thread, *)
(* and wherever the signals come.                                          *)
(***************************************************************************)

(* Both threads walk over the pool and never beyond it. *)
SlotsInPool ==
  /\ \A a \in Acts :
       /\ mpc[a] \in {"join", "joining", "mark", "start_single"} \union RenamePcs =>
            mslot[a] \in Slots
       /\ mpc[a] \in {"check", "start_lock", "start_single"} =>
            mslot[a] + left[a] <= Pool + 1
       /\ mpc[a] = "start_single" => left[a] > 0
  /\ hpc \in {"join", "joining", "recycled", "lock", "start_single"} => hslot \in Slots

(* Only Start and the start of the service start all, and only             *)
(* SetDeviceName renames.                                                  *)
CommandAt ==
  \A a \in Acts :
    /\ mpc[a] \in StartPcs => Cmd(a) \in {"Start", "Launch"}
    /\ mpc[a] \in RenamePcs => Cmd(a) = "SetDeviceName"

(* No thread without a handle. *)
Handle == hotplug_thread = "none" => hpc = "none"

Shape == TypeOK /\ LockReleased /\ SlotsInPool /\ CommandAt /\ Handle

(***************************************************************************)
(* What holds until a runner has freed the lock so, or a SIGHUP has come   *)
(* in the middle of something.                                             *)
(***************************************************************************)

(* A handler lies on what it interrupted; a SIGHUP on the idle main loop.  *)
Stack ==
  /\ under["method"] = "method"
  /\ running = "method" => mpc["hup"] = "idle" /\ mpc["term"] = "idle"
  /\ running = "hup" => mpc["hup"] # "idle" /\ mpc["term"] = "idle"
  /\ running = "term" => /\ mpc["term"] # "idle"
                         /\ under["term"] \in {"method", "hup"}
                         /\ under["term"] = "hup" <=> mpc["hup"] # "idle"
  /\ mpc["hup"] # "idle" => under["hup"] = "method" /\ mpc["method"] = "idle"

(* The lock excludes the two threads that take it. *)
HotInside == hpc = "start_single"

Exclusive ==
  /\ \A a \in Acts : Inside(a) => lock /\ ~HotInside
  /\ \A a, b \in Acts : Inside(a) /\ Inside(b) => a = b
  /\ HotInside => lock

(* A slot that is given out has no thread, whoever gives it out. *)
FreeSlots == \A s \in Slots : Available(s) => runner[s] = "none"

(* While a stop is in progress the hotplug thread starts nothing, and what *)
(* the main thread has passed stays as it is.                              *)
Stopping ==
  \A a \in Acts :
    /\ mpc[a] \in StopPcs => force_stop /\ ~HotInside
    /\ mpc[a] \in {"wait_each", "join", "joining", "mark"} =>
         \A s \in Slots : s < mslot[a] => Available(s)
    /\ mpc[a] \in {"join_hotplug", "joining_hotplug"} => \A s \in Slots : Available(s)

(* The service starts with all slots free, and no hotplug thread. *)
Starting ==
  \A a \in Acts :
    /\ mpc[a] \in {"stopped"} \union StartPcs => NoHotplug
    /\ mpc[a] \in {"startup", "check"} => \A s \in Slots : Available(s)
    /\ mpc[a] \in {"start_lock", "start_single"} =>
         \A s \in Slots : s >= mslot[a] => Available(s)

(* Whoever joins the thread of a slot is the only one, until it has given  *)
(* the slot back.                                                          *)
Joins(a) == mpc[a] \in {"joining", "mark", "rename_joining"}
HotJoins == hpc \in {"joining", "recycled"}

Joining ==
  /\ \A a, b \in Acts : Joins(a) /\ Joins(b) /\ mslot[a] = mslot[b] => a = b
  /\ \A a \in Acts : Joins(a) /\ HotJoins => mslot[a] # hslot
  /\ \A a \in Acts :
       mpc[a] = "mark" => runner[mslot[a]] = "none" /\ ~Available(mslot[a])

(* The slot that the hotplug thread recycles is left alone by the others,  *)
(* and so is the one that it has found.                                    *)
HotplugSlot ==
  /\ hpc = "join" => pjc[hslot] # "RUNNING"
  /\ HotJoins => pjc[hslot] = "STOPPED"
  /\ hpc = "recycled" => runner[hslot] = "none"
  /\ hpc \in {"lock", "start_single"} => Available(hslot)

RenamedSlot ==
  \A a \in Acts :
    /\ mpc[a] \in RenamePcs /\ hpc \in {"join", "joining", "recycled", "lock"} =>
         mslot[a] # hslot
    /\ mpc[a] = "restart" => Available(mslot[a])

(* When a stop has returned nothing is left. *)
Stopped == \A a \in Acts : mpc[a] = "stopped" => \A s \in Slots : Available(s)

Order == /\ Stack /\ Exclusive /\ Stopping /\ Starting /\ Joining
         /\ HotplugSlot /\ RenamedSlot

(* Nothing moves once a thread has been joined twice or freed memory used. *)
Disciplined ==
  /\ FreeSlots
  /\ Stopped
  /\ broken # "shared"
  /\ broken = "no" => Order

(* The inductive invariant. *)
ServiceInv == Shape /\ (~stolen /\ ~nested => Disciplined)

-----------------------------------------------------------------------------
(* A stop leaves every client in a state of its own, and moves none whose  *)
(* runner has not started it (StopClients).                                *)
LEMMA StopClientsType ==
  ASSUME client \in [Slots -> Clients], NEW S, StopClients(S)
  PROVE  client' \in [Slots -> Clients]
  BY DEF StopClients, Clients

(* What start_single leaves in the other slots, and in its own.            *)
LEMMA StartSingleSlots ==
  ASSUME Shape, NEW s \in Slots, StartSingle(s)
  PROVE  /\ pjc' \in [Slots -> {"AVAILABLE", "RUNNING", "STOPPED"}]
         /\ client' \in [Slots -> Clients]
         /\ runner' \in [Slots -> RunnerPcs]
         /\ broken' \in {"no", "freed", "joined", "shared", "orphan"}
  BY DEF StartSingle, Break, Shape, TypeOK, Clients, RunnerPcs, slots

(* The initial state. *)
LEMMA InitShape == Init => Shape
<1> SUFFICES ASSUME Init PROVE Shape
  OBVIOUS
<1>1. /\ pjc \in [Slots -> {"AVAILABLE", "RUNNING", "STOPPED"}]
      /\ client \in [Slots -> Clients]
      /\ runner \in [Slots -> RunnerPcs]
  BY DEF Init, Clients, RunnerPcs
<1>2. /\ mslot \in [Acts -> 1..Pool + 1]
      /\ left \in [Acts -> 0..Devices]
      /\ hslot \in 1..Pool + 1
      /\ commands \in 0..MaxCommands
  BY ServiceAssumption DEF Init
<1>3. mpc \in [Acts -> MainPcs] /\ hpc \in HotplugPcs
  BY DEF Init, MainPcs, HotplugPcs
<1>4. /\ {lock, force_stop, hotplug_running, stolen, nested, held} \subseteq BOOLEAN
      /\ running \in Acts /\ under \in [Acts -> Acts] /\ cmd \in Methods
  BY DEF Init, Acts, Methods
<1>5. TypeOK
  BY <1>1, <1>2, <1>3, <1>4 DEF Init, TypeOK
<1>6. SlotsInPool /\ CommandAt
  BY DEF Init, SlotsInPool, CommandAt, Acts, Handlers, Cmd, StartPcs, RenamePcs
<1> QED
  BY <1>5, <1>6 DEF Init, Shape, Handle, LockReleased

(* A client and its runner touch neither the commands nor the walks.       *)
LEMMA SlotShape ==
  ASSUME Shape, NEW s \in Slots, Client(s) \/ Runner(s)
  PROVE  Shape'
<1> USE DEF Shape, globals, walks, stack, hot
<1>1. UNCHANGED <<mpc, walks, stack, hot, force_stop, hotplug_running, hotplug_thread,
                  broken>>
  BY DEF Client, ClientReady, ClientRuns, ClientFails, ClientEnds, ClientStep, Runner,
         RunnerStart, RunnerCheck, RunnerWait, RunnerUnlock, RunnerMark,
         RunnerUnlockAgain, RunnerStep
<1>2. SlotsInPool' /\ CommandAt'
  BY <1>1 DEF SlotsInPool, CommandAt, Cmd
<1>3. /\ (lock' => lock) /\ {lock, stolen}' \subseteq BOOLEAN
      /\ pjc' \in [Slots -> {"AVAILABLE", "RUNNING", "STOPPED"}]
      /\ client' \in [Slots -> Clients]
      /\ runner' \in [Slots -> RunnerPcs]
  <2> USE DEF TypeOK
  <2>1. CASE Client(s)
    BY <2>1 DEF Client, ClientReady, ClientRuns, ClientFails, ClientEnds, ClientStep, Clients
  <2>2. CASE RunnerStart(s)
    BY <2>2 DEF RunnerStart, RunnerStep, Clients, RunnerPcs
  <2>3. CASE RunnerCheck(s)
    <3>1. client' \in [Slots -> Clients]
      BY <2>3, StopClientsType DEF RunnerCheck
    <3> QED
      BY <2>3, <3>1 DEF RunnerCheck, RunnerStep, RunnerPcs
  <2>4. CASE RunnerWait(s)
    BY <2>4 DEF RunnerWait, RunnerStep, Clients, RunnerPcs
  <2>5. CASE RunnerUnlock(s)
    BY <2>5 DEF RunnerUnlock, RunnerStep, StrayUnlock, RunnerPcs
  <2>6. CASE RunnerMark(s)
    BY <2>6 DEF RunnerMark, RunnerStep, RunnerPcs
  <2>7. CASE RunnerUnlockAgain(s)
    BY <2>7 DEF RunnerUnlockAgain, RunnerStep, StrayUnlock, RunnerPcs
  <2> QED
    BY <2>1, <2>2, <2>3, <2>4, <2>5, <2>6, <2>7 DEF Runner
<1>4. TypeOK'
  BY <1>1, <1>3 DEF TypeOK
<1>5. LockReleased' /\ Handle'
  BY <1>1, <1>3 DEF LockReleased, Inside, Handle
<1> QED
  BY <1>2, <1>4, <1>5

(* An activation that ends leaves the walks and the commands in order.     *)
LEMMA Returned ==
  ASSUME Shape, NEW from, Return(from)
  PROVE  /\ mpc' \in [Acts -> MainPcs] /\ running' \in Acts /\ under' \in [Acts -> Acts]
         /\ mslot' \in [Acts -> 1..Pool + 1] /\ left' \in [Acts -> 0..Devices]
         /\ cmd' \in Methods /\ held' \in BOOLEAN /\ CommandAt'
         /\ \A a \in Acts : \/ mpc'[a] = "idle"
                            \/ /\ mpc'[a] = mpc[a]
                               /\ mslot'[a] = mslot[a]
                               /\ left'[a] = left[a]
         /\ UNCHANGED <<commands, nested, stolen>>
<1> USE ServiceAssumption DEF Return, Goto, Shape, TypeOK, Acts, Handlers, Methods, MainPcs
<1>1. CommandAt'
  BY DEF CommandAt, Cmd, StartPcs, RenamePcs
<1>2. held' \in BOOLEAN
  <2>1. held' \in {TRUE, FALSE, held}
    BY Zenon DEF Cmd
  <2> QED
    BY <2>1
<1>3. \A a \in Acts : \/ mpc'[a] = "idle"
                      \/ /\ mpc'[a] = mpc[a]
                         /\ mslot'[a] = mslot[a]
                         /\ left'[a] = left[a]
  OBVIOUS
<1>4. mslot' \in [Acts -> 1..Pool + 1] /\ left' \in [Acts -> 0..Devices]
  OBVIOUS
<1>5. /\ mpc' \in [Acts -> MainPcs] /\ running' \in Acts /\ under' \in [Acts -> Acts]
      /\ cmd' \in Methods /\ UNCHANGED <<commands, nested, stolen>>
  OBVIOUS
<1> QED
  BY <1>1, <1>2, <1>3, <1>4, <1>5

(* A step of start_all over the pool and the list of devices.             *)
LEMMA Advance ==
  ASSUME NEW s \in Slots, NEW n \in 0..Devices, n > 0
  PROVE  s + 1 \in 1..Pool + 1 /\ n - 1 \in 0..Devices
  BY ServiceAssumption DEF Slots

(* The main thread stays within the pool. *)
LEMMA MainShape ==
  ASSUME Shape, Main \/ Commands \/ \E a \in Handlers : Signal(a)
  PROVE  Shape'
<1>1. TypeOK
  BY DEF Shape
<1>2. SlotsInPool
  BY DEF Shape
<1>3. CommandAt
  BY DEF Shape
<1>4. LockReleased /\ Handle
  BY DEF Shape
<1> USE ServiceAssumption
    DEF TypeOK, SlotsInPool, CommandAt, Handle, LockReleased, Inside, Slots, Acts,
        Handlers, MainPcs, Methods, StartPcs, RenamePcs, Cmd, At, Walk,
        globals, slots, walks, stack, hot, Goto, Step
<1>5. CASE StopLock
  <2>1. TypeOK'
    BY <1>1, <1>5 DEF StopLock
  <2>2. SlotsInPool'
    BY <1>1, <1>2, <1>5 DEF StopLock
  <2>3. CommandAt'
    BY <1>1, <1>3, <1>5 DEF StopLock
  <2>4. LockReleased' /\ Handle'
    BY <1>1, <1>4, <1>5 DEF StopLock
  <2> QED
    BY <2>1, <2>2, <2>3, <2>4 DEF Shape
<1>6. CASE StopAll
  <2>1. client' \in [Slots -> Clients]
    BY <1>1, <1>6, StopClientsType DEF StopAll
  <2>2. broken' \in {"no", "freed", "joined", "shared", "orphan"}
    BY <1>1, <1>6 DEF StopAll, Break
  <2>3. /\ mpc[running] = "stop_all" /\ mpc' = [mpc EXCEPT ![running] = "wait_each"]
        /\ mslot' = [mslot EXCEPT ![running] = 1]
        /\ lock' = FALSE
    BY <1>1, <1>6 DEF StopAll
  <2>4. UNCHANGED <<stack, hot, stolen, force_stop, hotplug_running, hotplug_thread, pjc,
                    runner, left>>
    BY <1>1, <1>6 DEF StopAll
  <2>5. mpc' \in [Acts -> MainPcs] /\ mslot' \in [Acts -> 1..Pool + 1]
    BY <1>1, <2>3
  <2>6. TypeOK'
    BY <1>1, <2>1, <2>2, <2>3, <2>4, <2>5
  <2>7. SlotsInPool' /\ CommandAt'
    BY <1>1, <1>2, <1>3, <2>3, <2>4
  <2>8. LockReleased' /\ Handle'
    BY <1>1, <1>4, <2>3, <2>4
  <2> QED
    BY <2>6, <2>7, <2>8 DEF Shape
<1>7. CASE WaitEach
  <2>1. mslot[running] \in Slots /\ UNCHANGED <<globals, slots, left, broken>>
    BY <1>1, <1>2, <1>7 DEF WaitEach
  <2>2. CASE Step("wait_each", "join") /\ UNCHANGED mslot
    <3>1. TypeOK'
      BY <1>1, <2>1, <2>2
    <3>2. SlotsInPool'
      BY <1>1, <1>2, <2>1, <2>2
    <3>3. CommandAt' /\ LockReleased' /\ Handle'
      BY <1>1, <1>3, <1>4, <2>1, <2>2
    <3> QED
      BY <3>1, <3>2, <3>3 DEF Shape
  <2>3. CASE Step("wait_each", "wait_each") /\ Walk(At + 1)
    <3>1. TypeOK'
      <4>1. mpc' \in [Acts -> MainPcs]
        BY <1>1, <2>3
      <4>2. mslot[running] + 1 \in 1..Pool + 1
        BY <2>1
      <4>3. mslot' \in [Acts -> 1..Pool + 1]
        BY <1>1, <2>3, <4>2
      <4> QED
        BY <1>1, <2>1, <2>3, <4>1, <4>3
    <3>2. SlotsInPool'
      BY <1>1, <1>2, <2>1, <2>3
    <3>3. CommandAt' /\ LockReleased' /\ Handle'
      BY <1>1, <1>3, <1>4, <2>1, <2>3
    <3> QED
      BY <3>1, <3>2, <3>3 DEF Shape
  <2> QED
    BY <1>7, <2>2, <2>3 DEF WaitEach
<1>8. CASE MainJoin
  <2>1. TypeOK'
    BY <1>1, <1>8 DEF MainJoin, JoinBegins, Break
  <2>2. SlotsInPool'
    BY <1>1, <1>2, <1>8 DEF MainJoin, JoinBegins, Break
  <2>3. CommandAt'
    BY <1>1, <1>3, <1>8 DEF MainJoin, JoinBegins, Break
  <2>4. LockReleased' /\ Handle'
    BY <1>1, <1>4, <1>8 DEF MainJoin, JoinBegins, Break
  <2> QED
    BY <2>1, <2>2, <2>3, <2>4 DEF Shape
<1>9. CASE MainJoined
  <2>1. TypeOK'
    BY <1>1, <1>9 DEF MainJoined, JoinReturns, RunnerPcs
  <2>2. SlotsInPool'
    BY <1>1, <1>2, <1>9 DEF MainJoined, JoinReturns, RunnerPcs
  <2>3. CommandAt'
    BY <1>1, <1>3, <1>9 DEF MainJoined, JoinReturns, RunnerPcs
  <2>4. LockReleased' /\ Handle'
    BY <1>1, <1>4, <1>9 DEF MainJoined, JoinReturns, RunnerPcs
  <2> QED
    BY <2>1, <2>2, <2>3, <2>4 DEF Shape
<1>10. CASE MainMark
  <2>1. TypeOK'
    <3>1. mslot[running] \in Slots /\ mslot[running] + 1 \in 1..Pool + 1
      BY <1>1, <1>2, <1>10 DEF MainMark
    <3>2. mslot' \in [Acts -> 1..Pool + 1]
      BY <1>1, <1>10, <3>1 DEF MainMark
    <3>3. pjc' \in [Slots -> {"AVAILABLE", "RUNNING", "STOPPED"}]
      BY <1>1, <1>10, <3>1 DEF MainMark
    <3>4. mpc' \in [Acts -> MainPcs]
      BY <1>1, <1>10 DEF MainMark
    <3> QED
      BY <1>1, <1>10, <3>2, <3>3, <3>4 DEF MainMark
  <2>2. SlotsInPool'
    BY <1>1, <1>2, <1>10 DEF MainMark
  <2>3. CommandAt'
    BY <1>1, <1>3, <1>10 DEF MainMark
  <2>4. LockReleased' /\ Handle'
    BY <1>1, <1>4, <1>10 DEF MainMark
  <2> QED
    BY <2>1, <2>2, <2>3, <2>4 DEF Shape
<1>11. CASE WaitedAll
  <2>1. TypeOK'
    BY <1>1, <1>11 DEF WaitedAll
  <2>2. SlotsInPool'
    BY <1>1, <1>2, <1>11 DEF WaitedAll
  <2>3. CommandAt'
    BY <1>1, <1>3, <1>11 DEF WaitedAll
  <2>4. LockReleased' /\ Handle'
    BY <1>1, <1>4, <1>11 DEF WaitedAll
  <2> QED
    BY <2>1, <2>2, <2>3, <2>4 DEF Shape
<1>12. CASE JoinHotplug
  <2>1. TypeOK'
    BY <1>1, <1>12 DEF JoinHotplug, Break
  <2>2. SlotsInPool'
    BY <1>1, <1>2, <1>12 DEF JoinHotplug, Break
  <2>3. CommandAt'
    BY <1>1, <1>3, <1>12 DEF JoinHotplug, Break
  <2>4. LockReleased' /\ Handle'
    BY <1>1, <1>4, <1>12 DEF JoinHotplug, Break
  <2> QED
    BY <2>1, <2>2, <2>3, <2>4 DEF Shape
<1>13. CASE JoinedHotplug
  <2>1. TypeOK'
    BY <1>1, <1>13 DEF JoinedHotplug
  <2>2. SlotsInPool'
    BY <1>1, <1>2, <1>13 DEF JoinedHotplug
  <2>3. CommandAt'
    BY <1>1, <1>3, <1>13 DEF JoinedHotplug
  <2>4. LockReleased' /\ Handle'
    BY <1>1, <1>4, <1>13 DEF JoinedHotplug
  <2> QED
    BY <2>1, <2>2, <2>3, <2>4 DEF Shape
<1>14. CASE AfterStop
  <2>1. CASE Return("stopped")
    <3>1. /\ UNCHANGED <<globals, slots, hot, broken>>
          /\ mpc[running] = "stopped" /\ mpc' = [mpc EXCEPT ![running] = "idle"]
      BY <1>1, <1>14, <2>1 DEF AfterStop, Return
    <3>2. TypeOK'
      <4>1. /\ mpc' \in [Acts -> MainPcs] /\ mslot' \in [Acts -> 1..Pool + 1]
            /\ left' \in [Acts -> 0..Devices] /\ running' \in Acts
            /\ under' \in [Acts -> Acts] /\ cmd' \in Methods /\ held' \in BOOLEAN
            /\ UNCHANGED <<commands, nested, stolen>>
        BY <1>1, <2>1, Returned DEF Shape
      <4> QED
        BY <1>1, <3>1, <4>1
    <3>3. SlotsInPool'
      BY <1>1, <1>2, <2>1, <3>1, Returned
    <3>4. LockReleased' /\ Handle'
      BY <1>1, <1>4, <3>1
    <3> QED
      BY <2>1, <3>2, <3>3, <3>4, Returned DEF Shape
  <2>2. CASE Step("stopped", "startup")
    <3>1. Cmd(running) = "Start" /\ UNCHANGED <<globals, slots, walks, broken>>
      BY <1>1, <1>14, <2>2 DEF AfterStop, Return
    <3> QED
      BY <2>2, <3>1 DEF Shape
  <2> QED
    BY <1>14, <2>1, <2>2 DEF AfterStop
<1>15. CASE Startup
  <2>1. CASE Return("startup")
    <3>1. /\ UNCHANGED <<lock, hotplug_running, hotplug_thread, slots, hot, broken>>
          /\ force_stop' = FALSE
          /\ mpc[running] = "startup" /\ mpc' = [mpc EXCEPT ![running] = "idle"]
      BY <1>1, <1>15, <2>1 DEF Startup, Return
    <3>2. {lock, force_stop, hotplug_running, stolen, nested, held}' \subseteq BOOLEAN
      <4>1. {lock, force_stop, hotplug_running}' \subseteq BOOLEAN
        BY <1>1, <3>1
      <4>2. {stolen, nested}' \subseteq BOOLEAN /\ held' \in BOOLEAN
        BY <1>1, <2>1, Returned
      <4> QED
        BY <4>1, <4>2
    <3>3. TypeOK'
      <4>1. /\ mpc' \in [Acts -> MainPcs] /\ mslot' \in [Acts -> 1..Pool + 1]
            /\ left' \in [Acts -> 0..Devices] /\ running' \in Acts
            /\ under' \in [Acts -> Acts] /\ cmd' \in Methods /\ UNCHANGED commands
        BY <1>1, <2>1, Returned DEF Shape
      <4> QED
        BY <1>1, <3>1, <3>2, <4>1
    <3>4. SlotsInPool'
      BY <1>1, <1>2, <2>1, <3>1, Returned
    <3>5. LockReleased' /\ Handle'
      BY <1>1, <1>4, <3>1
    <3> QED
      BY <2>1, <3>3, <3>4, <3>5, Returned DEF Shape
  <2>2. CASE Step("startup", "check")
    <3>1. /\ UNCHANGED <<lock, hotplug_running, hotplug_thread, slots, broken>>
          /\ force_stop' = FALSE /\ mslot' = [mslot EXCEPT ![running] = 1]
          /\ \E n \in 0..Devices : n <= Pool /\ left' = [left EXCEPT ![running] = n]
      BY <1>1, <1>15, <2>2 DEF Startup, Return
    <3>2. {lock, force_stop, hotplug_running, stolen, nested, held}' \subseteq BOOLEAN
      BY <1>1, <2>2, <3>1
    <3>3. mslot' \in [Acts -> 1..Pool + 1] /\ left' \in [Acts -> 0..Devices]
      BY <1>1, <3>1
    <3>4. TypeOK'
      BY <1>1, <2>2, <3>2, <3>3, <3>1
    <3>5. SlotsInPool'
      BY <1>1, <1>2, <2>2, <3>1
    <3>6. CommandAt' /\ LockReleased' /\ Handle'
      BY <1>1, <1>3, <1>4, <2>2, <3>1
    <3> QED
      BY <3>4, <3>5, <3>6 DEF Shape
  <2> QED
    BY <1>15, <2>1, <2>2 DEF Startup
<1>16. CASE StartCheck
  <2>1. TypeOK'
    BY <1>1, <1>16 DEF StartCheck
  <2>2. SlotsInPool'
    BY <1>1, <1>2, <1>16 DEF StartCheck
  <2>3. CommandAt'
    BY <1>1, <1>3, <1>16 DEF StartCheck
  <2>4. LockReleased' /\ Handle'
    BY <1>1, <1>4, <1>16 DEF StartCheck
  <2> QED
    BY <2>1, <2>2, <2>3, <2>4 DEF Shape
<1>17. CASE StartLock
  <2>1. TypeOK'
    BY <1>1, <1>17 DEF StartLock
  <2>2. SlotsInPool'
    <3>1. \A a \in Acts : \/ mpc'[a] = mpc[a]
                          \/ a = running /\ mpc'[a] = "start_single"
      BY <1>1, <1>17 DEF StartLock
    <3>2. left[running] > 0 /\ mpc[running] = "start_lock"
      BY <1>17 DEF StartLock
    <3>3. UNCHANGED <<mslot, left, hpc, hslot>>
      BY <1>17 DEF StartLock
    <3>4. mslot[running] \in Slots
      BY <1>1, <1>2, <3>2
    <3> QED
      BY <1>2, <3>1, <3>2, <3>3, <3>4
  <2>3. CommandAt'
    BY <1>1, <1>3, <1>17 DEF StartLock
  <2>4. LockReleased' /\ Handle'
    BY <1>1, <1>4, <1>17 DEF StartLock
  <2> QED
    BY <2>1, <2>2, <2>3, <2>4 DEF Shape
<1>18. CASE MainStartSingle
  <2>1. /\ Step("start_single", "start_lock") /\ StartSingle(mslot[running])
        /\ lock' = FALSE
        /\ mslot' = [mslot EXCEPT ![running] = mslot[running] + 1]
        /\ left' = [left EXCEPT ![running] = left[running] - 1]
        /\ UNCHANGED <<force_stop, hotplug_running, hotplug_thread>>
    BY <1>1, <1>18 DEF MainStartSingle
  <2>2. /\ mslot[running] \in Slots /\ left[running] > 0
        /\ mslot[running] + left[running] <= Pool + 1
    BY <1>1, <1>2, <2>1
  <2>3. /\ pjc' \in [Slots -> {"AVAILABLE", "RUNNING", "STOPPED"}]
        /\ client' \in [Slots -> Clients]
        /\ runner' \in [Slots -> RunnerPcs]
        /\ broken' \in {"no", "freed", "joined", "shared", "orphan"}
    BY <1>1, <2>1, <2>2, StartSingleSlots
  <2>4. mslot' \in [Acts -> 1..Pool + 1] /\ left' \in [Acts -> 0..Devices]
    <3>1. mslot[running] + 1 \in 1..Pool + 1 /\ left[running] - 1 \in 0..Devices
      BY <1>1, <2>2, Advance
    <3> QED
      BY <2>1, <3>1 DEF Shape
  <2>5. TypeOK'
    BY <1>1, <2>1, <2>3, <2>4
  <2>6. SlotsInPool'
    <3>1. \A a \in Acts : a # running => /\ mpc'[a] = mpc[a]
                                         /\ mslot'[a] = mslot[a]
                                         /\ left'[a] = left[a]
      BY <1>1, <2>1
    <3>2. mpc'[running] = "start_lock" /\ UNCHANGED <<hpc, hslot>>
      BY <1>1, <2>1
    <3>3. mslot'[running] = mslot[running] + 1 /\ left'[running] = left[running] - 1
      BY <1>1, <2>1
    <3>4. left[running] \in 0..Devices
      BY <1>1
    <3>5. mslot'[running] + left'[running] <= Pool + 1
      BY <2>2, <3>3, <3>4
    <3> QED
      BY <1>2, <3>1, <3>2, <3>5
  <2>7. CommandAt' /\ LockReleased' /\ Handle'
    BY <1>1, <1>3, <1>4, <2>1
  <2> QED
    BY <2>5, <2>6, <2>7 DEF Shape
<1>19. CASE StartedAll
  <2>1. TypeOK'
    BY <1>1, <1>19 DEF StartedAll
  <2>2. SlotsInPool'
    BY <1>1, <1>2, <1>19 DEF StartedAll
  <2>3. CommandAt'
    BY <1>1, <1>3, <1>19 DEF StartedAll
  <2>4. LockReleased' /\ Handle'
    BY <1>1, <1>4, <1>19 DEF StartedAll
  <2> QED
    BY <2>1, <2>2, <2>3, <2>4 DEF Shape
<1>20. CASE StartHotplug
  <2>1. /\ Return("start_hotplug")
        /\ UNCHANGED <<lock, force_stop, hotplug_running, slots, hslot>>
        /\ \/ /\ hpc \in {"none", "ended"} /\ hpc' = "begin"
              /\ hotplug_thread' = "live" /\ UNCHANGED broken
           \/ broken' \in {broken, "orphan"} /\ UNCHANGED <<hpc, hotplug_thread>>
    BY <1>1, <1>20 DEF StartHotplug
  <2>2. mpc[running] = "start_hotplug" /\ mpc' = [mpc EXCEPT ![running] = "idle"]
    BY <1>1, <2>1 DEF Return
  <2>3. hpc' \in HotplugPcs /\ hpc' \in {hpc, "begin"}
    BY <1>1, <2>1 DEF HotplugPcs
  <2>4. hotplug_thread' \in {"none", "live", "joined"}
    BY <1>1, <2>1
  <2>5. broken' \in {"no", "freed", "joined", "shared", "orphan"}
    BY <1>1, <2>1
  <2>6. TypeOK'
    <3>1. /\ mpc' \in [Acts -> MainPcs] /\ mslot' \in [Acts -> 1..Pool + 1]
          /\ left' \in [Acts -> 0..Devices] /\ running' \in Acts
          /\ under' \in [Acts -> Acts] /\ cmd' \in Methods /\ held' \in BOOLEAN
          /\ UNCHANGED <<commands, nested, stolen>>
      BY <2>1, Returned
    <3> QED
      BY <1>1, <2>1, <2>3, <2>4, <2>5, <3>1
  <2>7. SlotsInPool'
    BY <1>1, <1>2, <2>1, <2>3, Returned
  <2>8. LockReleased'
    <3>1. lock' = lock /\ (hpc = "start_single" => hpc' = "start_single")
      BY <1>1, <2>1
    <3> QED
      BY <2>2, <3>1 DEF Shape
  <2>9. Handle'
    BY <1>1, <1>4, <2>1
  <2> QED
    BY <2>1, <2>6, <2>7, <2>8, <2>9, Returned DEF Shape
<1>21. CASE RenameJoin
  <2>1. TypeOK'
    BY <1>1, <1>21 DEF RenameJoin, JoinBegins, Break
  <2>2. SlotsInPool'
    BY <1>1, <1>2, <1>21 DEF RenameJoin, JoinBegins, Break
  <2>3. CommandAt'
    BY <1>1, <1>3, <1>21 DEF RenameJoin, JoinBegins, Break
  <2>4. LockReleased' /\ Handle'
    BY <1>1, <1>4, <1>21 DEF RenameJoin, JoinBegins, Break
  <2> QED
    BY <2>1, <2>2, <2>3, <2>4 DEF Shape
<1>22. CASE RenameJoined
  <2>1. TypeOK'
    BY <1>1, <1>22 DEF RenameJoined, JoinReturns, RunnerPcs
  <2>2. SlotsInPool'
    BY <1>1, <1>2, <1>22 DEF RenameJoined, JoinReturns, RunnerPcs
  <2>3. CommandAt'
    BY <1>1, <1>3, <1>22 DEF RenameJoined, JoinReturns, RunnerPcs
  <2>4. LockReleased' /\ Handle'
    BY <1>1, <1>4, <1>22 DEF RenameJoined, JoinReturns, RunnerPcs
  <2> QED
    BY <2>1, <2>2, <2>3, <2>4 DEF Shape
<1>23. CASE Restart
  <2>1. /\ Return("restart") /\ StartSingle(mslot[running]) /\ lock' = FALSE
        /\ mslot[running] \in Slots
        /\ UNCHANGED <<force_stop, hotplug_running, hotplug_thread, hot>>
    BY <1>1, <1>2, <1>23 DEF Restart, Return
  <2>2. /\ pjc' \in [Slots -> {"AVAILABLE", "RUNNING", "STOPPED"}]
        /\ client' \in [Slots -> Clients]
        /\ runner' \in [Slots -> RunnerPcs]
        /\ broken' \in {"no", "freed", "joined", "shared", "orphan"}
    BY <1>1, <2>1, StartSingleSlots
  <2>3. TypeOK'
    <3>1. {lock, force_stop, hotplug_running, stolen, nested, held}' \subseteq BOOLEAN
      BY <1>1, <2>1, Returned
    <3>2. hotplug_thread' \in {"none", "live", "joined"} /\ hpc' \in HotplugPcs
          /\ hslot' \in 1..Pool + 1 /\ commands' \in 0..MaxCommands
      BY <1>1, <2>1, Returned
    <3> QED
      BY <2>1, <2>2, <3>1, <3>2, Returned DEF Shape
  <2>4. SlotsInPool' /\ LockReleased' /\ Handle'
    BY <1>1, <1>2, <1>4, <2>1, Returned
  <2> QED
    BY <2>1, <2>3, <2>4, Returned DEF Shape
<1>24. CASE Quit
  <2>1. TypeOK'
    BY <1>1, <1>24 DEF Quit
  <2>2. SlotsInPool'
    BY <1>1, <1>2, <1>24 DEF Quit
  <2>3. CommandAt'
    BY <1>1, <1>3, <1>24 DEF Quit
  <2>4. LockReleased' /\ Handle'
    BY <1>1, <1>4, <1>24 DEF Quit
  <2> QED
    BY <2>1, <2>2, <2>3, <2>4 DEF Shape
<1>25. CASE StopOrStart
  <2>1. TypeOK'
    BY <1>1, <1>25 DEF StopOrStart, Command
  <2>2. SlotsInPool'
    BY <1>1, <1>2, <1>25 DEF StopOrStart, Command
  <2>3. CommandAt'
    BY <1>1, <1>3, <1>25 DEF StopOrStart, Command
  <2>4. LockReleased' /\ Handle'
    BY <1>1, <1>4, <1>25 DEF StopOrStart, Command
  <2> QED
    BY <2>1, <2>2, <2>3, <2>4 DEF Shape
<1>26. CASE Rename
  <2>1. client' \in [Slots -> Clients]
    BY <1>1, <1>26, StopClientsType DEF Rename
  <2>2. broken' \in {"no", "freed", "joined", "shared", "orphan"}
    BY <1>1, <1>26 DEF Rename, Break
  <2>3. /\ mpc["method"] = "idle" /\ running = "method" /\ ~lock
        /\ commands' \in 0..MaxCommands
        /\ UNCHANGED <<running, under, held, nested, hot, stolen, force_stop,
                       hotplug_running, hotplug_thread, pjc, runner, left>>
    BY <1>1, <1>26 DEF Rename, Command
  <2>4. \/ UNCHANGED <<lock, cmd, mslot, mpc>>
        \/ /\ lock' = TRUE /\ cmd' = "SetDeviceName"
           /\ \E s \in Slots : mslot' = [mslot EXCEPT !["method"] = s]
           /\ mpc' = [mpc EXCEPT !["method"] = "rename_join"]
    BY <1>1, <1>2, <1>26 DEF Rename, Command
  <2>5. CASE UNCHANGED <<lock, cmd, mslot, mpc>>
    <3>1. TypeOK'
      BY <1>1, <2>1, <2>2, <2>3, <2>5
    <3> QED
      BY <2>3, <2>5, <3>1 DEF Shape
  <2>6. CASE /\ lock' = TRUE /\ cmd' = "SetDeviceName"
             /\ \E s \in Slots : mslot' = [mslot EXCEPT !["method"] = s]
             /\ mpc' = [mpc EXCEPT !["method"] = "rename_join"]
    <3>1. TypeOK'
      BY <1>1, <2>1, <2>2, <2>3, <2>6
    <3>2. SlotsInPool'
      BY <1>1, <1>2, <2>3, <2>6
    <3>3. CommandAt' /\ LockReleased' /\ Handle'
      BY <1>1, <1>3, <1>4, <2>3, <2>6
    <3> QED
      BY <3>1, <3>2, <3>3 DEF Shape
  <2> QED
    BY <2>4, <2>5, <2>6 DEF Shape
<1>27. CASE GetState
  <2>1. TypeOK'
    BY <1>1, <1>27 DEF GetState, Command, Break
  <2>2. SlotsInPool'
    BY <1>1, <1>2, <1>27 DEF GetState, Command, Break
  <2>3. CommandAt'
    BY <1>1, <1>3, <1>27 DEF GetState, Command, Break
  <2>4. LockReleased' /\ Handle'
    BY <1>1, <1>4, <1>27 DEF GetState, Command, Break
  <2> QED
    BY <2>1, <2>2, <2>3, <2>4 DEF Shape
<1>28. CASE \E a \in Handlers : Signal(a)
  <2>1. TypeOK'
    BY <1>1, <1>28 DEF Signal
  <2>2. SlotsInPool'
    BY <1>1, <1>2, <1>28 DEF Signal
  <2>3. CommandAt'
    BY <1>1, <1>3, <1>28 DEF Signal
  <2>4. LockReleased' /\ Handle'
    BY <1>1, <1>4, <1>28 DEF Signal
  <2> QED
    BY <2>1, <2>2, <2>3, <2>4 DEF Shape
<1> QED
  BY <1>5, <1>6, <1>7, <1>8, <1>9, <1>10, <1>11, <1>12, <1>13, <1>14, <1>15, <1>16, <1>17,
     <1>18, <1>19, <1>20, <1>21, <1>22, <1>23, <1>24, <1>25, <1>26, <1>27, <1>28
  DEF Main, Commands

(* So does the hotplug thread. *)
LEMMA HotplugShape ==
  ASSUME Shape, HotplugThread
  PROVE  Shape'
<1>1. /\ UNCHANGED <<mpc, walks, stack, force_stop, hotplug_thread, stolen>>
      /\ hpc # "none"
  BY DEF HotplugThread, HotBegin, HotPoll, HotArrive, HotRecycle, HotJoin, HotJoined,
         HotRecycled, HotRecycledAll, HotFind, HotLock, HotStartSingle, HotStep
<1>2. CommandAt' /\ Handle'
  BY <1>1 DEF Shape, CommandAt, Handle, Cmd, stack
<1>3. ASSUME TypeOK', LockReleased',
             hpc' \in {"join", "joining", "recycled", "lock", "start_single"} => hslot' \in Slots
      PROVE  Shape'
  BY <1>1, <1>2, <1>3 DEF Shape, SlotsInPool, walks
<1>4. /\ TypeOK' /\ LockReleased'
      /\ hpc' \in {"join", "joining", "recycled", "lock", "start_single"} => hslot' \in Slots
  <2> USE ServiceAssumption
      DEF Shape, TypeOK, LockReleased, Inside, Slots, SlotsInPool, HotplugPcs,
          globals, slots, walks, stack, hot, HotStep
  <2>1. CASE HotBegin
    BY <2>1 DEF HotBegin
  <2>2. CASE HotPoll
    BY <2>2 DEF HotPoll
  <2>3. CASE HotArrive
    BY <2>3 DEF HotArrive
  <2>4. CASE HotRecycle
    BY <2>4 DEF HotRecycle
  <2>5. CASE HotJoin
    BY <2>5 DEF HotJoin, JoinBegins, Break
  <2>6. CASE HotJoined
    BY <2>6 DEF HotJoined, JoinReturns, RunnerPcs
  <2>7. CASE HotRecycled
    BY <2>7 DEF HotRecycled
  <2>8. CASE HotRecycledAll
    BY <2>8 DEF HotRecycledAll
  <2>9. CASE HotFind
    BY <2>9 DEF HotFind
  <2>10. CASE HotLock
    BY <2>10 DEF HotLock
  <2>11. CASE HotStartSingle
    <3>1. /\ HotStep("start_single", "loop") /\ StartSingle(hslot) /\ hslot \in Slots
          /\ lock' = FALSE /\ hslot' = 1 /\ UNCHANGED hotplug_running
      BY <2>11 DEF HotStartSingle
    <3>2. /\ pjc' \in [Slots -> {"AVAILABLE", "RUNNING", "STOPPED"}]
          /\ client' \in [Slots -> Clients]
          /\ runner' \in [Slots -> RunnerPcs]
          /\ broken' \in {"no", "freed", "joined", "shared", "orphan"}
      BY <3>1, StartSingleSlots
    <3>3. hpc' \in HotplugPcs /\ hslot' \in 1..Pool + 1 /\ hotplug_running' \in BOOLEAN
      BY <3>1
    <3>4. TypeOK'
      BY <1>1, <3>1, <3>2, <3>3
    <3> QED
      BY <3>1, <3>4
  <2> QED
    BY <2>1, <2>2, <2>3, <2>4, <2>5, <2>6, <2>7, <2>8, <2>9, <2>10, <2>11
    DEF HotplugThread
<1> QED
  BY <1>3, <1>4

(* Every step keeps the shape. *)
LEMMA StepShape == Shape /\ [Next]_vars => Shape'
<1> SUFFICES ASSUME Shape, [Next]_vars PROVE Shape'
  OBVIOUS
<1>1. CASE UNCHANGED vars
  BY <1>1
  DEF Shape, TypeOK, SlotsInPool, CommandAt, Handle, LockReleased, Inside, Cmd,
      vars, globals, slots, walks, stack, hot
<1> QED
  BY <1>1, SlotShape, MainShape, HotplugShape DEF Next

-----------------------------------------------------------------------------
(* A client and its runner: a runner that finds the lock taken frees it    *)
(* under another thread, and nothing is claimed from then on.              *)
LEMMA SlotDisciplined ==
  ASSUME Shape, Disciplined, broken = "no", ~stolen', NEW s \in Slots,
         Client(s) \/ Runner(s)
  PROVE  Disciplined'
<1> DEFINE Moves == /\ UNCHANGED <<mpc, mslot, left, running, under, hpc, hslot,
                                   force_stop, broken>>
                    /\ lock' <=> lock
                    /\ \A t \in Slots : /\ Available(t)' <=> Available(t)
                                        /\ runner'[t] = "none" <=> runner[t] = "none"
                                        /\ pjc'[t] = pjc[t] \/ pjc'[t] = "STOPPED"
<1>1. Moves
  <2> USE DEF Available, globals, walks, stack, hot
  <2>1. pjc \in [Slots -> {"AVAILABLE", "RUNNING", "STOPPED"}] /\ runner \in [Slots -> RunnerPcs]
    BY DEF Shape, TypeOK
  <2>2. CASE Client(s)
    BY <2>2 DEF Client, ClientReady, ClientRuns, ClientFails, ClientEnds, ClientStep
  <2>3. CASE RunnerStart(s)
    BY <2>1, <2>3 DEF RunnerStart, RunnerStep
  <2>4. CASE RunnerCheck(s)
    BY <2>1, <2>4 DEF RunnerCheck, RunnerStep
  <2>5. CASE RunnerWait(s)
    BY <2>1, <2>5 DEF RunnerWait, RunnerStep
  <2>6. CASE RunnerUnlock(s)
    BY <2>1, <2>6 DEF RunnerUnlock, RunnerStep, StrayUnlock
  <2>7. CASE RunnerMark(s)
    <3>1. runner[s] = "mark" /\ ~Available(s)
      BY <2>7 DEF RunnerMark, RunnerStep, Disciplined, FreeSlots
    <3> QED
      BY <2>1, <2>7, <3>1 DEF RunnerMark, RunnerStep
  <2>8. CASE RunnerUnlockAgain(s)
    BY <2>1, <2>8 DEF RunnerUnlockAgain, RunnerStep, StrayUnlock
  <2> QED
    BY <2>2, <2>3, <2>4, <2>5, <2>6, <2>7, <2>8 DEF Runner
<1> HIDE DEF Moves
<1>2. FreeSlots' /\ Stopped' /\ broken' # "shared"
  BY <1>1 DEF Moves, Disciplined, FreeSlots, Stopped
<1>3. Order
  BY DEF Disciplined
<1>4. SlotsInPool
  BY DEF Shape
<1>5. Stack' /\ Exclusive'
  BY <1>1, <1>3 DEF Moves, Order, Stack, Exclusive, Inside, HotInside
<1>6. Stopping' /\ Starting'
  BY <1>1, <1>3 DEF Moves, Order, Stopping, Starting, HotInside, NoHotplug
<1>7. Joining'
  BY <1>1, <1>3, <1>4 DEF Moves, Order, Joining, Joins, HotJoins, SlotsInPool
<1>8. HotplugSlot' /\ RenamedSlot'
  BY <1>1, <1>3, <1>4
  DEF Moves, Order, HotplugSlot, HotJoins, RenamedSlot, SlotsInPool, RenamePcs, Available
<1> QED
  BY <1>2, <1>5, <1>6, <1>7, <1>8 DEF Disciplined, Order

(* The hotplug thread: it finds a free slot before it takes the lock, and  *)
(* the slot is still free when it has it.                                  *)
LEMMA HotplugDisciplined ==
  ASSUME Shape, Disciplined, broken = "no", ~stolen', HotplugThread
  PROVE  Disciplined'
<1>1. UNCHANGED <<mpc, walks, stack, force_stop>>
  BY DEF HotplugThread, HotBegin, HotPoll, HotArrive, HotRecycle, HotJoin, HotJoined,
         HotRecycled, HotRecycledAll, HotFind, HotLock, HotStartSingle, HotStep
<1>2. /\ SlotsInPool /\ CommandAt /\ Order /\ FreeSlots /\ Stopped
      /\ pjc \in [Slots -> {"AVAILABLE", "RUNNING", "STOPPED"}]
      /\ runner \in [Slots -> RunnerPcs]
      /\ hslot \in 1..Pool + 1
  BY DEF Shape, TypeOK, Disciplined
<1>3. Stack'
  BY <1>1, <1>2 DEF Order, Stack, stack
<1>4. ASSUME FreeSlots', Stopped', broken' # "shared",
             broken' = "no" =>
               Exclusive' /\ Stopping' /\ Starting' /\ Joining' /\ HotplugSlot' /\ RenamedSlot'
      PROVE  Disciplined'
  BY <1>3, <1>4 DEF Disciplined, Order
<1> USE ServiceAssumption
    DEF Order, Exclusive, Inside, HotInside, FreeSlots, Available,
        Stopping, StopPcs, Starting, StartPcs, HotplugSlot, RenamedSlot, RenamePcs, Joining,
        Joins, HotJoins, Stopped, NoHotplug, Slots, SlotsInPool, CommandAt,
        globals, slots, walks, stack, hot, HotStep
<1>5. CASE HotBegin \/ HotPoll \/ HotArrive
  <2>1. /\ UNCHANGED <<lock, force_stop, hotplug_thread, slots, mpc, walks, stack, hslot,
                       broken>>
        /\ hpc \in {"begin", "loop"} /\ hpc' \in {"loop", "recycle", "ended"}
    BY <1>5 DEF HotBegin, HotPoll, HotArrive
  <2> QED
    BY <1>1, <1>2, <1>4, <2>1
<1>6. CASE HotRecycle \/ HotRecycledAll
  BY <1>1, <1>2, <1>4, <1>6 DEF HotRecycle, HotRecycledAll
<1>7. CASE HotJoin
  BY <1>1, <1>2, <1>4, <1>7 DEF HotJoin, JoinBegins, BeingJoined, Break
<1>8. CASE HotJoined
  BY <1>1, <1>2, <1>4, <1>8 DEF HotJoined, JoinReturns
<1>9. CASE HotRecycled
  BY <1>1, <1>2, <1>4, <1>9 DEF HotRecycled
<1>10. CASE HotFind
  BY <1>1, <1>2, <1>4, <1>10 DEF HotFind
<1>11. CASE HotLock
  <2>1. hpc = "lock" /\ ~lock /\ UNCHANGED <<slots, broken>>
    BY <1>11 DEF HotLock
  <2>2. CASE force_stop
    <3>1. hpc' = "loop" /\ ~lock'
      BY <1>11, <2>2 DEF HotLock
    <3> QED
      BY <1>1, <1>2, <1>4, <2>1, <3>1
  <2>3. CASE ~force_stop
    <3>1. hpc' = "start_single" /\ hslot' = hslot /\ lock'
      BY <1>11, <2>3 DEF HotLock
    <3>2. \A a \in Acts : ~Inside(a) /\ mpc[a] \notin StopPcs
      BY <1>2, <2>1, <2>3
    <3> QED
      BY <1>1, <1>2, <1>4, <2>1, <3>1, <3>2
  <2> QED
    BY <2>2, <2>3
<1>12. CASE HotStartSingle
  BY <1>1, <1>2, <1>4, <1>12 DEF HotStartSingle, StartSingle, Break
<1> QED
  BY <1>5, <1>6, <1>7, <1>8, <1>9, <1>10, <1>11, <1>12 DEF HotplugThread

(* A slot that is started has no thread before, and at most one after.     *)
LEMMA StartSingleFree ==
  ASSUME Shape, FreeSlots, broken = "no", NEW s \in Slots, Available(s), StartSingle(s)
  PROVE  /\ runner[s] = "none" /\ UNCHANGED broken
         /\ \A t \in Slots \ {s} : pjc'[t] = pjc[t] /\ runner'[t] = runner[t]
         /\ pjc'[s] = "AVAILABLE" => runner'[s] = "none"
         /\ pjc' \in [Slots -> {"AVAILABLE", "RUNNING", "STOPPED"}]
<1>1. runner[s] = "none" /\ UNCHANGED broken
  BY DEF FreeSlots, StartSingle, Break
<1> QED
  BY <1>1 DEF StartSingle, Available, Shape, TypeOK, slots

(* The main thread: a stop passes over all slots while the hotplug thread  *)
(* starts nothing, and so finds and leaves them all free.                  *)
LEMMA MainDisciplined ==
  ASSUME Shape, Disciplined, broken = "no", ~stolen', ~nested', Main
  PROVE  Disciplined'
<1>1. /\ SlotsInPool /\ CommandAt /\ Handle
      /\ pjc \in [Slots -> {"AVAILABLE", "RUNNING", "STOPPED"}]
      /\ runner \in [Slots -> RunnerPcs]
      /\ mpc \in [Acts -> MainPcs] /\ mslot \in [Acts -> 1..Pool + 1]
      /\ left \in [Acts -> 0..Devices] /\ running \in Acts /\ under \in [Acts -> Acts]
      /\ hotplug_thread \in {"none", "live", "joined"}
  BY DEF Shape, TypeOK
<1>2. FreeSlots /\ Stopped
  BY DEF Disciplined
<1>3. Stack
  BY DEF Disciplined, Order
<1>4. Exclusive
  BY DEF Disciplined, Order
<1>5. Stopping
  BY DEF Disciplined, Order
<1>6. Starting
  BY DEF Disciplined, Order
<1>7. Joining
  BY DEF Disciplined, Order
<1>8. HotplugSlot /\ RenamedSlot
  BY DEF Disciplined, Order
<1>9. ASSUME FreeSlots', Stopped', broken' # "shared", broken' = "no" => Order'
      PROVE  Disciplined'
  BY <1>9 DEF Disciplined
<1> USE ServiceAssumption
    DEF Order, Stack, Exclusive, Inside, HotInside, FreeSlots, Available,
        Stopping, StopPcs, Starting, StartPcs, HotplugSlot, RenamedSlot, RenamePcs, Joining,
        Joins, HotJoins, Stopped, NoHotplug, Slots, SlotsInPool, CommandAt,
        Acts, Handlers, At, Walk,
        globals, slots, walks, stack, hot, Goto, Step
<1>10. running # "term" => \A a \in Acts : a = running \/ mpc[a] = "idle"
  BY <1>1, <1>3
<1>11. CASE StopLock
  <2>1. /\ UNCHANGED <<hotplug_thread, slots, walks, stack, hot, broken>> /\ ~lock
        /\ mpc[running] = "stop_lock" /\ mpc' = [mpc EXCEPT ![running] = "stop_all"]
        /\ lock' /\ force_stop'
    BY <1>11 DEF StopLock
  <2>2. FreeSlots' /\ Stopped' /\ broken' # "shared"
    BY <1>1, <1>2, <2>1
  <2>3. Stack'
    BY <1>1, <1>3, <2>1
  <2>4. Exclusive'
    BY <1>1, <1>4, <2>1
  <2>5. Stopping' /\ Starting'
    BY <1>1, <1>2, <1>4, <1>5, <1>6, <1>8, <2>1
  <2>6. Joining' /\ HotplugSlot' /\ RenamedSlot'
    BY <1>1, <1>2, <1>4, <1>7, <1>8, <2>1
  <2> QED
    BY <1>9, <2>2, <2>3, <2>4, <2>5, <2>6
<1>12. CASE StopAll
  BY <1>1, <1>2, <1>3, <1>4, <1>5, <1>6, <1>7, <1>8, <1>9, <1>12
     DEF StopAll, StopClients, Break
<1>13. CASE WaitEach
  <2>1. /\ UNCHANGED <<globals, slots, stack, hot, broken>> /\ mpc[running] = "wait_each"
        /\ mslot[running] \in Slots
        /\ \/ /\ mpc' = [mpc EXCEPT ![running] = "join"] /\ UNCHANGED mslot
           \/ /\ mpc' = [mpc EXCEPT ![running] = "wait_each"]
              /\ Available(mslot[running])
              /\ mslot' = [mslot EXCEPT ![running] = mslot[running] + 1]
    BY <1>13, <1>1, <1>2 DEF WaitEach
  <2>2. FreeSlots' /\ Stopped' /\ broken' # "shared"
    BY <1>1, <1>2, <2>1
  <2>3. Stack'
    BY <1>1, <1>3, <2>1
  <2>4. Exclusive'
    BY <1>1, <1>4, <2>1
  <2>5. Stopping'
    <3>1. CASE mpc' = [mpc EXCEPT ![running] = "join"] /\ UNCHANGED mslot
      BY <1>1, <1>2, <1>3, <1>4, <1>5, <1>6, <1>7, <1>8, <2>1, <3>1
    <3>2. CASE /\ mpc' = [mpc EXCEPT ![running] = "wait_each"]
               /\ Available(mslot[running])
               /\ mslot' = [mslot EXCEPT ![running] = mslot[running] + 1]
      <4>1. \A s \in Slots : s < mslot[running] + 1 => Available(s)
        BY <1>1, <1>5, <2>1, <3>2
      <4>2. \A a \in Acts : a # running => mslot'[a] = mslot[a] /\ mpc'[a] = mpc[a]
        BY <1>1, <1>3, <3>2
      <4>3. mpc'[running] = "wait_each" /\ mslot'[running] = mslot[running] + 1
        BY <1>1, <3>2
      <4>4. force_stop' = force_stop /\ hpc' = hpc /\ mpc[running] \in StopPcs
        BY <2>1
      <4> QED
        BY <1>5, <2>1, <4>1, <4>2, <4>3, <4>4
    <3> QED
      BY <2>1, <3>1, <3>2
  <2>6. Starting'
    <3>1. mpc'[running] \in {"wait_each", "join"}
      BY <1>1, <2>1
    <3>2. \A a \in Acts : a # running => mpc'[a] = mpc[a] /\ mslot'[a] = mslot[a]
      BY <1>1, <2>1
    <3>3. \A s \in Slots : Available(s) => pjc'[s] = "AVAILABLE"
      BY <1>1, <2>1
    <3> QED
      BY <1>6, <2>1, <3>1, <3>2, <3>3
  <2>7. Joining'
    <3>1. \A a \in Acts : Joins(a)' => /\ Joins(a) /\ mpc'[a] = mpc[a]
                                       /\ mslot'[a] = mslot[a]
      BY <1>1, <2>1
    <3>2. UNCHANGED <<pjc, runner, hpc, hslot>>
      BY <2>1
    <3> QED
      BY <1>7, <3>1, <3>2
  <2>8. HotplugSlot' /\ RenamedSlot'
    BY <1>1, <1>2, <1>4, <1>7, <1>8, <2>1
  <2> QED
    BY <1>9, <2>2, <2>3, <2>4, <2>5, <2>6, <2>7, <2>8
<1>14. CASE MainJoin
  BY <1>1, <1>2, <1>3, <1>4, <1>5, <1>6, <1>7, <1>8, <1>9, <1>14 DEF MainJoin, JoinBegins, BeingJoined, Break
<1>15. CASE MainJoined
  <2>1. /\ UNCHANGED <<globals, pjc, client, walks, stack, hot, broken>>
        /\ mpc[running] = "joining" /\ mpc' = [mpc EXCEPT ![running] = "mark"]
        /\ mslot[running] \in Slots /\ runner[mslot[running]] = "ended"
        /\ runner' = [runner EXCEPT ![mslot[running]] = "none"]
    BY <1>1, <1>15 DEF MainJoined, JoinReturns
  <2>2. ~Available(mslot[running])
    BY <1>2, <2>1
  <2>3. FreeSlots' /\ Stopped' /\ broken' # "shared"
    BY <1>1, <1>2, <1>7, <2>1, <2>2
  <2>4. Stack'
    BY <1>1, <1>3, <2>1, <2>2
  <2>5. Exclusive'
    BY <1>1, <1>4, <2>1, <2>2
  <2>6. Stopping'
    BY <1>1, <1>2, <1>4, <1>5, <2>1, <2>2
  <2>7. Starting'
    BY <1>1, <1>2, <1>4, <1>6, <1>8, <2>1, <2>2
  <2>8. Joining'
    BY <1>1, <1>2, <1>7, <2>1, <2>2
  <2>9. HotplugSlot' /\ RenamedSlot'
    BY <1>1, <1>2, <1>4, <1>6, <1>7, <1>8, <2>1, <2>2
  <2> QED
    BY <1>9, <2>3, <2>4, <2>5, <2>6, <2>7, <2>8, <2>9
<1>16. CASE MainMark
  <2>1. /\ UNCHANGED <<globals, client, runner, left, stack, hot, broken>>
        /\ mpc[running] = "mark" /\ mslot[running] \in Slots
        /\ mpc' = [mpc EXCEPT ![running] = "wait_each"]
        /\ pjc' = [pjc EXCEPT ![mslot[running]] = "AVAILABLE"]
        /\ mslot' = [mslot EXCEPT ![running] = mslot[running] + 1]
    BY <1>16, <1>1, <1>2 DEF MainMark
  <2>2. FreeSlots' /\ Stopped' /\ broken' # "shared"
    BY <1>1, <1>2, <1>7, <2>1
  <2>3. Stack'
    BY <1>1, <1>3, <2>1
  <2>4. Exclusive'
    BY <1>1, <1>4, <2>1
  <2>5. Stopping'
    <3>1. /\ mpc'[running] = "wait_each" /\ mslot'[running] = mslot[running] + 1
          /\ \A s \in Slots : s < mslot[running] + 1 => pjc'[s] = "AVAILABLE"
      BY <1>1, <1>5, <2>1
    <3>2. \A a \in Acts : a # running => mpc'[a] = mpc[a] /\ mslot'[a] = mslot[a]
      BY <1>1, <2>1
    <3>3. \A s \in Slots : Available(s) => pjc'[s] = "AVAILABLE"
      BY <1>1, <2>1
    <3>4. mpc[running] \in StopPcs
      BY <2>1
    <3>5. force_stop' = force_stop /\ hpc' = hpc
      BY <2>1
    <3> QED
      BY <1>5, <3>1, <3>2, <3>3, <3>4, <3>5
  <2>6. Starting'
    <3>1. mpc'[running] \in {"wait_each", "join"}
      BY <1>1, <2>1
    <3>2. \A a \in Acts : a # running => mpc'[a] = mpc[a] /\ mslot'[a] = mslot[a]
      BY <1>1, <2>1
    <3>3. \A s \in Slots : Available(s) => pjc'[s] = "AVAILABLE"
      BY <1>1, <2>1
    <3> QED
      BY <1>6, <2>1, <3>1, <3>2, <3>3
  <2>7. Joining'
    BY <1>1, <1>2, <1>7, <2>1
  <2>8. HotplugSlot' /\ RenamedSlot'
    BY <1>1, <1>2, <1>4, <1>7, <1>8, <2>1
  <2> QED
    BY <1>9, <2>2, <2>3, <2>4, <2>5, <2>6, <2>7, <2>8
<1>17. CASE WaitedAll
  <2>1. /\ UNCHANGED <<globals, slots, walks, stack, hot, broken>>
        /\ mslot[running] = Pool + 1
        /\ mpc[running] = "wait_each" /\ mpc' = [mpc EXCEPT ![running] = "join_hotplug"]
    BY <1>1, <1>17 DEF WaitedAll
  <2>2. FreeSlots' /\ Stopped' /\ broken' # "shared"
    BY <1>1, <1>2, <1>7, <2>1
  <2>3. Stack'
    BY <1>1, <1>3, <2>1
  <2>4. Exclusive'
    BY <1>1, <1>4, <2>1
  <2>5. Stopping'
    BY <1>1, <1>2, <1>4, <1>5, <2>1
  <2>6. Starting'
    BY <1>1, <1>2, <1>4, <1>6, <1>8, <2>1
  <2>7. Joining'
    BY <1>1, <1>2, <1>7, <2>1
  <2>8. HotplugSlot' /\ RenamedSlot'
    BY <1>1, <1>2, <1>4, <1>6, <1>7, <1>8, <2>1
  <2> QED
    BY <1>9, <2>2, <2>3, <2>4, <2>5, <2>6, <2>7, <2>8
<1>18. CASE JoinHotplug
  <2>1. /\ UNCHANGED <<globals, slots, walks, stack, hot>> /\ mpc[running] = "join_hotplug"
        /\ \/ mpc' = [mpc EXCEPT ![running] = "stopped"] /\ hpc = "none"
           \/ mpc' = [mpc EXCEPT ![running] = "joining_hotplug"]
        /\ broken' # "shared"
    BY <1>1, <1>18 DEF JoinHotplug, Break, Handle
  <2>2. FreeSlots' /\ Stopped' /\ broken' # "shared"
    BY <1>1, <1>2, <1>7, <1>5, <2>1
  <2>3. Stack'
    BY <1>1, <1>3, <2>1
  <2>4. Exclusive'
    BY <1>1, <1>4, <2>1
  <2>5. Stopping'
    BY <1>1, <1>2, <1>4, <1>5, <2>1
  <2>6. Starting'
    <3>1. \/ mpc'[running] = "joining_hotplug"
          \/ mpc'[running] = "stopped" /\ hpc = "none"
      BY <1>1, <2>1
    <3>2. \A a \in Acts : a # running => mpc'[a] = mpc[a]
      BY <1>1, <2>1
    <3>3. UNCHANGED <<pjc, mslot, left, hpc, force_stop, hotplug_thread>>
      BY <2>1
    <3> QED
      BY <1>6, <3>1, <3>2, <3>3
  <2>7. Joining'
    BY <1>1, <1>2, <1>7, <2>1
  <2>8. HotplugSlot' /\ RenamedSlot'
    BY <1>1, <1>2, <1>4, <1>6, <1>7, <1>8, <2>1
  <2> QED
    BY <1>9, <2>2, <2>3, <2>4, <2>5, <2>6, <2>7, <2>8
<1>19. CASE JoinedHotplug
  <2>1. /\ UNCHANGED <<lock, force_stop, slots, walks, stack, hot, broken>>
        /\ mpc[running] = "joining_hotplug" /\ hpc = "ended"
        /\ mpc' = [mpc EXCEPT ![running] = "stopped"]
    BY <1>19 DEF JoinedHotplug
  <2>2. FreeSlots' /\ Stopped' /\ broken' # "shared"
    BY <1>1, <1>2, <1>7, <1>5, <2>1
  <2>3. Stack' /\ Exclusive'
    BY <1>1, <1>3, <1>4, <2>1
  <2>4. Stopping' /\ Starting'
    BY <1>1, <1>2, <1>5, <1>6, <2>1
  <2>5. Joining' /\ HotplugSlot' /\ RenamedSlot'
    BY <1>1, <1>2, <1>4, <1>7, <1>8, <2>1
  <2> QED
    BY <1>9, <2>2, <2>3, <2>4, <2>5
<1>20. CASE AfterStop
  <2>1. CASE Return("stopped")
    <3>1. /\ UNCHANGED <<globals, slots, hot, broken>>
          /\ mpc[running] = "stopped" /\ mpc' = [mpc EXCEPT ![running] = "idle"]
          /\ \A a \in Acts \ {running} : mslot'[a] = mslot[a] /\ left'[a] = left[a]
      BY <1>1, <1>2, <1>20, <2>1 DEF AfterStop, Return
    <3>2. FreeSlots' /\ Stopped' /\ broken' # "shared"
      BY <1>1, <1>2, <3>1
    <3>3. Stack'
      BY <1>1, <1>3, <1>10, <2>1 DEF Return
    <3>4. Exclusive'
      BY <1>1, <1>4, <3>1
    <3>5. Stopping'
      BY <1>1, <1>2, <1>4, <1>5, <3>1
    <3>6. Starting'
      BY <1>1, <1>2, <1>4, <1>6, <1>8, <3>1
    <3>7. Joining'
      BY <1>1, <1>2, <1>7, <3>1
    <3>8. HotplugSlot' /\ RenamedSlot'
      BY <1>1, <1>2, <1>4, <1>7, <1>8, <3>1
    <3> QED
      BY <1>9, <3>2, <3>3, <3>4, <3>5, <3>6, <3>7, <3>8
  <2>2. CASE Step("stopped", "startup")
    <3>1. UNCHANGED <<globals, slots, mslot, left, running, under, hot, broken>>
      <4>1. mpc'[running] = "startup"
        BY <1>1, <2>2
      <4>2. ~Return("stopped")
        BY <1>1, <4>1 DEF Return
      <4> QED
        BY <1>20, <2>2, <4>2 DEF AfterStop
    <3>2. mpc[running] = "stopped" /\ mpc' = [mpc EXCEPT ![running] = "startup"]
      BY <2>2
    <3>3. FreeSlots' /\ Stopped' /\ broken' # "shared"
      BY <1>1, <1>2, <3>1, <3>2
    <3>4. Stack'
      BY <1>1, <1>3, <3>1, <3>2
    <3>5. Exclusive'
      BY <1>1, <1>4, <3>1, <3>2
    <3>6. Stopping'
      BY <1>1, <1>2, <1>4, <1>5, <3>1, <3>2
    <3>7. Starting'
      BY <1>1, <1>2, <1>4, <1>6, <1>8, <3>1, <3>2
    <3>8. Joining'
      BY <1>1, <1>2, <1>7, <3>1, <3>2
    <3>9. HotplugSlot' /\ RenamedSlot'
      BY <1>1, <1>2, <1>4, <1>7, <1>8, <3>1, <3>2
    <3> QED
      BY <1>9, <3>3, <3>4, <3>5, <3>6, <3>7, <3>8, <3>9
  <2> QED
    BY <1>20, <2>1, <2>2 DEF AfterStop
<1>21. CASE Startup
  <2>1. CASE Return("startup")
    <3>1. /\ UNCHANGED <<lock, hotplug_running, hotplug_thread, slots, hot, broken>>
          /\ force_stop' = FALSE
          /\ mpc[running] = "startup" /\ mpc' = [mpc EXCEPT ![running] = "idle"]
          /\ \A a \in Acts \ {running} : mslot'[a] = mslot[a] /\ left'[a] = left[a]
      BY <1>1, <1>2, <1>21, <2>1 DEF Startup, Return
    <3>2. running # "term"
      BY <1>1, <1>3, <3>1 DEF Cmd
    <3>3. FreeSlots' /\ Stopped' /\ broken' # "shared"
      BY <1>1, <1>2, <1>10, <3>1, <3>2
    <3>4. Stack'
      BY <1>1, <1>3, <1>10, <2>1 DEF Return
    <3>5. Exclusive'
      BY <1>1, <1>4, <1>10, <3>1, <3>2
    <3>6. Stopping'
      BY <1>1, <1>2, <1>4, <1>5, <1>10, <3>1, <3>2
    <3>7. Starting'
      BY <1>1, <1>2, <1>4, <1>6, <1>8, <1>10, <3>1, <3>2
    <3>8. Joining'
      BY <1>1, <1>2, <1>7, <1>10, <3>1, <3>2
    <3>9. HotplugSlot' /\ RenamedSlot'
      BY <1>1, <1>2, <1>4, <1>7, <1>8, <1>10, <3>1, <3>2
    <3> QED
      BY <1>9, <3>3, <3>4, <3>5, <3>6, <3>7, <3>8, <3>9
  <2>2. CASE Step("startup", "check")
    <3>1. /\ UNCHANGED <<lock, hotplug_running, hotplug_thread, slots, stack, hot, broken>>
          /\ force_stop' = FALSE
          /\ mpc[running] = "startup" /\ mpc' = [mpc EXCEPT ![running] = "check"]
          /\ mslot' = [mslot EXCEPT ![running] = 1]
      BY <1>1, <1>2, <1>21, <2>2 DEF Startup, Return
    <3>2. running # "term"
      BY <1>1, <1>3, <3>1 DEF Cmd
    <3>3. FreeSlots' /\ Stopped' /\ broken' # "shared"
      BY <1>1, <1>2, <1>10, <3>1, <3>2
    <3>4. Stack'
      BY <1>1, <1>3, <1>10, <3>1, <3>2
    <3>5. Exclusive'
      BY <1>1, <1>4, <1>10, <3>1, <3>2
    <3>6. Stopping'
      BY <1>1, <1>2, <1>4, <1>5, <1>10, <3>1, <3>2
    <3>7. Starting'
      BY <1>1, <1>2, <1>4, <1>6, <1>8, <1>10, <3>1, <3>2
    <3>8. Joining'
      BY <1>1, <1>2, <1>7, <1>10, <3>1, <3>2
    <3>9. HotplugSlot' /\ RenamedSlot'
      BY <1>1, <1>2, <1>4, <1>7, <1>8, <1>10, <3>1, <3>2
    <3> QED
      BY <1>9, <3>3, <3>4, <3>5, <3>6, <3>7, <3>8, <3>9
  <2> QED
    BY <1>21, <2>1, <2>2 DEF Startup
<1>22. CASE StartCheck
  <2>1. /\ UNCHANGED <<globals, slots, walks, stack, hot, broken>>
        /\ mpc[running] = "check"
        /\ \/ mpc' = [mpc EXCEPT ![running] = "start_lock"]
           \/ mpc' = [mpc EXCEPT ![running] = "start_hotplug"]
    BY <1>22 DEF StartCheck
  <2>2. FreeSlots' /\ Stopped' /\ broken' # "shared"
    BY <1>1, <1>2, <1>7, <2>1
  <2>3. Stack'
    BY <1>1, <1>3, <2>1
  <2>4. Exclusive'
    BY <1>1, <1>4, <2>1
  <2>5. Stopping'
    <3>1. mpc'[running] \in {"start_lock", "start_hotplug"}
      BY <1>1, <2>1
    <3>2. \A a \in Acts : a # running => mpc'[a] = mpc[a] /\ mslot'[a] = mslot[a]
      BY <1>1, <2>1
    <3>3. force_stop' = force_stop /\ hpc' = hpc /\ pjc' = pjc /\ mslot' = mslot
      BY <2>1
    <3> QED
      BY <1>5, <3>1, <3>2, <3>3
  <2>6. Starting'
    BY <1>1, <1>2, <1>4, <1>6, <1>8, <2>1
  <2>7. Joining'
    BY <1>1, <1>2, <1>7, <2>1
  <2>8. HotplugSlot' /\ RenamedSlot'
    BY <1>1, <1>2, <1>4, <1>6, <1>7, <1>8, <2>1
  <2> QED
    BY <1>9, <2>2, <2>3, <2>4, <2>5, <2>6, <2>7, <2>8
<1>23. CASE StartLock
  <2>1. /\ UNCHANGED <<force_stop, slots, walks, stack, hot, broken>>
        /\ ~lock /\ lock'
        /\ mpc[running] = "start_lock" /\ mpc' = [mpc EXCEPT ![running] = "start_single"]
    BY <1>23 DEF StartLock
  <2>2. FreeSlots' /\ Stopped' /\ broken' # "shared"
    BY <1>1, <1>2, <1>7, <2>1
  <2>3. Stack'
    BY <1>1, <1>3, <2>1
  <2>4. Exclusive'
    BY <1>1, <1>4, <1>6, <2>1
  <2>5. Stopping'
    BY <1>1, <1>2, <1>4, <1>5, <2>1
  <2>6. Starting'
    BY <1>1, <1>2, <1>4, <1>6, <1>8, <2>1
  <2>7. Joining'
    BY <1>1, <1>2, <1>7, <2>1
  <2>8. HotplugSlot' /\ RenamedSlot'
    BY <1>1, <1>2, <1>4, <1>6, <1>7, <1>8, <2>1
  <2> QED
    BY <1>9, <2>2, <2>3, <2>4, <2>5, <2>6, <2>7, <2>8
<1>24. CASE MainStartSingle
  <2>1. /\ StartSingle(mslot[running]) /\ mslot[running] \in Slots
        /\ mpc[running] = "start_single" /\ Available(mslot[running]) /\ lock' = FALSE
        /\ mpc' = [mpc EXCEPT ![running] = "start_lock"]
        /\ mslot' = [mslot EXCEPT ![running] = mslot[running] + 1]
        /\ UNCHANGED <<force_stop, hotplug_running, hotplug_thread, stack, hot>>
    <3>1. mslot[running] \in Slots /\ mpc[running] = "start_single"
      BY <1>1, <1>24 DEF MainStartSingle
    <3>2. Available(mslot[running])
      BY <1>1, <1>6, <3>1
    <3> QED
      BY <1>24, <3>1, <3>2 DEF MainStartSingle
  <2>2. running # "term"
    BY <1>1, <1>3, <2>1 DEF Cmd
  <2>3. \A a \in Acts : a # running => mpc[a] = "idle" /\ mpc'[a] = "idle"
    BY <1>1, <1>3, <1>10, <2>1, <2>2
  <2>4. /\ runner[mslot[running]] = "none" /\ UNCHANGED broken
        /\ \A s \in Slots \ {mslot[running]} : pjc'[s] = pjc[s] /\ runner'[s] = runner[s]
        /\ pjc'[mslot[running]] = "AVAILABLE" => runner'[mslot[running]] = "none"
        /\ pjc' \in [Slots -> {"AVAILABLE", "RUNNING", "STOPPED"}]
    BY <1>1, <1>2, <2>1, StartSingleFree
  <2>5. FreeSlots' /\ Stopped' /\ broken' # "shared"
    <3>1. ASSUME NEW s \in Slots, pjc'[s] = "AVAILABLE" PROVE runner'[s] = "none"
      <4>1. CASE s = mslot[running]
        BY <2>4, <3>1, <4>1
      <4>2. CASE s # mslot[running]
        BY <1>1, <1>2, <1>3, <1>4, <1>5, <1>6, <1>7, <1>8, <2>4, <3>1, <4>2
      <4> QED
        BY <4>1, <4>2
    <3>2. Stopped' /\ broken' # "shared"
      BY <1>1, <1>2, <2>1, <2>2, <2>3, <2>4
    <3> QED
      BY <3>1, <3>2
  <2>6. Stack'
    BY <1>1, <1>3, <2>1
  <2>7. Exclusive'
    BY <1>1, <1>4, <2>1, <2>2, <2>3, <2>4
  <2>8. Stopping'
    <3>1. mpc'[running] = "start_lock"
      BY <1>1, <2>1
    <3> QED
      BY <2>3, <3>1
  <2>9. Starting'
    <3>1. \A s \in Slots : s >= mslot[running] + 1 => pjc'[s] = "AVAILABLE"
      <4>1. \A s \in Slots : s >= mslot[running] => Available(s)
        BY <1>1, <1>6, <2>1
      <4>2. \A s \in Slots : s >= mslot[running] + 1 => s # mslot[running] /\ s >= mslot[running]
        BY <2>1
      <4> QED
        BY <2>4, <4>1, <4>2
    <3>2. mpc'[running] = "start_lock" /\ mslot'[running] = mslot[running] + 1 /\ NoHotplug'
      BY <1>1, <1>6, <2>1
    <3> QED
      BY <2>3, <3>1, <3>2
  <2>10. Joining'
    BY <1>1, <1>2, <1>7, <2>1, <2>2, <2>3, <2>4
  <2>11. HotplugSlot' /\ RenamedSlot'
    BY <1>1, <1>2, <1>6, <2>1, <2>2, <2>3, <2>4
  <2> QED
    BY <1>9, <2>5, <2>6, <2>7, <2>8, <2>9, <2>10, <2>11
<1>25. CASE StartedAll
  <2>1. /\ UNCHANGED <<globals, slots, walks, stack, hot, broken>>
        /\ mpc[running] = "start_lock" /\ mpc' = [mpc EXCEPT ![running] = "start_hotplug"]
    BY <1>25 DEF StartedAll
  <2>2. FreeSlots' /\ Stopped' /\ broken' # "shared"
    BY <1>1, <1>2, <1>7, <2>1
  <2>3. Stack'
    BY <1>1, <1>3, <2>1
  <2>4. Exclusive'
    BY <1>1, <1>4, <2>1
  <2>5. Stopping'
    BY <1>1, <1>2, <1>4, <1>5, <2>1
  <2>6. Starting'
    BY <1>1, <1>2, <1>4, <1>6, <1>8, <2>1
  <2>7. Joining'
    BY <1>1, <1>2, <1>7, <2>1
  <2>8. HotplugSlot' /\ RenamedSlot'
    BY <1>1, <1>2, <1>4, <1>6, <1>7, <1>8, <2>1
  <2> QED
    BY <1>9, <2>2, <2>3, <2>4, <2>5, <2>6, <2>7, <2>8
<1>26. CASE StartHotplug
  <2>1. /\ Return("start_hotplug")
        /\ UNCHANGED <<lock, force_stop, hotplug_running, slots, hslot>>
        /\ \/ /\ hpc \in {"none", "ended"} /\ hpc' = "begin"
              /\ hotplug_thread' = "live" /\ UNCHANGED broken
           \/ broken' \in {broken, "orphan"} /\ UNCHANGED <<hpc, hotplug_thread>>
    BY <1>26 DEF StartHotplug
  <2>2. /\ mpc[running] = "start_hotplug" /\ mpc' = [mpc EXCEPT ![running] = "idle"]
        /\ \A a \in Acts \ {running} : mslot'[a] = mslot[a] /\ left'[a] = left[a]
    BY <1>1, <2>1 DEF Return
  <2>3. running # "term"
    BY <1>1, <1>3, <2>2 DEF Cmd
  <2>4. FreeSlots' /\ Stopped' /\ broken' # "shared"
    BY <1>1, <1>2, <2>1, <2>2
  <2>5. Stack'
    BY <1>1, <1>3, <1>10, <2>1 DEF Return
  <2>6. Exclusive'
    BY <1>1, <1>4, <2>1, <2>2
  <2>7. Stopping'
    BY <1>1, <1>2, <1>4, <1>5, <2>1, <2>2
  <2>8. Starting'
    BY <1>1, <1>2, <1>4, <1>6, <1>8, <1>10, <2>1, <2>2, <2>3
  <2>9. Joining'
    BY <1>1, <1>2, <1>7, <2>1, <2>2
  <2>10. HotplugSlot' /\ RenamedSlot'
    BY <1>1, <1>2, <1>4, <1>7, <1>8, <2>1, <2>2
  <2> QED
    BY <1>9, <2>4, <2>5, <2>6, <2>7, <2>8, <2>9, <2>10
<1>27. CASE RenameJoin
  BY <1>1, <1>2, <1>3, <1>4, <1>5, <1>6, <1>7, <1>8, <1>9, <1>27 DEF RenameJoin, JoinBegins, BeingJoined, Break
<1>28. CASE RenameJoined
  <2>1. /\ UNCHANGED <<globals, client, walks, stack, hot, broken>>
        /\ mpc[running] = "rename_joining" /\ mpc' = [mpc EXCEPT ![running] = "restart"]
        /\ mslot[running] \in Slots
        /\ runner' = [runner EXCEPT ![mslot[running]] = "none"]
        /\ pjc' = [pjc EXCEPT ![mslot[running]] = "AVAILABLE"]
    BY <1>1, <1>28 DEF RenameJoined, JoinReturns
  <2>2. FreeSlots' /\ Stopped' /\ broken' # "shared"
    BY <1>1, <1>2, <1>7, <2>1
  <2>3. Stack'
    BY <1>1, <1>3, <2>1
  <2>4. Exclusive'
    BY <1>1, <1>4, <2>1
  <2>5. Stopping'
    <3>1. mpc'[running] = "restart"
      BY <1>1, <2>1
    <3>2. \A a \in Acts : a # running => mpc'[a] = mpc[a]
      BY <1>1, <2>1
    <3>3. \A s \in Slots : Available(s) => pjc'[s] = "AVAILABLE"
      BY <1>1, <2>1
    <3> QED
      BY <1>5, <2>1, <3>1, <3>2, <3>3
  <2>6. Starting'
    BY <1>1, <1>2, <1>4, <1>6, <1>8, <2>1
  <2>7. Joining'
    BY <1>1, <1>2, <1>7, <2>1
  <2>8. HotplugSlot' /\ RenamedSlot'
    BY <1>1, <1>2, <1>4, <1>6, <1>7, <1>8, <2>1
  <2> QED
    BY <1>9, <2>2, <2>3, <2>4, <2>5, <2>6, <2>7, <2>8
<1>29. CASE Restart
  <2>1. /\ Return("restart")
        /\ StartSingle(mslot[running]) /\ mslot[running] \in Slots
        /\ Available(mslot[running]) /\ lock' = FALSE
        /\ UNCHANGED <<force_stop, hotplug_running, hotplug_thread, hot>>
    BY <1>1, <1>8, <1>29 DEF Restart, Return
  <2>2. /\ mpc[running] = "restart" /\ mpc' = [mpc EXCEPT ![running] = "idle"]
        /\ \A a \in Acts \ {running} : mslot'[a] = mslot[a] /\ left'[a] = left[a]
    BY <1>1, <2>1 DEF Return
  <2>3. /\ runner[mslot[running]] = "none" /\ UNCHANGED broken
        /\ \A s \in Slots \ {mslot[running]} : pjc'[s] = pjc[s] /\ runner'[s] = runner[s]
        /\ pjc'[mslot[running]] = "AVAILABLE" => runner'[mslot[running]] = "none"
        /\ pjc' \in [Slots -> {"AVAILABLE", "RUNNING", "STOPPED"}]
    BY <1>1, <1>2, <2>1, StartSingleFree
  <2>4. \A a \in Acts : mpc'[a] = "idle"
    <3>1. running = "method"
      BY <1>1, <1>3, <2>2 DEF Cmd
    <3> QED
      BY <1>1, <1>10, <2>2, <3>1
  <2>5. FreeSlots' /\ Stopped' /\ broken' # "shared"
    <3>1. ASSUME NEW s \in Slots, pjc'[s] = "AVAILABLE" PROVE runner'[s] = "none"
      <4>1. CASE s = mslot[running]
        BY <2>3, <3>1, <4>1
      <4>2. CASE s # mslot[running]
        BY <1>1, <1>2, <1>3, <1>4, <1>5, <1>6, <1>7, <1>8, <2>3, <3>1, <4>2
      <4> QED
        BY <4>1, <4>2
    <3>2. Stopped' /\ broken' # "shared"
      BY <1>1, <1>2, <2>1, <2>2, <2>3, <2>4
    <3> QED
      BY <3>1, <3>2
  <2>6. Stack'
    BY <1>1, <1>3, <1>10, <2>1 DEF Return
  <2>7. Exclusive'
    BY <1>1, <1>4, <2>1, <2>2, <2>3, <2>4
  <2>8. Stopping'
    BY <1>1, <1>2, <1>4, <1>5, <2>1, <2>2, <2>3, <2>4
  <2>9. Starting'
    BY <1>1, <1>2, <1>4, <1>6, <1>8, <2>1, <2>2, <2>3, <2>4
  <2>10. Joining'
    BY <1>1, <1>2, <1>7, <2>1, <2>2, <2>3, <2>4
  <2>11. HotplugSlot' /\ RenamedSlot'
    BY <1>1, <1>2, <1>4, <1>7, <1>8, <2>1, <2>2, <2>3, <2>4
  <2> QED
    BY <1>9, <2>5, <2>6, <2>7, <2>8, <2>9, <2>10, <2>11
<1>30. CASE Quit
  BY <1>1, <1>2, <1>3, <1>4, <1>5, <1>6, <1>7, <1>8, <1>9, <1>30 DEF Quit
<1> QED
  BY <1>11, <1>12, <1>13, <1>14, <1>15, <1>16, <1>17, <1>18, <1>19, <1>20, <1>21, <1>22, <1>23,
     <1>24, <1>25, <1>26, <1>27, <1>28, <1>29, <1>30 DEF Main

(* A method is taken when the main loop is idle; a SIGTERM at any time, on *)
(* top of whatever the main thread does, and a SIGHUP only when it is idle *)
(* (nested remembers any other).                                           *)
LEMMA CommandDisciplined ==
  ASSUME Shape, Disciplined, broken = "no", ~stolen', ~nested',
         Commands \/ \E a \in Handlers : Signal(a)
  PROVE  Disciplined'
<1>1. /\ SlotsInPool /\ CommandAt /\ Order /\ FreeSlots /\ Stopped
      /\ pjc \in [Slots -> {"AVAILABLE", "RUNNING", "STOPPED"}]
      /\ runner \in [Slots -> RunnerPcs]
      /\ mpc \in [Acts -> MainPcs] /\ mslot \in [Acts -> 1..Pool + 1]
      /\ left \in [Acts -> 0..Devices] /\ running \in Acts /\ under \in [Acts -> Acts]
  BY DEF Shape, TypeOK, Disciplined
<1>2. ASSUME FreeSlots', Stopped', broken' # "shared", broken' = "no" => Order'
      PROVE  Disciplined'
  BY <1>2 DEF Disciplined
<1> USE ServiceAssumption
    DEF Order, Stack, Exclusive, Inside, HotInside, FreeSlots, Available,
        Stopping, StopPcs, Starting, StartPcs, HotplugSlot, RenamedSlot, RenamePcs, Joining,
        Joins, HotJoins, Stopped, NoHotplug, Slots, SlotsInPool, CommandAt,
        Acts, Handlers, Walk, globals, slots, walks, hot, Command
<1>3. CASE StopOrStart
  BY <1>1, <1>2, <1>3 DEF StopOrStart
<1>4. CASE GetState
  BY <1>1, <1>2, <1>4 DEF GetState, Break
<1>5. CASE Rename
  <2>1. /\ running = "method" /\ mpc["method"] = "idle" /\ ~lock /\ broken' # "shared"
        /\ UNCHANGED <<running, under, hot, force_stop, pjc, runner, left>>
    BY <1>5 DEF Rename, Break
  <2>2. \/ UNCHANGED <<lock, mslot, mpc>>
        \/ \E s \in Slots : /\ pjc[s] = "RUNNING" /\ lock'
                            /\ mslot' = [mslot EXCEPT !["method"] = s]
                            /\ mpc' = [mpc EXCEPT !["method"] = "rename_join"]
    BY <1>1, <1>5, <2>1 DEF Rename
  <2>3. CASE UNCHANGED <<lock, mslot, mpc>>
    BY <1>1, <1>2, <2>1, <2>3
  <2>4. CASE \E s \in Slots : /\ pjc[s] = "RUNNING" /\ lock'
                              /\ mslot' = [mslot EXCEPT !["method"] = s]
                              /\ mpc' = [mpc EXCEPT !["method"] = "rename_join"]
    <3>1. \A a \in Acts : a = "method" \/ mpc[a] = "idle"
      BY <1>1, <2>1
    <3>2. Stack' /\ Exclusive'
      BY <1>1, <2>1, <2>4, <3>1
    <3>3. Stopping' /\ Starting' /\ Joining'
      BY <1>1, <2>1, <2>4, <3>1
    <3>4. HotplugSlot' /\ RenamedSlot'
      BY <1>1, <2>1, <2>4, <3>1
    <3>5. FreeSlots' /\ Stopped'
      BY <1>1, <2>1, <2>4, <3>1
    <3> QED
      BY <1>2, <2>1, <3>2, <3>3, <3>4, <3>5
  <2> QED
    BY <2>2, <2>3, <2>4
<1>6. ASSUME NEW a \in Handlers, Signal(a)
      PROVE  Disciplined'
  <2>1. /\ mpc[a] = "idle" /\ mpc' = [mpc EXCEPT ![a] = "stop_lock"]
        /\ running' = a /\ under' = [under EXCEPT ![a] = running]
        /\ UNCHANGED <<globals, slots, walks, hot, broken>>
    BY <1>6 DEF Signal
  <2>2. a = "hup" => mpc[running] = "idle"
    BY <1>6 DEF Signal
  <2>3. Stack'
    BY <1>1, <2>1, <2>2
  <2>4. Exclusive' /\ Stopping' /\ Starting'
    BY <1>1, <2>1
  <2>5. Joining' /\ HotplugSlot' /\ RenamedSlot' /\ FreeSlots' /\ Stopped'
    BY <1>1, <2>1
  <2> QED
    BY <1>2, <2>1, <2>3, <2>4, <2>5
<1> QED
  BY <1>3, <1>4, <1>5, <1>6 DEF Commands

(* The initial state satisfies the invariant. *)
LEMMA InitServiceInv == Init => ServiceInv
<1> SUFFICES ASSUME Init PROVE ServiceInv
  OBVIOUS
<1>1. Shape
  BY InitShape
<1>2. /\ \A s \in Slots : Available(s) /\ runner[s] = "none"
      /\ \A a \in Acts : mpc[a] \in {"idle", "startup"}
      /\ mpc["hup"] = "idle" /\ mpc["term"] = "idle" /\ running = "method"
      /\ hpc = "none" /\ broken = "no" /\ under["method"] = "method"
  BY DEF Init, Available, Acts, Handlers
<1>3. FreeSlots /\ Stopped
  BY <1>2 DEF FreeSlots, Stopped
<1>4. Stack /\ Exclusive
  BY <1>2 DEF Stack, Exclusive, Inside, HotInside
<1>5. Stopping /\ Starting
  BY <1>2 DEF Stopping, Starting, StopPcs, NoHotplug
<1>6. Joining /\ HotplugSlot /\ RenamedSlot
  BY <1>2 DEF Joining, Joins, HotJoins, HotplugSlot, RenamedSlot, RenamePcs
<1> QED
  BY <1>1, <1>2, <1>3, <1>4, <1>5, <1>6 DEF ServiceInv, Disciplined, Order

(* No step takes back what the histories remember. *)
LEMMA Remembered ==
  ASSUME Shape, Next, Running
  PROVE  (stolen => stolen') /\ (nested => nested')
<1>1. ASSUME NEW s \in Slots, Client(s) \/ Runner(s)
      PROVE  (stolen => stolen') /\ (nested => nested')
  <2>1. UNCHANGED nested
    BY <1>1
    DEF Client, ClientReady, ClientRuns, ClientFails, ClientEnds, ClientStep, Runner,
        RunnerStart, RunnerCheck, RunnerWait, RunnerUnlock, RunnerMark,
        RunnerUnlockAgain, RunnerStep, stack
  <2>2. UNCHANGED stolen \/ StrayUnlock
    BY <1>1
    DEF Client, ClientReady, ClientRuns, ClientFails, ClientEnds, ClientStep, Runner,
        RunnerStart, RunnerCheck, RunnerWait, RunnerUnlock, RunnerMark, RunnerUnlockAgain
  <2>3. CASE UNCHANGED stolen
    BY <2>1, <2>3, Zenon
  <2>4. CASE StrayUnlock
    <3>1. stolen' = (stolen \/ lock)
      BY <2>4 DEF StrayUnlock
    <3> QED
      BY <2>1, <3>1, Zenon
  <2> QED
    BY <2>2, <2>3, <2>4
<1>2. CASE Main
  <2>1. CASE StopLock \/ StopAll \/ WaitEach \/ MainJoin \/ MainJoined \/ MainMark
    <3>1. UNCHANGED <<stolen, nested>>
      BY <2>1 DEF StopLock, StopAll, WaitEach, MainJoin, MainJoined, MainMark, Step, stack
    <3> QED
      BY <3>1, Zenon
  <2>2. CASE WaitedAll \/ JoinHotplug \/ JoinedHotplug \/ AfterStop \/ Startup
    <3>1. UNCHANGED <<stolen, nested>>
      BY <2>2
      DEF WaitedAll, JoinHotplug, JoinedHotplug, AfterStop, Startup, Step, Return, stack
    <3> QED
      BY <3>1, Zenon
  <2>3. CASE StartCheck \/ StartLock \/ MainStartSingle \/ StartedAll \/ StartHotplug
    <3>1. UNCHANGED <<stolen, nested>>
      BY <2>3
      DEF StartCheck, StartLock, MainStartSingle, StartedAll, StartHotplug, Step, Return,
          stack
    <3> QED
      BY <3>1, Zenon
  <2>4. CASE RenameJoin \/ RenameJoined \/ Restart \/ Quit
    <3>1. UNCHANGED <<stolen, nested>>
      BY <2>4 DEF RenameJoin, RenameJoined, Restart, Quit, Step, Return, stack
    <3> QED
      BY <3>1, Zenon
  <2> QED
    BY <1>2, <2>1, <2>2, <2>3, <2>4 DEF Main
<1>3. CASE Commands
  <2>1. UNCHANGED <<stolen, nested>>
    BY <1>3 DEF Commands, StopOrStart, Rename, GetState, Command
  <2> QED
    BY <2>1, Zenon
<1>4. ASSUME NEW a \in Handlers, Signal(a)
      PROVE  (stolen => stolen') /\ (nested => nested')
  <2>1. UNCHANGED stolen /\ nested' = (nested \/ (a = "hup" /\ mpc[running] # "idle"))
    BY <1>4 DEF Signal
  <2> QED
    BY <2>1, Zenon
<1>5. CASE HotplugThread
  <2>1. UNCHANGED <<stolen, nested>>
    BY <1>5
    DEF HotplugThread, HotBegin, HotPoll, HotArrive, HotRecycle, HotJoin, HotJoined,
        HotRecycled, HotRecycledAll, HotFind, HotLock, HotStartSingle, HotStep, stack
  <2> QED
    BY <2>1, Zenon
<1>6. Main \/ Commands \/ HotplugThread \/ (\E a \in Handlers : Signal(a))
        \/ \E s \in Slots : Client(s) \/ Runner(s)
  BY Zenon DEF Next, Running
<1> QED
  BY <1>1, <1>2, <1>3, <1>4, <1>5, <1>6

(* Every step keeps the invariant. *)
LEMMA StepServiceInv == ServiceInv /\ [Next]_vars => ServiceInv'
<1> SUFFICES ASSUME ServiceInv, [Next]_vars PROVE ServiceInv'
  OBVIOUS
<1>1. Shape /\ Shape'
  BY StepShape DEF ServiceInv
<1>2. CASE UNCHANGED vars
  <2>1. UNCHANGED <<globals, slots, mpc, walks, stack, hot, broken, stolen>>
    BY <1>2 DEF vars
  <2>2. FreeSlots' <=> FreeSlots
    BY <2>1 DEF FreeSlots, Available, slots
  <2>3. Stopped' <=> Stopped
    BY <2>1 DEF Stopped, Available, slots
  <2>4. Stack' /\ Exclusive' <=> Stack /\ Exclusive
    BY <2>1 DEF Stack, Exclusive, Inside, HotInside, globals, stack, hot
  <2>5. Stopping' /\ Starting' <=> Stopping /\ Starting
    BY <2>1 DEF Stopping, Starting, HotInside, NoHotplug, Available, globals, slots, walks, hot
  <2>6. Joining' <=> Joining
    BY <2>1 DEF Joining, Joins, HotJoins, Available, slots, walks, hot
  <2>7. HotplugSlot' /\ RenamedSlot' <=> HotplugSlot /\ RenamedSlot
    BY <2>1 DEF HotplugSlot, RenamedSlot, HotJoins, Available, slots, walks, hot
  <2>8. UNCHANGED <<broken, stolen, nested>>
    BY <2>1 DEF stack
  <2> QED
    BY <1>1, <2>2, <2>3, <2>4, <2>5, <2>6, <2>7, <2>8 DEF ServiceInv, Disciplined, Order
<1>3. ASSUME Next, Running, ~stolen', ~nested'
      PROVE  Disciplined'
  <2>1. broken = "no" /\ Disciplined
    BY <1>1, <1>3, Remembered DEF Running, ServiceInv
  <2> QED
    BY <1>1, <1>3, <2>1, SlotDisciplined, MainDisciplined, CommandDisciplined,
       HotplugDisciplined DEF Next
<1> QED
  BY <1>1, <1>2, <1>3 DEF Next, ServiceInv

(* The invariant holds in every behaviour. *)
THEOREM ServiceInvariance == Spec => []ServiceInv
BY InitServiceInv, StepServiceInv, PTL DEF Spec

-----------------------------------------------------------------------------
(* The service keeps its types, whatever the devices and callers do.       *)
THEOREM ServiceTypes == Spec => []TypeOK
<1>1. ServiceInv => TypeOK
  BY DEF ServiceInv, Shape
<1> QED
  BY <1>1, ServiceInvariance, PTL

(* Every way out of a critical section frees the lock, even if a runner    *)
(* has freed it before and another thread is inside one as well.           *)
THEOREM LockIsReleased == Spec => []LockReleased
<1>1. ServiceInv => LockReleased
  BY DEF ServiceInv, Shape
<1> QED
  BY <1>1, ServiceInvariance, PTL

(* No slot is given out while its thread is not joined, even if a SIGTERM  *)
(* interrupts start_all, as long as no runner has freed the lock under     *)
(* another thread and no SIGHUP has interrupted a method or a handler.     *)
THEOREM AvailableHasNoThread == Spec => []AvailableIsFree
<1>1. ServiceInv => AvailableIsFree
  BY DEF ServiceInv, Disciplined, FreeSlots, Available, AvailableIsFree
<1> QED
  BY <1>1, ServiceInvariance, PTL

(* Under the same conditions no client is left when handle_stop returns,   *)
(* to whichever method or signal, however many devices end or are plugged  *)
(* in meanwhile and wherever a SIGTERM comes.                              *)
THEOREM StopLeavesNobody == Spec => []StopIsComplete
<1>1. ServiceInv => StopIsComplete
  BY DEF ServiceInv, Disciplined, FreeSlots, Stopped, Available, StopIsComplete, AllStopped
<1> QED
  BY <1>1, ServiceInvariance, PTL

=============================================================================
