--------------------------- MODULE ProgramsProofs ---------------------------
(***************************************************************************)
(* What the smaller programs keep, for any signals, preferences, devices   *)
(* and descriptions: a stop reaches the client of overwitch-cli, the       *)
(* window of overwitch has its timer, what a program owns is freed once    *)
(* and a device is listed with a description of its own.  At the end, the  *)
(* types of all the components that module MCPrograms puts together.       *)
(***************************************************************************)
EXTENDS MCPrograms, RecorderProofs, QueueProofs

-----------------------------------------------------------------------------
(***************************************************************************)
(* overwitch-cli.                                                          *)
(***************************************************************************)
(* A stop that came while a client runs has called jclient_stop, or the    *)
(* handler that took it will.                                              *)
StopOnItsWay ==
  running /\ stop => called \/ \E s \in SignalNumbers : sigpc[s] = "call"

(* The main thread waits for a client that a handler can see, or that it   *)
(* has stopped itself.                                                     *)
WaitsForItsClient == mainpc = "wait" => running \/ called

CliInv == CliTypeOK /\ StopOnItsWay /\ WaitsForItsClient

LEMMA InitCliInv ==
  ASSUME NEW pc \in {"find", "exited"}, CliAt(pc)
  PROVE  CliInv
<1>1. {stop, running, lost, called, dangling} \subseteq BOOLEAN
  BY Zenon DEF CliAt
<1> QED
  BY <1>1 DEF CliAt, CliInv, CliTypeOK, StopOnItsWay, WaitsForItsClient,
              MainPcs, Threads, Sessions

LEMMA StopClientTypes ==
  ASSUME CliTypeOK, StopClient
  PROVE  /\ session' \in Sessions
         /\ {lost', called', dangling'} \subseteq BOOLEAN
         /\ called'
<1>1. session' \in Sessions
  BY DEF CliTypeOK, StopClient, Sessions
<1>2. {lost', called', dangling'} \subseteq BOOLEAN /\ called'
  BY Zenon DEF CliTypeOK, StopClient
<1> QED
  BY <1>1, <1>2

(* The static flags stay Boolean; each step that touches one says how.     *)
LEMMA CliTypeStep ==
  ASSUME CliTypeOK, CliNext
  PROVE  CliTypeOK'
<1>1. {stop', running', lost', called', dangling'} \subseteq BOOLEAN
  <2>1. CASE CliMain
    BY <2>1, StopClientTypes, Zenon
    DEF CliTypeOK, CliMain, Find, Check, Checked, InitClient, StartClient, Decide,
        Decided, WaitClient, Exit
  <2>2. ASSUME NEW s \in SignalNumbers, Raise(s) \/ Handler(s)
        PROVE  {stop', running', lost', called', dangling'} \subseteq BOOLEAN
    BY <2>2, StopClientTypes, Zenon
    DEF CliTypeOK, Raise, Handler, HandlerStep, HandlerLock, HandlerUnlock, HandlerCall
  <2>3. CASE SessionAdvances \/ SessionFails \/ UNCHANGED clivars
    BY <2>3, Zenon
    DEF CliTypeOK, SessionAdvances, SessionFails, SessionStep, clivars
  <2> QED
    BY <2>1, <2>2, <2>3 DEF CliNext
<1>2. /\ mainpc' \in MainPcs
      /\ holder' \in {"nobody", "main"} \union SignalNumbers
      /\ sigpc' \in [SignalNumbers -> {"idle", "lock", "locked", "call", "done"}]
      /\ under' \in [SignalNumbers -> Threads]
      /\ session' \in Sessions
  <2>1. CASE CliMain
    BY <2>1, StopClientTypes
    DEF CliTypeOK, CliMain, Find, Check, Checked, InitClient, StartClient, Decide,
        Decided, WaitClient, Exit, MainStep, Lock, Unlock, hvars, MainPcs, Sessions
  <2>2. ASSUME NEW s \in SignalNumbers, Raise(s) \/ Handler(s)
        PROVE  /\ mainpc' \in MainPcs
               /\ holder' \in {"nobody", "main"} \union SignalNumbers
               /\ sigpc' \in [SignalNumbers -> {"idle", "lock", "locked", "call", "done"}]
               /\ under' \in [SignalNumbers -> Threads]
               /\ session' \in Sessions
    BY <2>2, StopClientTypes
    DEF CliTypeOK, Raise, Handler, HandlerStep, HandlerLock, HandlerUnlock, HandlerCall,
        Lock, Unlock
  <2>3. CASE SessionAdvances \/ SessionFails \/ UNCHANGED clivars
    BY <2>3
    DEF CliTypeOK, SessionAdvances, SessionFails, SessionStep, Sessions, clivars, hvars
  <2> QED
    BY <2>1, <2>2, <2>3 DEF CliNext
<1> QED
  BY <1>1, <1>2, Zenon DEF CliTypeOK

LEMMA StepCliInv == CliInv /\ [CliNext]_clivars => CliInv'
<1> SUFFICES ASSUME CliInv, [CliNext]_clivars PROVE CliInv'
  OBVIOUS
<1>0. CliTypeOK /\ CliNext
  BY DEF CliInv, CliNext
<1>1. CliTypeOK'
  BY <1>0, CliTypeStep
<1>2. StopOnItsWay' /\ WaitsForItsClient'
  <2>1. CASE CliMain
    BY <2>1, StopClientTypes
    DEF CliInv, CliTypeOK, StopOnItsWay, WaitsForItsClient, CliMain, Find, Check,
        Checked, InitClient, StartClient, Decide, Decided, WaitClient, Exit, MainStep,
        hvars
  <2>2. ASSUME NEW s \in SignalNumbers, Raise(s) \/ Handler(s)
        PROVE  StopOnItsWay' /\ WaitsForItsClient'
    BY <2>2, StopClientTypes
    DEF CliInv, CliTypeOK, StopOnItsWay, WaitsForItsClient, Raise, Handler,
        HandlerStep, HandlerLock, HandlerUnlock, HandlerCall
  <2>3. CASE SessionAdvances \/ SessionFails \/ UNCHANGED clivars
    BY <2>3
    DEF CliInv, StopOnItsWay, WaitsForItsClient, SessionAdvances, SessionFails,
        SessionStep, clivars, hvars
  <2> QED
    BY <1>0, <2>1, <2>2, <2>3 DEF CliNext
<1> QED
  BY <1>1, <1>2 DEF CliInv

(* No stop falls between the main thread and the handlers, whatever the    *)
(* signals and whatever they interrupt (main-cli.c:66-73, 116-125).        *)
THEOREM CliStopReaches == CliSpec => []StopReachesClient
<1>1. CliInv => StopReachesClient
  BY DEF CliInv, StopOnItsWay, WaitsForItsClient, StopReachesClient, Active
<1>2. CliInit => CliInv
  BY InitCliInv DEF CliInit
<1> QED
  BY <1>1, <1>2, StepCliInv, PTL DEF CliSpec

-----------------------------------------------------------------------------
(***************************************************************************)
(* overwitch, the graphical client.                                        *)
(***************************************************************************)
(* What the label of a name and the dialog keep each other from, and how   *)
(* many timers there are from the first action to the last.                *)
TimersKept ==
  /\ ~(dialog /\ editing)
  /\ gpc = "startup" => timers = 0 /\ ~editing /\ ~dialog /\ ~applied
  /\ gpc = "up" /\ connection => timers = IF editing THEN 0 ELSE 1
  /\ gpc = "saving" /\ connection => timers = 0 /\ ~editing

(* Not only the clients that there are: those that the hotplug thread will *)
(* start read nothing, they are configured with what was read.             *)
ServiceHasFile ==
  gpc = "up" /\ connection /\ applied /\ (clients > 0 \/ hotplug) =>
    loaded = prefs_file \/ StartWaits

(* Nothing is left of a service that has ended. *)
GoneIsEmpty == ~service => clients = 0 /\ ~hotplug /\ late = <<>>

GuiInv == GuiTypeOK /\ TimersKept /\ ServiceHasFile /\ GoneIsEmpty

LEMMA InitGuiInv ==
  ASSUME NEW pc \in {"startup", "exited"}, GuiAt(pc)
  PROVE  GuiInv
<1>1. {connection, editing, dialog, columns, cols_file, service, hotplug} \subseteq BOOLEAN
  BY Zenon DEF GuiAt
<1>2. MaxDevices \in Nat
  BY GuiAssumption
<1>3. timers \in Nat /\ devices \in -1..MaxDevices
  BY <1>2 DEF GuiAt
<1>4. {widgets, prefs_file, loaded} \subseteq Preferences
  BY Zenon DEF GuiAt
<1>5. plugged \in 0..MaxDevices /\ clients \in 0..plugged
  BY <1>2 DEF GuiAt
<1>6. late \in Seq(Methods) /\ late = <<>>
  BY DEF GuiAt
<1> QED
  BY <1>1, <1>3, <1>4, <1>5, <1>6
  DEF GuiAt, GuiInv, GuiTypeOK, TimersKept, ServiceHasFile, GoneIsEmpty

(* A call that comes to wait goes behind those that wait already. *)
LEMMA WaitsBehind ==
  ASSUME late \in Seq(Methods), NEW m \in Methods, late' = Append(late, m)
  PROVE  /\ late' \in Seq(Methods) /\ late' # <<>>
         /\ StartWaits => StartWaits'
         /\ m = "Start" => StartWaits'
<1>1. Len(late') = Len(late) + 1 /\ Len(late) \in Nat
  OBVIOUS
<1>2. late'[Len(late) + 1] = m /\ \A i \in 1..Len(late) : late'[i] = late[i]
  OBVIOUS
<1>3. Len(late) + 1 \in 1..Len(late') /\ 1..Len(late) \subseteq 1..Len(late')
  BY <1>1
<1>4. late' \in Seq(Methods) /\ late' # <<>>
  BY <1>1
<1>5. StartWaits => StartWaits'
  BY <1>2, <1>3, Zenon DEF StartWaits
<1>6. m = "Start" => StartWaits'
  BY <1>2, <1>3, Zenon DEF StartWaits
<1> QED
  BY <1>4, <1>5, <1>6

(* The one that is run is the first. *)
LEMMA FirstIsRun ==
  ASSUME late \in Seq(Methods), late # <<>>, late' = Tail(late)
  PROVE  /\ late' \in Seq(Methods)
         /\ StartWaits /\ Head(late) # "Start" => StartWaits'
<1>1. late' \in Seq(Methods)
  OBVIOUS
<1>2. ASSUME StartWaits, Head(late) # "Start"
      PROVE  StartWaits'
  <2>1. PICK i \in 1..Len(late) : late[i] = "Start"
    BY <1>2 DEF StartWaits
  <2>2. i # 1
    BY <1>2, <2>1
  <2>3. i - 1 \in 1..Len(late') /\ late'[i - 1] = "Start"
    BY <2>1, <2>2
  <2> QED
    BY <2>3 DEF StartWaits
<1> QED
  BY <1>1, <1>2

(* What a call of the service, a poll or a save does to the variables that *)
(* the invariant is about.                                                 *)
ServiceMoved ==
  /\ {service', hotplug'} \subseteq BOOLEAN
  /\ clients' \in 0..plugged
  /\ loaded' \in {loaded, prefs_file}
  /\ late' \in Seq(Methods)
  /\ GoneIsEmpty'
  /\ clients' > 0 \/ hotplug' =>
       \/ loaded' = prefs_file
       \/ StartWaits'
       \/ /\ loaded' = loaded
          /\ clients > 0 \/ hotplug
          /\ StartWaits => StartWaits'

(* Who was asked to start has read the file, or has not run the Start yet. *)
Started == clients' > 0 \/ hotplug' => loaded' = prefs_file \/ StartWaits'

(* The ways in which a call that is answered, or that is not, ends. *)
LEMMA ServiceOutcomes ==
  ASSUME GuiTypeOK, GoneIsEmpty
  PROVE  /\ ServiceStarts /\ late' \in Seq(Methods) => ServiceMoved /\ Started
         /\ Stopping /\ late' \in Seq(Methods) => ServiceMoved
         /\ ServiceEnds => ServiceMoved /\ Started
         /\ UNCHANGED remote => ServiceMoved
         /\ service /\ ServiceRenames /\ late' \in Seq(Methods) /\ (StartWaits => StartWaits')
              => ServiceMoved
<1>1. plugged \in Nat /\ clients \in 0..plugged /\ 0 \in 0..plugged /\ ~(0 > 0)
  BY GuiAssumption DEF GuiTypeOK
<1>2. service \in BOOLEAN /\ hotplug \in BOOLEAN /\ late \in Seq(Methods) /\ <<>> \in Seq(Methods)
  BY Zenon, EmptySeq DEF GuiTypeOK
<1>3. ServiceStarts /\ late' \in Seq(Methods) => ServiceMoved /\ Started
  BY <1>1, <1>2, Zenon DEF ServiceStarts, ServiceMoved, Started, GoneIsEmpty
<1>4. Stopping /\ late' \in Seq(Methods) => ServiceMoved
  BY <1>1, <1>2, Zenon DEF Stopping, ServiceMoved, GoneIsEmpty
<1>5. ServiceEnds => ServiceMoved /\ Started
  BY <1>1, <1>2, Zenon DEF ServiceEnds, ServiceMoved, Started, GoneIsEmpty
<1>6. UNCHANGED remote => ServiceMoved
  <2>1. UNCHANGED remote =>
          /\ UNCHANGED <<service, clients, hotplug, loaded, late>>
          /\ StartWaits' = StartWaits
    BY DEF remote, StartWaits
  <2> QED
    BY <1>1, <1>2, <2>1, Zenon DEF ServiceMoved, GoneIsEmpty
<1>7. ASSUME service, ServiceRenames, late' \in Seq(Methods), StartWaits => StartWaits'
      PROVE  ServiceMoved
  <2>1. /\ service' = service /\ hotplug' = hotplug /\ loaded' = loaded
        /\ clients' \in {clients, clients - IF clients > 0 THEN 1 ELSE 0}
    BY <1>7, Zenon DEF ServiceRenames
  <2>2. clients' \in 0..plugged /\ (clients' > 0 => clients > 0)
    BY <1>1, <2>1
  <2> QED
    BY <1>2, <1>7, <2>1, <2>2, Zenon DEF ServiceMoved, GoneIsEmpty
<1> QED
  BY <1>3, <1>4, <1>5, <1>6, <1>7, Zenon

LEMMA ServiceCalls ==
  ASSUME GuiTypeOK, GoneIsEmpty
  PROVE  /\ Start => ServiceMoved /\ (connection => Started)
         /\ StopService => ServiceMoved
         /\ ExitService => ServiceMoved
         /\ SetDeviceName => ServiceMoved
         /\ ServiceCatchesUp => ServiceMoved
<1>0. /\ late \in Seq(Methods)
      /\ {"Start", "Stop", "Exit", "SetDeviceName"} \subseteq Methods
  BY DEF GuiTypeOK, Methods
<1>1. UNCHANGED late => late' \in Seq(Methods) /\ (StartWaits => StartWaits')
  BY <1>0, Zenon DEF StartWaits
<1>2. ASSUME NEW m \in Methods, CallFails(m)
      PROVE  ServiceMoved /\ (m = "Start" => Started)
  <2>1. CASE service /\ ServiceEnds
    BY <2>1, ServiceOutcomes, Zenon
  <2>2. CASE ~service /\ UNCHANGED remote
    <3>1. ServiceMoved
      BY <2>2, ServiceOutcomes, Zenon
    <3>2. ~service' /\ ~(0 > 0)
      BY <2>2 DEF remote
    <3> QED
      BY <3>1, <3>2, Zenon DEF ServiceMoved, GoneIsEmpty, Started
  <2>3. CASE /\ late' = Append(late, m)
             /\ IF service THEN UNCHANGED <<service, clients, hotplug, loaded>>
                           ELSE ServiceStarts
    <3>1. /\ late' \in Seq(Methods) /\ late' # <<>>
          /\ StartWaits => StartWaits'
          /\ m = "Start" => StartWaits'
      BY <1>0, <1>2, <2>3, WaitsBehind
    <3>2. CASE service
      <4>1. service' = service /\ clients' = clients /\ hotplug' = hotplug /\ loaded' = loaded
        BY <2>3, <3>2
      <4>2. {service, hotplug} \subseteq BOOLEAN /\ clients \in 0..plugged
        BY Zenon DEF GuiTypeOK
      <4>3. ServiceMoved
        BY <3>1, <3>2, <4>1, <4>2, Zenon DEF ServiceMoved, GoneIsEmpty
      <4> QED
        BY <3>1, <4>3, Zenon DEF Started
    <3>3. CASE ~service
      BY <2>3, <3>1, <3>3, ServiceOutcomes, Zenon
    <3> QED
      BY <3>2, <3>3
  <2> QED
    BY <1>2, <2>1, <2>2, <2>3, Zenon DEF CallFails
<1>3. Start => ServiceMoved /\ (connection => Started)
  BY <1>0, <1>1, <1>2, ServiceOutcomes, Zenon DEF Start, Call
<1>4. StopService => ServiceMoved
  BY <1>0, <1>1, <1>2, ServiceOutcomes, Zenon DEF StopService, Call
<1>5. ExitService => ServiceMoved
  BY <1>0, <1>1, <1>2, ServiceOutcomes, Zenon DEF ExitService, Call
<1>6. SetDeviceName => ServiceMoved
  BY <1>0, <1>1, <1>2, ServiceOutcomes, Zenon DEF SetDeviceName, Call
<1>7. ASSUME ServiceCatchesUp PROVE ServiceMoved
  <2>1. service /\ late # <<>>
    BY <1>7, Zenon DEF ServiceCatchesUp, GoneIsEmpty
  <2>2. CASE ServiceEnds
    BY <2>2, ServiceOutcomes, Zenon
  <2>3. CASE late' = Tail(late)
    <3>1. /\ late' \in Seq(Methods)
          /\ StartWaits /\ Head(late) # "Start" => StartWaits'
      BY <1>0, <2>1, <2>3, FirstIsRun
    <3>2. Head(late) = "SetDeviceName" => Head(late) # "Start"
      OBVIOUS
    <3> QED
      BY <1>7, <2>1, <2>2, <3>1, <3>2, ServiceOutcomes, Zenon DEF ServiceCatchesUp
  <2> QED
    BY <1>7, <2>2, <2>3, Zenon DEF ServiceCatchesUp
<1> QED
  BY <1>3, <1>4, <1>5, <1>6, <1>7, Zenon

(* What the window does with the service, whatever the action is.          *)
LEMMA GuiServiceStep ==
  ASSUME GuiTypeOK, GoneIsEmpty, GuiNext
  PROVE  \/ ServiceMoved /\ UNCHANGED plugged
         \/ PlugIn
         \/ PlugOut
<1>1. Poll => ServiceMoved
  <2>1. UNCHANGED late => late' \in Seq(Methods)
    BY Zenon DEF GuiTypeOK
  <2> QED
    BY <2>1, ServiceOutcomes, Zenon DEF Poll
<1>2. CASE Startup \/ RefreshState
  BY <1>1, <1>2, ServiceOutcomes, Zenon DEF Startup, RefreshState, remote
<1>3. CASE ClickStartStop \/ ShowAllColumns \/ OpenPreferences \/ ChangeWidgets
             \/ ClosePreferences \/ ClickSavePreferences \/ Saved
  BY <1>3, ServiceCalls, ServiceOutcomes, Zenon
  DEF ClickStartStop, ShowAllColumns, OpenPreferences, ChangeWidgets,
      ClosePreferences, ClickSavePreferences, Saved
<1>4. CASE BeginEdit \/ EndEdit \/ CloseWindow \/ ExitServiceAndExit \/ ServiceDies
             \/ ServiceCatchesUp \/ UNCHANGED gvars
  BY <1>4, ServiceCalls, ServiceOutcomes, Zenon
  DEF BeginEdit, EndEdit, CloseWindow, ExitServiceAndExit, AppExit, ServiceDies,
      ServiceCatchesUp, gvars
<1> QED
  BY <1>2, <1>3, <1>4, Zenon DEF GuiNext

(* Devices come and go with their clients. *)
LEMMA PlugStep ==
  ASSUME GuiTypeOK, GoneIsEmpty, PlugIn \/ PlugOut
  PROVE  /\ UNCHANGED <<window, prefs, service, hotplug, loaded, late, applied>>
         /\ plugged' \in 0..MaxDevices /\ clients' \in 0..plugged'
         /\ clients' > 0 \/ hotplug' => clients > 0 \/ hotplug
         /\ GoneIsEmpty'
         /\ StartWaits' = StartWaits
<1>1. /\ MaxDevices \in Nat
      /\ plugged \in 0..MaxDevices
      /\ clients \in 0..plugged
  BY GuiAssumption DEF GuiTypeOK
<1>2. UNCHANGED <<window, prefs, service, hotplug, loaded, late, applied>>
  BY DEF PlugIn, PlugOut
<1>3. plugged' \in 0..MaxDevices /\ clients' \in 0..plugged'
  BY <1>1 DEF PlugIn, PlugOut
<1>4. clients' > 0 \/ hotplug' => clients > 0 \/ hotplug
  <2>1. clients' > clients => hotplug
    BY <1>1 DEF PlugIn, PlugOut
  <2> QED
    BY <1>1, <1>2, <1>3, <2>1
<1>5. GoneIsEmpty'
  <2>1. ~hotplug /\ clients = 0 => clients' = 0
    BY <1>1, <1>3, <1>4, <1>2
  <2> QED
    BY <1>2, <2>1, Zenon DEF GoneIsEmpty
<1>6. StartWaits' = StartWaits
  BY <1>2 DEF StartWaits
<1> QED
  BY <1>2, <1>3, <1>4, <1>5, <1>6

LEMMA GuiTypeStep ==
  ASSUME GuiTypeOK, GoneIsEmpty, GuiNext
  PROVE  GuiTypeOK' /\ GoneIsEmpty'
<1>1. /\ {service', hotplug'} \subseteq BOOLEAN
      /\ plugged' \in 0..MaxDevices
      /\ clients' \in 0..plugged'
      /\ loaded' \in {loaded, prefs_file}
      /\ late' \in Seq(Methods)
      /\ GoneIsEmpty'
  <2>0. /\ {service, hotplug} \subseteq BOOLEAN
        /\ plugged \in 0..MaxDevices
        /\ late \in Seq(Methods)
    BY Zenon DEF GuiTypeOK
  <2>1. CASE ServiceMoved /\ UNCHANGED plugged
    BY <2>0, <2>1, Zenon DEF ServiceMoved
  <2>2. CASE PlugIn \/ PlugOut
    BY <2>0, <2>2, PlugStep, Zenon
  <2> QED
    BY <2>1, <2>2, GuiServiceStep, Zenon
<1>2. {connection', editing', dialog', columns', cols_file'} \subseteq BOOLEAN
  BY Zenon
  DEF GuiTypeOK, GuiNext, Startup, RefreshState, ClickStartStop, ShowAllColumns,
      OpenPreferences, ChangeWidgets, ClosePreferences, ClickSavePreferences, Saved,
      BeginEdit, EndEdit, CloseWindow, ExitServiceAndExit, AppExit, SavePreferences,
      PlugIn, PlugOut, ServiceDies, ServiceCatchesUp, window, prefs, gvars
<1>3. {widgets', prefs_file', loaded'} \subseteq Preferences
  BY <1>1, Zenon
  DEF GuiTypeOK, GuiNext, Startup, RefreshState, ClickStartStop, ShowAllColumns,
      OpenPreferences, ChangeWidgets, ClosePreferences, ClickSavePreferences, Saved,
      BeginEdit, EndEdit, CloseWindow, ExitServiceAndExit, AppExit, SavePreferences,
      PlugIn, PlugOut, ServiceDies, ServiceCatchesUp, window, prefs, gvars
<1>4. gpc' \in {"startup", "up", "saving", "exited", "crashed"} /\ timers' \in Nat
  BY DEF GuiTypeOK, GuiNext, Startup, RefreshState, ClickStartStop, ShowAllColumns,
      OpenPreferences, ChangeWidgets, ClosePreferences, ClickSavePreferences, Saved,
      BeginEdit, EndEdit, CloseWindow, ExitServiceAndExit, AppExit, Without, Poll,
      PlugIn, PlugOut, ServiceDies, ServiceCatchesUp, window, gvars
<1>5. devices' \in -1..MaxDevices
  <2>1. /\ MaxDevices \in Nat
        /\ devices \in -1..MaxDevices
        /\ plugged \in 0..MaxDevices
        /\ clients \in 0..plugged
    BY GuiAssumption, Zenon DEF GuiTypeOK
  <2>2. Poll => devices' \in -1..MaxDevices
    BY <2>1 DEF Poll, ServiceStarts, StateUnknown
  <2> QED
    BY <2>1, <2>2, Zenon
    DEF GuiNext, Startup, RefreshState, ClickStartStop, ShowAllColumns,
        OpenPreferences, ChangeWidgets, ClosePreferences, ClickSavePreferences, Saved,
        BeginEdit, EndEdit, CloseWindow, ExitServiceAndExit, AppExit,
        PlugIn, PlugOut, ServiceDies, ServiceCatchesUp, window, gvars
<1> QED
  BY <1>1, <1>2, <1>3, <1>4, <1>5, Zenon DEF GuiTypeOK

LEMMA StepGuiInv == GuiInv /\ [GuiNext]_gvars => GuiInv'
<1> SUFFICES ASSUME GuiInv, [GuiNext]_gvars PROVE GuiInv'
  OBVIOUS
<1>0. GuiTypeOK /\ TimersKept /\ ServiceHasFile /\ GoneIsEmpty /\ (GuiNext \/ UNCHANGED gvars)
  BY DEF GuiInv
<1>1. CASE UNCHANGED gvars
  BY <1>1
  DEF GuiInv, GuiTypeOK, TimersKept, ServiceHasFile, GoneIsEmpty, StartWaits, gvars, window,
      prefs, remote
<1>2. CASE GuiNext
  <2>1. GuiTypeOK' /\ GoneIsEmpty'
    BY <1>0, <1>2, GuiTypeStep
  <2>2. TimersKept'
    BY <1>0, <1>2
    DEF GuiTypeOK, TimersKept, GuiNext, Startup, RefreshState, ClickStartStop, ShowAllColumns,
      OpenPreferences, ChangeWidgets, ClosePreferences, ClickSavePreferences, Saved,
      BeginEdit, EndEdit, CloseWindow, ExitServiceAndExit, AppExit, AtMain, Without, Poll,
      PlugIn, PlugOut, ServiceDies, ServiceCatchesUp, window, gvars
  <2>3. ASSUME gpc' = "up", connection', applied', clients' > 0 \/ hotplug'
        PROVE  loaded' = prefs_file' \/ StartWaits'
    <3>1. Startup => FALSE
      BY <1>0, <2>3, Zenon DEF TimersKept, Startup
    <3>2. Saved => loaded' = prefs_file' \/ StartWaits'
      BY <1>0, <2>3, ServiceCalls, Zenon DEF Saved, prefs, Started
    <3>3. CASE ~Startup /\ ~Saved
      <4>1. /\ gpc = "up" /\ connection /\ applied
            /\ prefs_file' = prefs_file
        BY <1>2, <2>3, <3>3
        DEF GuiNext, RefreshState, ClickStartStop, ShowAllColumns,
            OpenPreferences, ChangeWidgets, ClosePreferences, ClickSavePreferences,
            BeginEdit, EndEdit, CloseWindow, ExitServiceAndExit, AppExit,
            PlugIn, PlugOut, ServiceDies, ServiceCatchesUp, window, prefs, gvars
      <4>2. clients > 0 \/ hotplug => loaded = prefs_file \/ StartWaits
        BY <1>0, <4>1, Zenon DEF ServiceHasFile
      <4>3. CASE ServiceMoved
        BY <2>3, <4>1, <4>2, <4>3, Zenon DEF ServiceMoved
      <4>4. CASE PlugIn \/ PlugOut
        <5>1. /\ loaded' = loaded /\ (StartWaits' = StartWaits)
              /\ clients > 0 \/ hotplug
          BY <1>0, <2>3, <4>4, PlugStep, Zenon
        <5> QED
          BY <4>1, <4>2, <5>1
      <4> QED
        BY <1>0, <1>2, <4>3, <4>4, GuiServiceStep, Zenon
    <3> QED
      BY <3>1, <3>2, <3>3, Zenon
  <2> QED
    BY <2>1, <2>2, <2>3, Zenon DEF GuiInv, ServiceHasFile
<1> QED
  BY <1>0, <1>1, <1>2

LEMMA GuiInvariance == GuiSpec => []GuiInv
<1>1. GuiInit => GuiInv
  BY InitGuiInv DEF GuiInit
<1> QED
  BY <1>1, StepGuiInv, PTL DEF GuiSpec

(* There is one timer while the window waits and none while a name is      *)
(* edited, whatever is saved, edited and cancelled (main.c:216-222, 328,   *)
(* 367).                                                                   *)
THEOREM WindowHasOneTimer == GuiSpec => []OneTimer
<1>1. GuiInv => OneTimer
  BY DEF GuiInv, TimersKept, OneTimer
<1> QED
  BY <1>1, GuiInvariance, PTL

(* From the first Save on a client has what is in the file, or the service *)
(* has a Start to run that its caller has given up: whatever the           *)
(* preferences are, however many devices come and go, and whichever calls  *)
(* fail or come late (main.c:212-222, 388-392).                            *)
THEOREM ClientsHavePreferences == GuiSpec => []PreferencesApplied
<1>1. GuiInv => PreferencesApplied
  BY Zenon DEF GuiInv, ServiceHasFile, PreferencesApplied
<1> QED
  BY <1>1, GuiInvariance, PTL

-----------------------------------------------------------------------------
(***************************************************************************)
(* What a program owns.                                                    *)
(***************************************************************************)
(* What a failed initialisation leaves behind (NothingLeft). *)
Left(f) == IF f = OpenStep THEN {"context"}
           ELSE IF f \in OpenStep + 1..MemStep - 1 THEN {"detached"} ELSE {}

OfJack(S) == IF who = "jack" THEN S ELSE {}

(* While the engine is initialised: what is held besides what usb_shutdown *)
(* releases, and that nothing it would release is dangling.                *)
EngineOwns ==
  lpc = "engine" =>
    /\ failed = 0
    /\ step = 1 => held = Begun
    /\ step = 2 => held = Begun \union {"context"}
    /\ step > 2 => held \ Usb = Begun \union IF step < MemStep THEN {"detached"} ELSE {}
    /\ gone \intersect {"engine", "device", "resampler"} = {}
    /\ step > 1 => "context" \notin gone
    /\ step > 2 => gone \intersect Usb = {}

(* The owner holds nothing that its end does not free, and of a former     *)
(* session only the pointer to the JACK client dangles, until it is        *)
(* overwritten by the first step.                                          *)
OwnerOwns ==
  lpc = "owner" =>
    /\ failed = 0
    /\ held \subseteq EngineDestroyed \union OfJack({"resampler", "aux"})
                        \union IF step = 1 THEN {} ELSE OwnerFrees[who]
    /\ gone \intersect (EngineDestroyed \union {"resampler", "aux"}) = {}
    /\ step > 1 => gone \intersect OwnerFrees[who] = {}
    /\ gone \intersect OwnerFrees[who] \subseteq {"client"}

FailedOwns ==
  lpc = "failed" =>
    /\ failed \in 1..MemStep
    /\ held = (Begun \ {"engine"}) \union Left(failed)
    /\ gone \intersect {"device", "resampler"} = {}

(* Only the structure of a JACK client has a past; an interface is claimed *)
(* by its number.                                                          *)
Dangling ==
  /\ who # "jack" /\ lpc \in {"engine", "owner"} => gone = {}
  /\ gone \intersect {"interface_in", "interface_out"} = {}

LifeInv ==
  /\ LifecycleTypeOK
  /\ EngineOwns /\ OwnerOwns /\ FailedOwns /\ Dangling
  /\ FreedOnce /\ NothingLeft

LEMMA BegunResources ==
  /\ Begun \subseteq {"device", "engine", "resampler"}
  /\ who # "jack" => Begun = {"device", "engine"}
  /\ who = "jack" => Begun = {"device", "engine", "resampler"}
BY DEF Begun

(* What the steps of the engine acquire. *)
LEMMA EngineAcquires ==
  /\ EngineSteps[1] = {"context"}
  /\ EngineSteps[2] = {"handle", "usb_device", "detached"}
  /\ EngineSteps[MemStep] = {"mem"}
  /\ \A i \in 3..MemStep - 1 : EngineSteps[i] \subseteq Usb
BY DEF EngineSteps, MemStep, Usb, Transfers

(* What the steps of an owner acquire, its end frees. *)
LEMMA OwnerAcquires ==
  ASSUME NEW o \in Owners, NEW i \in Nat \ {0}, i <= Len(OwnerSteps[o])
  PROVE  /\ i <= 8
         /\ OwnerSteps[o][i] \subseteq OwnerFrees[o] \union IF o = "jack" THEN {"aux"} ELSE {}
         /\ o = "jack" /\ i = 1 => OwnerSteps[o][i] = {"client"}
<1>1. CASE o = "play"
  BY <1>1 DEF OwnerSteps, OwnerFrees
<1>2. CASE o = "record"
  BY <1>2 DEF OwnerSteps, OwnerFrees
<1>3. CASE o = "jack"
  BY <1>3 DEF OwnerSteps, OwnerFrees
<1> QED
  BY <1>1, <1>2, <1>3 DEF Owners

LEMMA InitLifeInv ==
  ASSUME NEW pc \in {"engine", "end"}, LifecycleAt(pc)
  PROVE  LifeInv
<1>1. /\ who \in Owners /\ lpc = pc /\ step = 1 /\ gone = {}
      /\ held = IF pc = "end" THEN {} ELSE Begun
      /\ ~twice /\ twice \in BOOLEAN /\ failed = 0 /\ served = 1
  BY Zenon DEF LifecycleAt
<1>2. LifecycleTypeOK
  BY <1>1, LifecycleAssumption, BegunResources
  DEF LifecycleTypeOK, Resources, EngineDestroyed, MemStep
<1> QED
  BY <1>1, <1>2
  DEF LifeInv, EngineOwns, OwnerOwns, FailedOwns, Dangling, FreedOnce, NothingLeft,
      OpenStep, MemStep

LEMMA EngineStepLife ==
  ASSUME LifeInv, EngineStepDone
  PROVE  LifeInv'
<1>1. /\ lpc = "engine" /\ lpc' = "engine" /\ step \in 1..13 /\ step' = step + 1
      /\ held' = (held \union EngineSteps[step]) \
                   IF step = 13 THEN {"detached"} ELSE {}
      /\ gone' = gone \ (EngineSteps[step] \union IF step = 2 THEN Transfers ELSE {})
      /\ UNCHANGED <<who, twice, failed, served>>
  BY DEF LifeInv, LifecycleTypeOK, EngineStepDone, MemStep, OpenStep
<1>2. Begun' = Begun
  BY <1>1 DEF Begun
<1>3. EngineSteps[step] \subseteq Usb \union {"detached"}
  BY <1>1, EngineAcquires DEF MemStep, Usb
<1>4. LifecycleTypeOK'
  <2>1. held' \subseteq Resources /\ gone' \subseteq Resources /\ held' \intersect gone' = {}
    BY <1>1, <1>3 DEF LifeInv, LifecycleTypeOK, Resources, EngineDestroyed
  <2>2. step' \in 1..MemStep
    BY <1>1 DEF MemStep
  <2> QED
    BY <1>1, <2>1, <2>2, Zenon DEF LifeInv, LifecycleTypeOK
<1>5. EngineOwns'
  <2>0. EngineOwns /\ Dangling
    BY DEF LifeInv
  <2>1. gone' \intersect {"engine", "device", "resampler"} = {}
    BY <1>1, <2>0 DEF EngineOwns
  <2>2. CASE step = 1
    <3>1. held' = Begun \union {"context"} /\ "context" \notin gone'
      BY <1>1, <2>0, <2>2, EngineAcquires DEF EngineOwns
    <3> QED
      BY <1>1, <1>2, <2>0, <2>1, <2>2, <3>1 DEF EngineOwns
  <2>3. CASE step = 2
    <3>1. held' = Begun \union {"context", "handle", "usb_device", "detached"}
      BY <1>1, <2>0, <2>3, EngineAcquires DEF EngineOwns
    <3>2. held' \ Usb = Begun \union {"detached"}
      BY <3>1, BegunResources DEF Usb, Transfers
    <3>3. gone' \intersect Usb = {}
      BY <1>1, <2>0, <2>3, EngineAcquires DEF EngineOwns, Dangling, Usb
    <3> QED
      BY <1>1, <1>2, <2>0, <2>1, <2>3, <3>2, <3>3 DEF EngineOwns, Usb, MemStep
  <2>4. CASE step > 2
    <3>1. EngineSteps[step] \subseteq Usb
      BY <1>1, <2>4, EngineAcquires DEF MemStep
    <3>2. held \ Usb = Begun \union {"detached"}
      BY <1>1, <2>0, <2>4 DEF EngineOwns, MemStep
    <3>3. "detached" \notin Usb /\ "detached" \notin Begun
      BY BegunResources DEF Usb, Transfers
    <3>4. held' \ Usb = Begun \union IF step = 13 THEN {} ELSE {"detached"}
      BY <1>1, <3>1, <3>2, <3>3
    <3>5. gone' \intersect Usb = {}
      BY <1>1, <2>0, <2>4 DEF EngineOwns
    <3> QED
      BY <1>1, <1>2, <2>0, <2>1, <2>4, <3>4, <3>5 DEF EngineOwns, Usb, MemStep
  <2> QED
    BY <1>1, <2>2, <2>3, <2>4
<1> QED
  BY <1>1, <1>4, <1>5
  DEF LifeInv, OwnerOwns, FailedOwns, Dangling, FreedOnce, NothingLeft

LEMMA EngineReadyLife ==
  ASSUME LifeInv, EngineReady
  PROVE  LifeInv'
<1>1. /\ lpc = "engine" /\ lpc' = "owner" /\ step = MemStep /\ step' = 1
      /\ held' = held \union {"mem"}
      /\ gone' = gone \ ({"mem"} \union Forgotten)
      /\ UNCHANGED <<who, twice, failed, served>>
  BY EngineAcquires DEF EngineReady
<1>2. /\ failed = 0
      /\ held \ Usb = Begun
      /\ gone \intersect Usb = {}
      /\ gone \intersect {"engine", "device", "resampler"} = {}
      /\ who \in Owners
      /\ who # "jack" => gone = {}
  BY <1>1 DEF LifeInv, EngineOwns, Dangling, LifecycleTypeOK, MemStep
<1>3. /\ gone' \intersect (EngineDestroyed \union {"resampler", "aux"}) = {}
      /\ gone' \intersect OwnerFrees[who] \subseteq {"client"}
  BY <1>1, <1>2 DEF EngineDestroyed, Forgotten, Owners, OwnerFrees
<1>4. held' \subseteq EngineDestroyed \union OfJack({"resampler", "aux"})
  BY <1>1, <1>2, BegunResources DEF EngineDestroyed, OfJack
<1>5. LifecycleTypeOK'
  <2>1. held' \subseteq Resources /\ gone' \subseteq Resources /\ held' \intersect gone' = {}
    BY <1>1, <1>2, <1>4 DEF LifeInv, LifecycleTypeOK, Resources, EngineDestroyed
  <2>2. step' \in 1..MemStep
    BY <1>1 DEF MemStep
  <2> QED
    BY <1>1, <2>1, <2>2, Zenon DEF LifeInv, LifecycleTypeOK
<1>6. OwnerOwns'
  BY <1>1, <1>2, <1>3, <1>4 DEF OwnerOwns, OfJack, LifeInv
<1> QED
  BY <1>1, <1>2, <1>5, <1>6
  DEF LifeInv, EngineOwns, FailedOwns, Dangling, FreedOnce, NothingLeft

(* usb_shutdown, or nothing but the engine if no device was opened.        *)
LEMMA EngineFailsLife ==
  ASSUME LifeInv, EngineStepFails
  PROVE  LifeInv'
<1> DEFINE S == {"engine"} \union IF step > OpenStep THEN Usb ELSE {}
<1>1. /\ lpc = "engine" /\ lpc' = "failed" /\ failed' = step /\ Free(S)
      /\ UNCHANGED <<who, step, served>>
  BY DEF EngineStepFails
<1>2. EngineOwns /\ step \in 1..14 /\ Begun' = Begun
  BY <1>1 DEF LifeInv, LifecycleTypeOK, MemStep, Begun
<1>3. S \intersect gone = {}
  BY <1>1, <1>2 DEF EngineOwns, OpenStep
<1>4. held' = (Begun \ {"engine"}) \union Left(step)
  <2>1. CASE step = 1
    BY <1>1, <1>2, <2>1 DEF Free, EngineOwns, Left, OpenStep, MemStep
  <2>2. CASE step = 2
    BY <1>1, <1>2, <2>2, BegunResources DEF Free, EngineOwns, Left, OpenStep, MemStep
  <2>3. CASE step > 2
    <3>1. held' = (held \ Usb) \ {"engine"}
      BY <1>1, <2>3 DEF Free, OpenStep
    <3>2. held \ Usb = Begun \union IF step < MemStep THEN {"detached"} ELSE {}
      BY <1>1, <1>2, <2>3 DEF EngineOwns
    <3> QED
      BY <1>2, <2>3, <3>1, <3>2 DEF Left, OpenStep, MemStep
  <2> QED
    BY <1>2, <2>1, <2>2, <2>3
<1>5. gone' \subseteq (gone \union S) \ ({"interface_in", "interface_out"} \ gone)
  BY <1>1 DEF Free
<1>6. gone' \intersect {"device", "resampler", "interface_in", "interface_out"} = {}
  BY <1>1, <1>2, <1>5 DEF EngineOwns, LifeInv, Dangling, Usb, Transfers
<1>7. twice' = FALSE
  BY <1>1, <1>3, Zenon DEF Free, LifeInv, FreedOnce, LifecycleTypeOK
<1>8. LifecycleTypeOK'
  <2>1. held' \subseteq Resources /\ gone' \subseteq Resources /\ held' \intersect gone' = {}
    BY <1>1 DEF Free, LifeInv, LifecycleTypeOK
  <2>2. failed' \in 0..MemStep
    BY <1>1, <1>2 DEF MemStep
  <2> QED
    BY <1>1, <1>7, <2>1, <2>2, Zenon DEF LifeInv, LifecycleTypeOK
<1>9. FailedOwns'
  BY <1>1, <1>2, <1>4, <1>6 DEF FailedOwns, MemStep, Left
<1> QED
  BY <1>1, <1>6, <1>7, <1>8, <1>9
  DEF LifeInv, EngineOwns, OwnerOwns, Dangling, FreedOnce, NothingLeft

LEMMA GiveUpLife ==
  ASSUME LifeInv, GiveUp
  PROVE  LifeInv'
<1> DEFINE S == {"device"} \union IF who = "jack" THEN {"resampler"} ELSE {}
<1>1. /\ lpc = "failed" /\ lpc' = "end" /\ Free(S)
      /\ UNCHANGED <<who, step, failed, served>>
  BY DEF GiveUp
<1>2. FailedOwns /\ Dangling /\ LifecycleTypeOK /\ ~twice
  BY DEF LifeInv, FreedOnce
<1>3. S \intersect gone = {}
  BY <1>1, <1>2 DEF FailedOwns
<1>4. held' = Left(failed)
  BY <1>1, <1>2, BegunResources DEF Free, FailedOwns, Left
<1>5. gone' \intersect {"interface_in", "interface_out"} = {}
  BY <1>1, <1>2 DEF Free, Dangling
<1>6. twice' = FALSE
  BY <1>1, <1>2, <1>3, Zenon DEF Free, LifecycleTypeOK
<1>7. held' \subseteq Resources /\ gone' \subseteq Resources /\ held' \intersect gone' = {}
  BY <1>1, <1>2 DEF Free, LifecycleTypeOK
<1>8. LifecycleTypeOK'
  BY <1>1, <1>2, <1>6, <1>7, Zenon DEF LifecycleTypeOK
<1> QED
  BY <1>1, <1>4, <1>5, <1>6, <1>8
  DEF LifeInv, EngineOwns, OwnerOwns, FailedOwns, Dangling, FreedOnce, NothingLeft, Left

LEMMA OwnerStepLife ==
  ASSUME LifeInv, OwnerStep \/ NoFile
  PROVE  LifeInv'
<1>1. /\ lpc = "owner" /\ lpc' = "owner" /\ step' = step + 1 /\ step \in 1..8
      /\ UNCHANGED <<who, twice, failed, served>>
      /\ who \in Owners
  BY OwnerAcquires DEF OwnerStep, NoFile, LifeInv, LifecycleTypeOK
<1>2. PICK got : /\ held' = held \union got
                 /\ gone' = gone \ got
                 /\ got \subseteq OwnerFrees[who] \union OfJack({"aux"})
                 /\ who = "jack" /\ step = 1 => got = {"client"}
  <2>1. CASE OwnerStep
    <3>1. /\ held' = held \union OwnerSteps[who][step]
          /\ gone' = gone \ OwnerSteps[who][step]
      BY <2>1 DEF OwnerStep
    <3>2. /\ OwnerSteps[who][step] \subseteq OwnerFrees[who] \union OfJack({"aux"})
          /\ who = "jack" /\ step = 1 => OwnerSteps[who][step] = {"client"}
      BY <1>1, <2>1, OwnerAcquires DEF OwnerStep, OfJack
    <3> QED
      BY <3>1, <3>2, Zenon
  <2>2. CASE NoFile
    <3>1. /\ held' = held \union {} /\ gone' = gone \ {} /\ who # "jack"
          /\ {} \subseteq OwnerFrees[who] \union OfJack({"aux"})
      BY <2>2 DEF NoFile
    <3> QED
      BY <3>1, Zenon
  <2> QED
    BY <2>1, <2>2
<1>3. OwnerOwns /\ Dangling /\ LifecycleTypeOK
  BY DEF LifeInv
<1>4. OwnerFrees[who] \subseteq Resources
  BY <1>1 DEF Resources
<1>5. LifecycleTypeOK'
  <2>1. held' \subseteq Resources /\ gone' \subseteq Resources /\ held' \intersect gone' = {}
    BY <1>2, <1>3, <1>4 DEF OfJack, LifecycleTypeOK, Resources
  <2>2. step' \in 1..MemStep
    BY <1>1 DEF MemStep
  <2> QED
    BY <1>1, <1>3, <2>1, <2>2, Zenon DEF LifecycleTypeOK
<1>6. OwnerOwns'
  <2>1. /\ failed = 0
        /\ held \subseteq EngineDestroyed \union OfJack({"resampler", "aux"})
                            \union OwnerFrees[who]
        /\ gone \intersect (EngineDestroyed \union {"resampler", "aux"}) = {}
        /\ step > 1 => gone \intersect OwnerFrees[who] = {}
        /\ gone \intersect OwnerFrees[who] \subseteq {"client"}
    BY <1>1, <1>3 DEF OwnerOwns
  <2>2. held' \subseteq EngineDestroyed \union OfJack({"resampler", "aux"})
                            \union OwnerFrees[who]
    BY <1>2, <2>1 DEF OfJack
  <2>3. gone' \intersect OwnerFrees[who] = {}
    BY <1>1, <1>2, <1>3, <2>1 DEF Dangling
  <2> QED
    BY <1>1, <1>2, <2>1, <2>2, <2>3 DEF OwnerOwns, OfJack
<1> QED
  BY <1>1, <1>2, <1>3, <1>5, <1>6
  DEF LifeInv, EngineOwns, FailedOwns, Dangling, FreedOnce, NothingLeft

LEMMA OwnerEndsLife ==
  ASSUME LifeInv, OwnerEnds
  PROVE  LifeInv'
<1> DEFINE S == EngineDestroyed
                  \union (IF step = 1 THEN {} ELSE OwnerFrees[who])
                  \union IF who = "jack" THEN {"aux", "resampler"} ELSE {}
<1>1. /\ lpc = "owner" /\ lpc' = "end" /\ Free(S)
      /\ UNCHANGED <<who, step, failed, served>>
  BY DEF OwnerEnds
<1>2. OwnerOwns /\ Dangling /\ LifecycleTypeOK /\ ~twice
  BY DEF LifeInv, FreedOnce
<1>3. S \intersect gone = {}
  BY <1>1, <1>2 DEF OwnerOwns, LifecycleTypeOK
<1>4. held' = {} /\ failed = 0
  BY <1>1, <1>2 DEF Free, OwnerOwns, OfJack
<1>5. gone' \intersect {"interface_in", "interface_out"} = {}
  BY <1>1, <1>2 DEF Free, Dangling
<1>6. twice' = FALSE
  BY <1>1, <1>2, <1>3, Zenon DEF Free, LifecycleTypeOK
<1>7. held' \subseteq Resources /\ gone' \subseteq Resources /\ held' \intersect gone' = {}
  BY <1>1, <1>2 DEF Free, LifecycleTypeOK
<1>8. LifecycleTypeOK'
  BY <1>1, <1>2, <1>6, <1>7, Zenon DEF LifecycleTypeOK
<1> QED
  BY <1>1, <1>4, <1>5, <1>6, <1>8
  DEF LifeInv, EngineOwns, OwnerOwns, FailedOwns, Dangling, FreedOnce, NothingLeft,
      OpenStep, MemStep

LEMMA NextSessionLife ==
  ASSUME LifeInv, NextSession
  PROVE  LifeInv'
<1>1. /\ lpc = "end" /\ lpc' = "engine" /\ who = "jack" /\ step' = 1 /\ failed' = 0
      /\ held' = Begun /\ gone' = gone \ Begun
      /\ served < MaxSessions /\ served' = served + 1
      /\ UNCHANGED <<who, twice>>
  BY DEF NextSession
<1>2. Dangling /\ LifecycleTypeOK /\ ~twice /\ Begun' = Begun
  BY <1>1 DEF LifeInv, FreedOnce, Begun
<1>3. LifecycleTypeOK'
  <2>1. held' \subseteq Resources /\ gone' \subseteq Resources /\ held' \intersect gone' = {}
    BY <1>1, <1>2, BegunResources DEF LifecycleTypeOK, Resources, EngineDestroyed
  <2>2. step' \in 1..MemStep /\ failed' \in 0..MemStep /\ served' \in 1..MaxSessions
    BY <1>1, <1>2, LifecycleAssumption DEF LifecycleTypeOK, MemStep
  <2> QED
    BY <1>1, <1>2, <2>1, <2>2, Zenon DEF LifecycleTypeOK
<1>4. gone' \intersect {"engine", "device", "resampler"} = {}
  BY <1>1, BegunResources
<1> QED
  BY <1>1, <1>2, <1>3, <1>4
  DEF LifeInv, EngineOwns, OwnerOwns, FailedOwns, Dangling, FreedOnce, NothingLeft

LEMMA StepLifeInv == LifeInv /\ [LifecycleNext]_lvars => LifeInv'
<1> SUFFICES ASSUME LifeInv, [LifecycleNext]_lvars PROVE LifeInv'
  OBVIOUS
<1>1. CASE UNCHANGED lvars
  BY <1>1
  DEF LifeInv, LifecycleTypeOK, EngineOwns, OwnerOwns, FailedOwns, Dangling, FreedOnce,
      NothingLeft, Begun, OfJack, lvars
<1> QED
  BY <1>1, EngineStepLife, EngineReadyLife, EngineFailsLife, GiveUpLife, OwnerStepLife,
     OwnerEndsLife, NextSessionLife
  DEF LifecycleNext

LEMMA LifeInvariance == LifecycleSpec => []LifeInv
<1>1. LifecycleInit => LifeInv
  BY InitLifeInv DEF LifecycleInit
<1> QED
  BY <1>1, StepLifeInv, PTL DEF LifecycleSpec

(* Whatever step fails, in whichever of any number of sessions, nothing is *)
(* freed twice (engine.c:629-638, jclient.c:322).                          *)
THEOREM NothingIsFreedTwice == LifecycleSpec => []FreedOnce
<1>1. LifeInv => FreedOnce
  BY DEF LifeInv
<1> QED
  BY <1>1, LifeInvariance, PTL

(* And nothing is left at the end but what NothingLeft names               *)
(* (engine.c:549-550, 611-612, 698).                                       *)
THEOREM OnlyKnownLeaks == LifecycleSpec => []NothingLeft
<1>1. LifeInv => NothingLeft
  BY DEF LifeInv
<1> QED
  BY <1>1, LifeInvariance, PTL

-----------------------------------------------------------------------------
(***************************************************************************)
(* Device discovery.                                                       *)
(***************************************************************************)
Sources  == (Places \union {"none"}) \X Nat
Slots    == [head : Sources, inputs : Sources, outputs : Sources]
Listings == [dev : Nat, desc : Slots]

DiscoveryTypes ==
  /\ DiscoveryTypeOK
  /\ places["shipped"] = Shipped
  /\ slot \in Slots
  /\ listed \in Seq(Listings)

(* A search that succeeds has filled the slot from one place, whatever it  *)
(* read before.                                                            *)
GoodSlot ==
  err = OW_OK =>
    \E k \in 1..Len(Here) :
      /\ slot = [head |-> <<at, k>>, inputs |-> <<at, k>>, outputs |-> <<at, k>>]
      /\ Here[k] = [pid |-> bus[dev], kind |-> "good"]

ListedBefore == \A i \in 1..Len(listed) : listed[i].dev \in 1..dev - 1

(* The search of the distributed array: no element before the last one was *)
(* one of the device, and the last one was if it gave anything but ENODEV. *)
LastResort ==
  Searching /\ at = "shipped" =>
    /\ entry <= Len(Shipped) + 1
    /\ err = ENODEV => \A j \in 1..entry - 1 : Shipped[j].pid # bus[dev]
    /\ err # ENODEV =>
         /\ entry > 1
         /\ Shipped[entry - 1].pid = bus[dev]
         /\ \A j \in 1..entry - 2 : Shipped[j].pid # bus[dev]
         /\ Shipped[entry - 1].kind = "good" => err = OW_OK

DiscoveryInv ==
  /\ DiscoveryTypes
  /\ GoodSlot /\ ListedBefore /\ LastResort
  /\ DescriptionWhole /\ ShippedIsFallback

LEMMA BoundedIsSeq ==
  ASSUME NEW S, NEW n \in Nat, NEW s \in BoundedSeq(S, n)
  PROVE  s \in Seq(S)
<1>1. PICK m \in 0..n : s \in [1..m -> S]
  BY DEF BoundedSeq, SeqOf
<1> QED
  BY <1>1

(* The first element that tells a product id, or none (FirstOf).           *)
LEMMA FirstIs ==
  ASSUME NEW s \in Seq(Entries), NEW p, NEW k \in 1..Len(s), s[k].pid = p,
         \A j \in 1..k - 1 : s[j].pid # p
  PROVE  FirstOf(s, p) = k
<1> DEFINE I == {i \in 1..Len(s) : s[i].pid = p}
<1>1. k \in I /\ \A y \in I : k <= y
  OBVIOUS
<1>2. \A x \in I : (\A y \in I : x <= y) => x = k
  BY <1>1
<1>3. Min(I) = k
  BY <1>1, <1>2 DEF Min
<1>4. FirstOf(s, p) = IF I # {} THEN Min(I) ELSE 0
  BY DEF FirstOf, SelectInSeq
<1> QED
  BY <1>1, <1>3, <1>4

LEMMA NoneIsFirst ==
  ASSUME NEW s \in Seq(Entries), NEW p, \A j \in 1..Len(s) : s[j].pid # p
  PROVE  FirstOf(s, p) = 0
BY DEF FirstOf, SelectInSeq

LEMMA InitDiscoveryInv == DiscoveryInit => DiscoveryInv
<1> SUFFICES ASSUME DiscoveryInit PROVE DiscoveryInv
  OBVIOUS
<1>0. MaxPlugged \in Nat /\ MaxEntries \in Nat /\ Shipped \in Seq(Entries)
  BY DiscoveryAssumption
<1>1. bus \in Seq(Pids)
  BY <1>0, BoundedIsSeq DEF DiscoveryInit
<1>2. \A s \in BoundedEntries : s \in Seq(Entries)
  BY <1>0, BoundedIsSeq DEF BoundedEntries
<1>3. places \in [Places -> Seq(Entries)] /\ places["shipped"] = Shipped
  BY <1>0, <1>2 DEF DiscoveryInit, Places
<1>4. slot \in Slots /\ DOMAIN slot = {"head", "inputs", "outputs"}
  BY DEF DiscoveryInit, Slots, Sources, Nowhere
<1>5. listed = <<>> /\ listed \in Seq(Listings) /\ Len(listed) = 0
  BY DEF DiscoveryInit
<1>6. DiscoveryTypes
  BY <1>1, <1>3, <1>4, <1>5
  DEF DiscoveryInit, DiscoveryTypes, DiscoveryTypeOK, Places, ENODEV
<1> QED
  BY <1>5, <1>6
  DEF DiscoveryInit, DiscoveryInv, GoodSlot, ListedBefore, LastResort,
      DescriptionWhole, ShippedIsFallback, ENODEV, OW_OK

(* What one description makes of the slot and of the result, when it is    *)
(* the one at entry.                                                       *)
LEMMA ReadEntryIs ==
  ASSUME DiscoveryTypes, ReadEntry, entry <= Len(Here)
  PROVE  /\ Here \in Seq(Entries)
         /\ slot' \in Slots
         /\ DOMAIN slot' = {"head", "inputs", "outputs"}
         /\ err' \in {OW_OK, ENODEV, EINVAL}
         /\ err' = ENODEV <=> Here[entry].pid # bus[dev]
         /\ Here[entry].pid = bus[dev] /\ Here[entry].kind = "good" => err' = OW_OK
         /\ err' = OW_OK =>
              /\ slot' = [head    |-> <<at, entry>>, inputs |-> <<at, entry>>,
                          outputs |-> <<at, entry>>]
              /\ Here[entry] = [pid |-> bus[dev], kind |-> "good"]
<1>1. /\ at \in Places /\ entry \in Nat \ {0} /\ slot \in Slots
      /\ Here \in Seq(Entries)
  BY DEF DiscoveryTypes, DiscoveryTypeOK, Here
<1>2. Here[entry] \in Entries
  BY <1>1, ElementOfSeq
<1>3. <<at, entry>> \in Sources /\ Nowhere \in Sources
  BY <1>1 DEF Sources, Nowhere
<1>4. /\ err' \in {OW_OK, ENODEV, EINVAL}
      /\ err' = ENODEV <=> Here[entry].pid # bus[dev]
      /\ Here[entry].pid = bus[dev] /\ Here[entry].kind = "good" => err' = OW_OK
      /\ err' = OW_OK =>
           /\ slot' = [head    |-> <<at, entry>>, inputs |-> <<at, entry>>,
                       outputs |-> <<at, entry>>]
           /\ Here[entry].pid = bus[dev] /\ Here[entry].kind = "good"
  BY DEF ReadEntry, OW_OK, ENODEV, EINVAL
<1>5. slot' \in Slots
  <2> DEFINE from   == <<at, entry>>
             tracks == [slot EXCEPT !.inputs = Nowhere, !.outputs = Nowhere]
  <2>1. tracks \in Slots
    BY <1>1, <1>3 DEF Slots
  <2>2. /\ [head |-> from, inputs |-> from, outputs |-> from] \in Slots
        /\ [tracks EXCEPT !.head = from] \in Slots
        /\ [tracks EXCEPT !.head = from, !.inputs = from] \in Slots
    <3> HIDE DEF tracks
    <3> QED
      BY <1>3, <2>1 DEF Slots
  <2>3. slot' \in {tracks, [tracks EXCEPT !.head = from],
                  [tracks EXCEPT !.head = from, !.inputs = from],
                  [head |-> from, inputs |-> from, outputs |-> from]}
    BY Zenon DEF ReadEntry
  <2> QED
    BY <2>1, <2>2, <2>3, Zenon
<1>6. DOMAIN slot' = {"head", "inputs", "outputs"}
  BY <1>5 DEF Slots
<1>7. Here[entry].pid = bus[dev] /\ Here[entry].kind = "good" =>
        Here[entry] = [pid |-> bus[dev], kind |-> "good"]
  BY <1>2 DEF Entries
<1> QED
  BY <1>1, <1>4, <1>5, <1>6, <1>7

LEMMA ReadKeepsDiscovery ==
  ASSUME DiscoveryInv, ReadFile \/ ReadElement
  PROVE  DiscoveryInv'
<1>1. /\ Searching /\ entry <= Len(Here) /\ ReadEntry /\ entry' = entry + 1
      /\ at # "dir" => err = ENODEV
      /\ UNCHANGED <<places, bus, dev, at, listed>>
  BY DEF ReadFile, ReadElement
<1>2. DiscoveryTypes /\ GoodSlot /\ ListedBefore /\ LastResort
  BY DEF DiscoveryInv
<1>3. /\ entry \in Nat \ {0} /\ at \in Places /\ dev \in 1..Len(bus) + 1
      /\ Here \in Seq(Entries) /\ Len(Here) \in Nat /\ Here' = Here
  BY <1>1, <1>2 DEF DiscoveryTypes, DiscoveryTypeOK, Here
<1>4. DiscoveryTypes'
  BY <1>1, <1>2, <1>3, ReadEntryIs DEF DiscoveryTypes, DiscoveryTypeOK
<1>5. GoodSlot'
  <2>1. entry \in 1..Len(Here)
    BY <1>1, <1>3
  <2> QED
    BY <1>1, <1>2, <1>3, <2>1, ReadEntryIs DEF GoodSlot
<1>6. LastResort'
  <2> SUFFICES ASSUME at = "shipped" PROVE LastResort'
    BY <1>1 DEF LastResort
  <2>1. Here = Shipped
    BY <1>2 DEF DiscoveryTypes, Here
  <2>2. \A j \in 1..entry - 1 : Shipped[j].pid # bus[dev]
    BY <1>1, <1>2 DEF LastResort
  <2>3. /\ entry' <= Len(Shipped) + 1 /\ entry' > 1
        /\ entry' - 1 = entry /\ entry' - 2 = entry - 1
    BY <1>1, <1>3, <2>1
  <2>4. ASSUME err' = ENODEV, NEW j \in 1..entry
        PROVE  Shipped[j].pid # bus[dev]
    BY <1>1, <1>2, <1>3, <2>1, <2>2, <2>4, ReadEntryIs
  <2>5. err' # ENODEV =>
          /\ Shipped[entry].pid = bus[dev]
          /\ Shipped[entry].kind = "good" => err' = OW_OK
    BY <1>1, <1>2, <2>1, ReadEntryIs
  <2> QED
    BY <1>1, <2>2, <2>3, <2>4, <2>5 DEF LastResort
<1>7. ListedBefore' /\ DescriptionWhole' /\ ShippedIsFallback'
  BY <1>1 DEF DiscoveryInv, ListedBefore, DescriptionWhole, ShippedIsFallback
<1> QED
  BY <1>4, <1>5, <1>6, <1>7 DEF DiscoveryInv

LEMMA NextPlaceKeepsDiscovery ==
  ASSUME DiscoveryInv, NextPlace
  PROVE  DiscoveryInv'
<1>1. /\ at' \in {"user", "shipped"} /\ entry' = 1 /\ err' = ENODEV
      /\ slot' = [slot EXCEPT !.inputs = Nowhere, !.outputs = Nowhere]
      /\ UNCHANGED <<places, bus, dev, listed>>
  BY DEF NextPlace
<1>2. slot' \in Slots /\ DOMAIN slot' = {"head", "inputs", "outputs"}
  BY <1>1 DEF DiscoveryInv, DiscoveryTypes, Slots, Sources, Nowhere
<1>3. DiscoveryTypes'
  BY <1>1, <1>2 DEF DiscoveryInv, DiscoveryTypes, DiscoveryTypeOK, Places
<1>4. GoodSlot' /\ LastResort'
  <2>1. Shipped \in Seq(Entries)
    BY DiscoveryAssumption
  <2> QED
    BY <1>1, <2>1 DEF GoodSlot, LastResort, OW_OK, ENODEV
<1>5. ListedBefore' /\ DescriptionWhole' /\ ShippedIsFallback'
  BY <1>1 DEF DiscoveryInv, ListedBefore, DescriptionWhole, ShippedIsFallback
<1> QED
  BY <1>3, <1>4, <1>5 DEF DiscoveryInv

LEMMA FoundKeepsDiscovery ==
  ASSUME DiscoveryInv, Found
  PROVE  DiscoveryInv'
<1> DEFINE d == [dev |-> dev, desc |-> slot]
<1>1. /\ Searching /\ err = OW_OK
      /\ dev' = dev + 1 /\ at' = "dir" /\ entry' = 1 /\ err' = ENODEV
      /\ listed' = Append(listed, d)
      /\ slot' = [head |-> Nowhere, inputs |-> Nowhere, outputs |-> Nowhere]
      /\ UNCHANGED <<places, bus>>
  BY DEF Found, NextDevice
<1>2. /\ DiscoveryTypes /\ GoodSlot /\ ListedBefore
      /\ DescriptionWhole /\ ShippedIsFallback
      /\ bus \in Seq(Pids) /\ Len(bus) \in Nat /\ dev \in 1..Len(bus)
  BY <1>1 DEF DiscoveryInv, DiscoveryTypes, DiscoveryTypeOK, Searching
<1>3. d \in Listings /\ listed \in Seq(Listings) /\ Len(listed) \in Nat
  BY <1>2 DEF DiscoveryTypes, Listings
<1>4. /\ listed' \in Seq(Listings) /\ Len(listed') = Len(listed) + 1
      /\ \A i \in 1..Len(listed) : listed'[i] = listed[i]
      /\ listed'[Len(listed) + 1] = d
  BY <1>1, <1>3, AppendProperties
<1> HIDE DEF d
<1>5. slot' \in Slots /\ DOMAIN slot' = {"head", "inputs", "outputs"}
  BY <1>1 DEF Slots, Sources, Nowhere
<1>6. DiscoveryTypes'
  BY <1>1, <1>2, <1>4, <1>5 DEF DiscoveryTypes, DiscoveryTypeOK, Places
<1>7. GoodSlot' /\ LastResort'
  BY <1>1 DEF GoodSlot, LastResort, OW_OK, ENODEV
<1>8. d.dev = dev /\ d.desc = slot
  BY DEF d
<1>9. ListedBefore'
  <2> SUFFICES ASSUME NEW i \in 1..Len(listed) + 1
               PROVE  listed'[i].dev \in 1..dev
    BY <1>1, <1>2, <1>4 DEF ListedBefore
  <2>1. CASE i \in 1..Len(listed)
    BY <1>2, <1>4, <2>1 DEF ListedBefore
  <2>2. CASE i = Len(listed) + 1
    BY <1>2, <1>4, <1>8, <2>2
  <2> QED
    BY <1>3, <2>1, <2>2
<1>10. DescriptionWhole'
  <2>1. PICK k \in 1..Len(Here) :
          /\ slot = [head |-> <<at, k>>, inputs |-> <<at, k>>, outputs |-> <<at, k>>]
          /\ Here[k] = [pid |-> bus[dev], kind |-> "good"]
    BY <1>1, <1>2 DEF GoodSlot
  <2>2. /\ slot.head = slot.inputs /\ slot.head = slot.outputs
        /\ places[slot.head[1]][slot.head[2]] = [pid |-> bus[dev], kind |-> "good"]
    BY <2>1 DEF Here
  <2> SUFFICES ASSUME NEW i \in 1..Len(listed) + 1
               PROVE  /\ listed'[i].desc.head = listed'[i].desc.inputs
                      /\ listed'[i].desc.head = listed'[i].desc.outputs
                      /\ places[listed'[i].desc.head[1]][listed'[i].desc.head[2]]
                           = [pid |-> bus[listed'[i].dev], kind |-> "good"]
    BY <1>1, <1>4 DEF DescriptionWhole
  <2>3. CASE i \in 1..Len(listed)
    BY <1>2, <1>4, <2>3 DEF DescriptionWhole
  <2>4. CASE i = Len(listed) + 1
    BY <1>4, <1>8, <2>2, <2>4
  <2> QED
    BY <1>3, <2>3, <2>4
<1>11. ShippedIsFallback'
  <2> SUFFICES ASSUME NEW e \in 1..dev,
                      FirstOf(Shipped, bus[e]) # 0,
                      Shipped[FirstOf(Shipped, bus[e])].kind = "good"
               PROVE  \E i \in 1..Len(listed') : listed'[i].dev = e
    BY <1>1, <1>2 DEF ShippedIsFallback
  <2>1. CASE e = dev
    <3>1. Len(listed) + 1 \in 1..Len(listed')
      BY <1>3, <1>4
    <3> QED
      BY <1>4, <1>8, <2>1, <3>1
  <2>2. CASE e # dev
    <3>1. PICK i \in 1..Len(listed) : listed[i].dev = e
      BY <1>2, <2>2 DEF ShippedIsFallback
    <3>2. i \in 1..Len(listed')
      BY <1>3, <1>4
    <3> QED
      BY <1>4, <3>1, <3>2
  <2> QED
    BY <2>1, <2>2
<1> QED
  BY <1>6, <1>7, <1>9, <1>10, <1>11 DEF DiscoveryInv

(* The search has failed in the distributed array, too: there is nothing   *)
(* there for the device, or what is there first is broken.                 *)
LEMMA NotFoundKeepsDiscovery ==
  ASSUME DiscoveryInv, NotFound
  PROVE  DiscoveryInv'
<1>1. /\ Searching /\ at = "shipped" /\ err # OW_OK
      /\ entry > Len(Here) \/ err # ENODEV
      /\ dev' = dev + 1 /\ at' = "dir" /\ entry' = 1 /\ err' = ENODEV
      /\ UNCHANGED <<places, bus, listed, slot>>
  BY DEF NotFound, NextDevice, PlaceRead
<1>2. /\ DiscoveryTypes /\ ListedBefore /\ LastResort /\ ShippedIsFallback
      /\ bus \in Seq(Pids) /\ Len(bus) \in Nat /\ dev \in 1..Len(bus)
      /\ entry \in Nat \ {0}
  BY <1>1 DEF DiscoveryInv, DiscoveryTypes, DiscoveryTypeOK, Searching
<1>3. Shipped \in Seq(Entries) /\ Len(Shipped) \in Nat /\ Here = Shipped
  BY <1>1, <1>2, DiscoveryAssumption DEF DiscoveryTypes, Here
<1>4. DiscoveryTypes'
  BY <1>1, <1>2 DEF DiscoveryTypes, DiscoveryTypeOK, Places
<1>5. GoodSlot' /\ LastResort'
  BY <1>1 DEF GoodSlot, LastResort, OW_OK, ENODEV
<1>6. ListedBefore' /\ DescriptionWhole'
  BY <1>1, <1>2 DEF DiscoveryInv, ListedBefore, DescriptionWhole
<1>7. FirstOf(Shipped, bus[dev]) # 0 =>
        Shipped[FirstOf(Shipped, bus[dev])].kind # "good"
  <2>1. CASE err = ENODEV
    <3>1. \A j \in 1..Len(Shipped) : Shipped[j].pid # bus[dev]
      BY <1>1, <1>2, <1>3, <2>1 DEF LastResort
    <3> QED
      BY <1>3, <3>1, NoneIsFirst
  <2>2. CASE err # ENODEV
    <3>1. /\ entry - 1 \in 1..Len(Shipped)
          /\ Shipped[entry - 1].pid = bus[dev]
          /\ \A j \in 1..entry - 2 : Shipped[j].pid # bus[dev]
          /\ Shipped[entry - 1].kind # "good"
      <4>1. /\ entry =< Len(Shipped) + 1 /\ entry > 1
            /\ Shipped[entry - 1].pid = bus[dev]
            /\ \A j \in 1..entry - 2 : Shipped[j].pid # bus[dev]
            /\ Shipped[entry - 1].kind = "good" => err = OW_OK
        BY <1>1, <1>2, <2>2 DEF LastResort
      <4>2. entry - 1 \in 1..Len(Shipped)
        BY <1>2, <1>3, <4>1
      <4> QED
        BY <1>1, <4>1, <4>2
    <3>2. entry - 1 - 1 = entry - 2
      BY <1>2
    <3>3. FirstOf(Shipped, bus[dev]) = entry - 1
      BY <1>3, <3>1, <3>2, FirstIs
    <3> QED
      BY <3>1, <3>3
  <2> QED
    BY <2>1, <2>2
<1>8. ShippedIsFallback'
  BY <1>1, <1>2, <1>7 DEF ShippedIsFallback
<1> QED
  BY <1>4, <1>5, <1>6, <1>8 DEF DiscoveryInv

LEMMA StepDiscoveryInv == DiscoveryInv /\ [DiscoveryNext]_dvars => DiscoveryInv'
<1> SUFFICES ASSUME DiscoveryInv, [DiscoveryNext]_dvars PROVE DiscoveryInv'
  OBVIOUS
<1>1. CASE UNCHANGED dvars
  BY <1>1
  DEF dvars, DiscoveryInv, DiscoveryTypes, DiscoveryTypeOK, GoodSlot, ListedBefore,
      LastResort, DescriptionWhole, ShippedIsFallback, Here, Searching
<1> QED
  BY <1>1, ReadKeepsDiscovery, NextPlaceKeepsDiscovery, FoundKeepsDiscovery,
     NotFoundKeepsDiscovery
  DEF DiscoveryNext

LEMMA DiscoveryInvariance == DiscoverySpec => []DiscoveryInv
BY InitDiscoveryInv, StepDiscoveryInv, PTL DEF DiscoverySpec

(* Any number of devices, with any files: what is listed was told by one   *)
(* good description of that device (overwitch.c:77-90, 144-145).           *)
THEOREM DescriptionsAreWhole == DiscoverySpec => []DescriptionWhole
<1>1. DiscoveryInv => DescriptionWhole
  BY DEF DiscoveryInv
<1> QED
  BY <1>1, DiscoveryInvariance, PTL

(* Whatever is in the user's files, a device that is described well in the *)
(* distributed array is listed, for any such array (overwitch.c:417-429).  *)
THEOREM ShippedAreListed == DiscoverySpec => []ShippedIsFallback
<1>1. DiscoveryInv => ShippedIsFallback
  BY DEF DiscoveryInv
<1> QED
  BY <1>1, DiscoveryInvariance, PTL

-----------------------------------------------------------------------------
(***************************************************************************)
(* All of them, as the run programs has them.                              *)
(***************************************************************************)
(* overwitch-cli -r is one more client of the engine; the recorder beside  *)
(* it has not begun.                                                       *)
LEMMA RenameSteps == RenameNext => [Next]_vars
BY DEF RenameNext, RenameMain, RenameStart, RenamePoll, RenameSubmit, RenameStop,
       RenameWait, RenameJoin, NameSent, Unnamed, Next, Caller, Owner, Client, Stop,
       rnvars, vars, thread

(* What is proved of the engine under any client holds of a rename.        *)
THEOREM RenameIsClient == RenameSpec => Spec
<1>1. RenameInit => Init
  BY DEF RenameInit, RenameAt
<1>2. [RenameNext]_rnvars => [Next]_vars
  BY RenameSteps DEF rnvars, vars
<1> QED
  BY <1>1, <1>2, PTL DEF RenameSpec, Spec

LEMMA RenameKeepsTypes ==
  ASSUME rnpc \in RenamePcs, ctl \in {"none", "inflight", "refused", "done"},
         RenameNext
  PROVE  rnpc' \in RenamePcs /\ ctl' \in {"none", "inflight", "refused", "done"}
BY DEF RenameNext, RenameMain, RenameStart, RenamePoll, RenameSubmit, RenameStop,
       RenameWait, RenameJoin, NameSent, Unnamed, RenameStep, RenamePcs, rnvars

(* No step of a rename takes the caller of ow_engine_start back to where   *)
(* the recorder has no buffers yet.                                        *)
LEMMA RenameGoesOn ==
  ASSUME RenameNext, spc' \in {"init", "poll", "up"}
  PROVE  spc \in {"init", "poll", "up"}
<1>1. CASE spc' = spc
  BY <1>1
<1>2. CASE spc' # spc
  BY <1>2
  DEF RenameNext, RenameMain, RenameStart, RenamePoll, RenameSubmit, RenameStop,
      RenameWait, RenameJoin, NameSent, Unnamed, StartEngine, StartFails, PollStarted,
      WaitEngine, JoinEngine, EngineThread, Control, BootIn, BootOut, FirstSubmit, SetReady,
      AwaitSteady, ToBoot, Reset, Enter, CheckLoop, ExitCheck, EventsReturn, DrainReturn,
      CbInData, CbOutData, GiveBack, Callback, CbCheck, CbSubmit, EngineStep,
      CallbackStep, rnvars, vars
<1> QED
  BY <1>1, <1>2

(* The engine belongs to the recorder or to the rename: the rest of the    *)
(* programs do not touch it.                                               *)
ProgramsInv ==
  /\ prog \in Programs
  /\ IInv /\ RecInv
  /\ prog = "record" => EngineInv
  /\ rnpc \in RenamePcs
  /\ ctl \in {"none", "inflight", "refused", "done"}
  /\ LifeInv /\ CliInv /\ GuiInv /\ DiscoveryInv /\ QueueInv

LEMMA InitProgramsInv == ProgramsInit => ProgramsInv
<1> SUFFICES ASSUME ProgramsInit PROVE ProgramsInv
  OBVIOUS
<1>1. prog \in Programs /\ RecorderInit /\ QueueInit /\ DiscoveryInit
  BY DEF ProgramsInit
<1>2. IInv /\ RecInv /\ EngineInv /\ QueueInv /\ DiscoveryInv
  BY <1>1, InitRecInv, InitEngineInv, InitQueueInv, InitDiscoveryInv DEF EngineInv
<1>3. LifeInv
  BY InitLifeInv DEF ProgramsInit, At
<1>4. CliInv
  BY InitCliInv DEF ProgramsInit, At
<1>5. GuiInv
  BY InitGuiInv DEF ProgramsInit, At
<1>6. rnpc \in RenamePcs /\ ctl \in {"none", "inflight", "refused", "done"}
  BY DEF ProgramsInit, At, RenameAt, RenamePcs
<1> QED
  BY <1>1, <1>2, <1>3, <1>4, <1>5, <1>6 DEF ProgramsInv

(* What belongs to a component that does not move is as it was.            *)
LEMMA OthersRest ==
  ASSUME ProgramsInv
  PROVE  /\ UNCHANGED allvars => IInv' /\ RecInv'
         /\ UNCHANGED lvars => LifeInv'
         /\ UNCHANGED clivars => CliInv'
         /\ UNCHANGED gvars => GuiInv'
         /\ UNCHANGED dvars => DiscoveryInv'
         /\ UNCHANGED qvars => QueueInv'
<1>1. UNCHANGED allvars => IInv'
  BY StepIInv DEF ProgramsInv, allvars
<1>2. UNCHANGED allvars => RecInv'
  BY StepRecInv DEF ProgramsInv
<1> QED
  BY <1>1, <1>2, StepLifeInv, StepCliInv, StepGuiInv, StepDiscoveryInv, StepQueueInv
  DEF ProgramsInv

LEMMA StepProgramsInv == ProgramsInv /\ [ProgramsNext]_progvars => ProgramsInv'
<1> SUFFICES ASSUME ProgramsInv, [ProgramsNext]_progvars PROVE ProgramsInv'
  OBVIOUS
<1>1. CASE /\ prog = "record" /\ RecorderNext
           /\ UNCHANGED <<prog, renamevars, lvars, clivars, gvars, dvars, qvars>>
  <2>1. EngineInv' /\ RecInv'
    BY <1>1, StepEngineInv, StepRecInv DEF ProgramsInv
  <2> QED
    BY <1>1, <2>1, OthersRest DEF ProgramsInv, EngineInv, renamevars
<1>2. CASE /\ prog = "rename" /\ RenameNext
           /\ UNCHANGED <<prog, rvars, lvars, clivars, gvars, dvars, qvars>>
  <2>1. IInv'
    BY <1>2, RenameSteps, StepIInv DEF ProgramsInv
  <2>2. RecInv'
    BY <1>2, RenameGoesOn, QuietRecInv DEF ProgramsInv
  <2>3. rnpc' \in RenamePcs /\ ctl' \in {"none", "inflight", "refused", "done"}
    BY <1>2, RenameKeepsTypes DEF ProgramsInv
  <2> QED
    BY <1>2, <2>1, <2>2, <2>3, OthersRest DEF ProgramsInv
<1>3. CASE /\ UNCHANGED <<prog, allvars, renamevars>>
           /\ \/ /\ LifecycleNext
                 /\ UNCHANGED <<clivars, gvars, dvars, qvars>>
              \/ /\ CliNext
                 /\ UNCHANGED <<lvars, gvars, dvars, qvars>>
              \/ /\ GuiNext
                 /\ UNCHANGED <<lvars, clivars, dvars, qvars>>
              \/ /\ DiscoveryNext
                 /\ UNCHANGED <<lvars, clivars, gvars, qvars>>
              \/ /\ QueueNext
                 /\ UNCHANGED <<lvars, clivars, gvars, dvars>>
              \/ UNCHANGED <<lvars, clivars, gvars, dvars, qvars>>
  <2>1. IInv' /\ RecInv'
    BY <1>3, OthersRest
  <2>2. prog = "record" => EngineInv'
    BY <1>3, StepEngineInv DEF ProgramsInv
  <2>3. LifeInv' /\ CliInv' /\ GuiInv' /\ DiscoveryInv' /\ QueueInv'
    BY <1>3, OthersRest, StepLifeInv, StepCliInv, StepGuiInv, StepDiscoveryInv,
       StepQueueInv
    DEF ProgramsInv
  <2> QED
    BY <1>3, <2>1, <2>2, <2>3 DEF ProgramsInv, renamevars
<1> QED
  BY <1>1, <1>2, <1>3 DEF ProgramsNext, progvars

(* Every variable of the components that the run programs checks has its   *)
(* type, for all values of their constants at once.                        *)
THEOREM ProgramsTypes == ProgramsSpec => []ProgramsTypeOK
<1>1. ASSUME ProgramsInv PROVE ProgramsTypeOK
  <2>1. TypeOK
    BY <1>1 DEF ProgramsInv, IInv
  <2>2. RecorderTypeOK
    BY <1>1, <2>1, RecInvTypes DEF ProgramsInv
  <2> QED
    BY <1>1, <2>1, <2>2
    DEF ProgramsInv, ProgramsTypeOK, RenameTypeOK, LifeInv, CliInv, GuiInv, DiscoveryInv,
        DiscoveryTypes, QueueInv
<1> QED
  BY <1>1, InitProgramsInv, StepProgramsInv, PTL DEF ProgramsSpec
=============================================================================
