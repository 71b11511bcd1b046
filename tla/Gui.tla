-------------------------------- MODULE Gui ---------------------------------
(***************************************************************************)
(* overwitch, the graphical client (src/src/main.c, src/src/preferences.c) *)
(* and what it sees of the service over D-Bus.  The window polls GetState  *)
(* with a timer, which is taken away while a device name is edited and     *)
(* while new preferences are applied; its button acts on what the last     *)
(* poll said.  The preferences file is written by the window and read by   *)
(* both programs.                                                          *)
(*                                                                         *)
(* The service is module Service reduced to the number of its clients and  *)
(* the preferences it has read.  A call to a service that is not there     *)
(* starts it (D-Bus activation).  A call may fail; if it times out because *)
(* the service is slow or stuck, the method waits there and runs later, or *)
(* never.  Of GTK it is assumed that the dialog is modal and that a label  *)
(* whose focus goes elsewhere ends its edit.                               *)
(***************************************************************************)
EXTENDS Integers, Sequences

CONSTANTS
  Preferences,  \* what blocks, timeout, quality and PipeWire properties may be
  MaxDevices,   \* bound: devices plugged in at a time
  MaxLate       \* bound: calls that wait at the service

ASSUME GuiAssumption ==
  /\ MaxDevices \in Nat
  /\ MaxLate \in Nat
  /\ Preferences # {}

(* The calls that change the service. *)
Methods == {"Start", "Stop", "Exit", "SetDeviceName"}

VARIABLES
  gpc,        \* "startup", "up", "saving" within click_save_preferences,
              \* "exited", "crashed"
  connection, \* the session bus is there
  timers,     \* timeout sources that call refresh_state
  devices,    \* devices running at the last poll, -1 if it failed
  editing,    \* a device name is being edited
  dialog,     \* preferences_window is visible
  widgets,    \* what its widgets hold
  columns,    \* state of the action show_all_columns
  prefs_file, \* the file: the preferences but for show_all_columns
  cols_file,  \* the file: show_all_columns
  service,    \* overwitch-service runs
  clients,    \* clients of the service
  hotplug,    \* its hotplug thread runs
  loaded,     \* the preferences it has read
  late,       \* methods it has not run yet and whose caller has given up
  plugged,    \* devices on the bus
  applied     \* history: preferences were saved in this window

window  == <<gpc, connection, timers, devices, editing, dialog, widgets, columns>>
prefs   == <<prefs_file, cols_file>>
remote  == <<service, clients, hotplug, loaded, late>>
gvars   == <<window, prefs, remote, plugged, applied>>

(* The state of a window that is at pc and has done nothing yet. *)
GuiAt(pc) ==
  /\ gpc = pc
  /\ connection \in BOOLEAN
  /\ timers = 0
  /\ devices = -1
  /\ editing = FALSE
  /\ dialog = FALSE
  /\ prefs_file \in Preferences
  /\ widgets = prefs_file
  /\ cols_file \in BOOLEAN
  /\ columns = cols_file
  /\ service \in BOOLEAN
  /\ plugged \in 0..MaxDevices
  /\ hotplug = service
  /\ clients = IF service THEN plugged ELSE 0
  /\ loaded \in Preferences  \* a former window may have changed the file since
  /\ late = <<>>
  /\ applied = FALSE

GuiInit == GuiAt("startup")

-----------------------------------------------------------------------------
(***************************************************************************)
(* The service, as its callers see it.                                     *)
(***************************************************************************)
(* startup: it reads the preferences and starts what it can; the hotplug   *)
(* thread may be missing, too.                                             *)
ServiceStarts ==
  /\ service' = TRUE
  /\ loaded' = prefs_file
  /\ clients' \in 0..plugged
  /\ hotplug' \in BOOLEAN

(* app_exit of the service, or its end by somebody else: the calls that    *)
(* wait get an error.                                                      *)
ServiceEnds ==
  /\ service' = FALSE
  /\ clients' = 0
  /\ hotplug' = FALSE
  /\ late' = <<>>
  /\ UNCHANGED loaded

(* The error branch of a call (main.c:388-392, 359-364): the service ends  *)
(* while it has the call, it can not be activated, or the call times out   *)
(* and waits for a service that is busy.                                   *)
CallFails(method) ==
  \/ service /\ ServiceEnds
  \/ ~service /\ UNCHANGED remote
  \/ /\ Len(late) < MaxLate
     /\ late' = Append(late, method)
     /\ IF service THEN UNCHANGED <<service, clients, hotplug, loaded>>
                   ELSE ServiceStarts

(* What a method does to the service that runs it. *)
Stopping ==
  /\ service' = TRUE
  /\ clients' = 0
  /\ hotplug' = FALSE
  /\ loaded' = IF service THEN loaded ELSE prefs_file

ServiceRenames ==
  /\ clients' \in {clients, clients - IF clients > 0 THEN 1 ELSE 0}
  /\ UNCHANGED <<service, hotplug, loaded>>

(* g_dbus_connection_call_sync: effect is what the method does if it is    *)
(* answered.                                                               *)
Call(method, effect) ==
  IF connection
    THEN \/ late = <<>> /\ effect /\ UNCHANGED late
         \/ CallFails(method)
    ELSE UNCHANGED remote

(* Mutant: Start does not read the preferences again. *)
StartWithoutLoading ==
  Call("Start", /\ service' = TRUE
                /\ clients' \in 0..plugged
                /\ hotplug' \in BOOLEAN
                /\ UNCHANGED loaded)

(* control_service.  Start: stop, read the preferences, start.             *)
Start == Call("Start", ServiceStarts)

StopService == Call("Stop", Stopping)

ExitService == Call("Exit", ServiceEnds)

(* A service that was busy runs the first of the calls that wait. *)
ServiceCatchesUp ==
  /\ late # <<>>
  /\ \/ Head(late) = "Exit" /\ ServiceEnds
     \/ /\ late' = Tail(late)
        /\ \/ Head(late) = "Start" /\ ServiceStarts
           \/ Head(late) = "Stop" /\ Stopping
           \/ Head(late) = "SetDeviceName" /\ ServiceRenames
  /\ UNCHANGED <<window, prefs, plugged, applied>>

(* A device comes: the hotplug thread starts a client for it, if it can.   *)
PlugIn ==
  /\ plugged < MaxDevices
  /\ plugged' = plugged + 1
  /\ clients' \in {clients, clients + IF hotplug THEN 1 ELSE 0}
  /\ UNCHANGED <<window, prefs, service, hotplug, loaded, late, applied>>

(* A device goes, with its client if it has one. *)
PlugOut ==
  /\ plugged > 0
  /\ plugged' = plugged - 1
  /\ \/ clients > 0 /\ clients' = clients - 1
     \/ clients < plugged /\ UNCHANGED clients
  /\ UNCHANGED <<window, prefs, service, hotplug, loaded, late, applied>>

(* The service is told to end by somebody else. *)
ServiceDies ==
  /\ service
  /\ ServiceEnds
  /\ UNCHANGED <<window, prefs, plugged, applied>>

-----------------------------------------------------------------------------
(***************************************************************************)
(* The window.                                                             *)
(***************************************************************************)
AtMain == gpc = "up" /\ ~dialog /\ ~editing

(* g_source_remove: a source that is gone stays gone. *)
Without(n) == IF n > 0 THEN n - 1 ELSE 0

(* Mutant: the number of devices stays when the call fails. *)
KeepDevices == UNCHANGED devices

(* The error branch of refresh_state (main.c:310-315). *)
StateUnknown == devices' = -1

(* refresh_state: what GetState answers.  A service that is busy or has    *)
(* just been activated may not answer in time.  Without a bus the call     *)
(* returns nothing and sets no error, and the answer is read all the same. *)
Poll ==
  \/ /\ connection
     /\ service
     /\ \/ late = <<>> /\ devices' = clients
        \/ StateUnknown
     /\ gpc' = "up"
     /\ UNCHANGED remote
  \/ /\ connection
     /\ ~service
     /\ \/ ServiceStarts /\ UNCHANGED late /\ (devices' = clients' \/ StateUnknown)
        \/ UNCHANGED remote /\ StateUnknown
     /\ gpc' = "up"
  \/ /\ ~connection
     /\ gpc' = "crashed"
     /\ UNCHANGED <<devices, remote>>

(* app_startup: without a bus there is no timer and no first refresh. *)
Startup ==
  /\ gpc = "startup"
  /\ IF connection THEN Poll /\ timers' = 1
                   ELSE gpc' = "up" /\ UNCHANGED <<timers, devices, remote>>
  /\ UNCHANGED <<connection, editing, dialog, widgets, columns, prefs, plugged,
                 applied>>

RefreshState ==
  /\ gpc = "up"
  /\ timers > 0
  /\ Poll
  /\ UNCHANGED <<connection, timers, editing, dialog, widgets, columns, prefs,
                 plugged, applied>>

ClickStartStop ==
  /\ AtMain
  /\ devices >= 0
  /\ IF devices > 0 THEN StopService ELSE Start
  /\ UNCHANGED <<window, prefs, plugged, applied>>

ShowAllColumns ==
  /\ AtMain
  /\ columns' = ~columns
  /\ UNCHANGED <<gpc, connection, timers, devices, editing, dialog, widgets,
                 prefs,
                 remote, plugged, applied>>

(* load_preferences overwrites the state of show_all_columns, too. *)
OpenPreferences ==
  /\ AtMain
  /\ dialog' = TRUE
  /\ widgets' = prefs_file
  /\ columns' = cols_file
  /\ UNCHANGED <<gpc, connection, timers, devices, editing, prefs, remote,
                 plugged, applied>>

ChangeWidgets ==
  /\ dialog
  /\ gpc = "up"
  /\ widgets' \in Preferences \ {widgets}
  /\ UNCHANGED <<gpc, connection, timers, devices, editing, dialog, columns,
                 prefs,
                 remote, plugged, applied>>

(* The Cancel button: the window is hidden and its widgets stay changed. *)
ClosePreferences ==
  /\ dialog
  /\ gpc = "up"
  /\ dialog' = FALSE
  /\ UNCHANGED <<gpc, connection, timers, devices, editing, widgets, columns,
                 prefs,
                 remote, plugged, applied>>

(* ow_save_preferences: if it fails nobody is told. *)
SavePreferences ==
  \/ prefs_file' = widgets /\ cols_file' = columns
  \/ UNCHANGED prefs

ClickSavePreferences ==
  /\ dialog
  /\ gpc = "up"
  /\ gpc' = "saving"
  /\ dialog' = FALSE
  /\ SavePreferences
  /\ timers' = Without(timers)
  /\ UNCHANGED <<connection, devices, editing, widgets, columns, remote,
                 plugged, applied>>

Saved ==
  /\ gpc = "saving"
  /\ gpc' = "up"
  /\ Start
  /\ timers' = timers + 1
  /\ applied' = TRUE
  /\ UNCHANGED <<connection, devices, editing, dialog, widgets, columns, prefs,
                 plugged>>

BeginEdit ==
  /\ AtMain
  /\ devices > 0
  /\ editing' = TRUE
  /\ timers' = Without(timers)
  /\ UNCHANGED <<gpc, connection, devices, dialog, widgets, columns, prefs,
                 remote,
                 plugged, applied>>

(* Mutant: the timer comes back only if the name has changed. *)
EndEditForgetting ==
  /\ gpc = "up"
  /\ editing
  /\ editing' = FALSE
  /\ timers' \in {timers, timers + 1}
  /\ UNCHANGED <<gpc, connection, devices, dialog, widgets, columns, prefs,
                 remote, plugged, applied>>

(* A name that has changed is sent: that starts a service that has gone,   *)
(* and the client of the device may not come back.                         *)
SetDeviceName ==
  Call("SetDeviceName", IF service THEN ServiceRenames ELSE ServiceStarts)

EndEdit ==
  /\ gpc = "up"
  /\ editing
  /\ editing' = FALSE
  /\ SetDeviceName \/ UNCHANGED remote
  /\ timers' = timers + 1
  /\ UNCHANGED <<gpc, connection, devices, dialog, widgets, columns, prefs,
                 plugged, applied>>

(* app_exit *)
AppExit ==
  /\ gpc' = "exited"
  /\ SavePreferences
  /\ timers' = Without(timers)
  /\ UNCHANGED <<connection, devices, editing, dialog, widgets, columns,
                 plugged, applied>>

(* The window is closed or, within any step of it, a signal arrives. *)
CloseWindow == gpc \in {"up", "saving"} /\ AppExit /\ UNCHANGED remote

ExitServiceAndExit ==
  /\ AtMain
  /\ AppExit
  /\ ExitService

Open == gpc \notin {"exited", "crashed"}

GuiNext ==
  \/ /\ Open
     /\ \/ Startup \/ RefreshState \/ ClickStartStop \/ ShowAllColumns
        \/ OpenPreferences \/ ChangeWidgets \/ ClosePreferences
        \/ ClickSavePreferences \/ Saved
        \/ BeginEdit \/ EndEdit
        \/ CloseWindow \/ ExitServiceAndExit
        \/ PlugIn \/ PlugOut \/ ServiceDies \/ ServiceCatchesUp
  \/ ~Open /\ UNCHANGED gvars

GuiSpec == GuiInit /\ [][GuiNext]_gvars

(* The main loop of GLib runs what is ready. *)
GuiFairness ==
  /\ WF_gvars(Open /\ Startup)
  /\ WF_gvars(Open /\ RefreshState)
  /\ WF_gvars(Open /\ Saved)

-----------------------------------------------------------------------------
GuiTypeOK ==
  /\ gpc \in {"startup", "up", "saving", "exited", "crashed"}
  /\ {connection, editing, dialog, columns, cols_file, service, hotplug} \subseteq BOOLEAN
  /\ timers \in Nat
  /\ devices \in -1..MaxDevices
  /\ {widgets, prefs_file, loaded} \subseteq Preferences
  /\ plugged \in 0..MaxDevices
  /\ clients \in 0..plugged
  /\ late \in Seq(Methods)

(* There is one timer while the window waits for something to do and none  *)
(* while a name is edited, whatever is saved, edited and cancelled: a poll *)
(* would take the label away under the user (main.c:216-222, 328, 367).    *)
OneTimer == gpc = "up" /\ connection => timers = IF editing THEN 0 ELSE 1

(* The service has not run a Start yet that it was asked for. *)
StartWaits == \E i \in 1..Len(late) : late[i] = "Start"

(* Changing the preferences will restart all the clients (README.md:133):  *)
(* from the first Save on and while the window is open, a client has what  *)
(* is in the file, even if the file could not be written, a device was     *)
(* plugged in meanwhile or the service was started again (main.c:212-222), *)
(* unless a call of Start that timed out still waits at the service: the   *)
(* window does not repeat it, so the service must not lose it.             *)
PreferencesApplied ==
  gpc = "up" /\ connection /\ applied /\ clients > 0 =>
    loaded = prefs_file \/ StartWaits

(* The button does not lie in the end: once the clients of the service     *)
(* stay as they are, the window says so, or that it does not know and has  *)
(* no button, never an older number (main.c:303-317).                      *)
ButtonTruth ==
  \A n \in 0..MaxDevices :
    <>[](gpc = "up" /\ connection /\ ~editing /\ service /\ clients = n)
      => <>[](devices \in {-1, n})

=============================================================================
