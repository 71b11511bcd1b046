------------------------------- MODULE Rename -------------------------------
(***************************************************************************)
(* overwitch-cli -r (rename_device in src/src/main-cli.c): an engine is    *)
(* started with no audio at all, only to send the name to the device in a  *)
(* control transfer (ow_engine_set_overbridge_name), stopped at once and   *)
(* waited for; then the process exits.  The handler of a signal finds no   *)
(* client running, so a signal changes nothing.                            *)
(***************************************************************************)
EXTENDS Engine

ASSUME RenameAssumption == Dll = FALSE /\ H2O = FALSE

VARIABLES
  rnpc,  \* where rename_device is; "off" in another program
  ctl    \* xfr_control_out: "none", "inflight", "refused", "done"

rnvars == <<vars, rnpc, ctl>>

RenamePcs == {"off", "start", "poll", "submit", "stop", "wait", "join", "exited"}

(* The state of a program that is at pc and has done nothing yet. *)
RenameAt(pc) ==
  /\ Init
  /\ rnpc = pc
  /\ ctl = "none"

RenameInit == RenameAt("start")

RenameStep(from, to) ==
  /\ rnpc = from
  /\ rnpc' = to

RenameStart ==
  /\ \/ RenameStep("start", "poll") /\ StartEngine
     \/ RenameStep("start", "exited") /\ StartFails
  /\ UNCHANGED ctl

RenamePoll ==
  /\ PollStarted
  /\ RenameStep("poll", IF spc' = "up" THEN "submit" ELSE "poll")
  /\ UNCHANGED ctl

(* ow_engine_set_overbridge_name: libusb accepts the transfer or not. *)
RenameSubmit ==
  /\ RenameStep("submit", "stop")
  /\ \/ ctl' = "inflight" /\ UNCHANGED status
     \/ ctl' = "refused" /\ SetStatus(ERROR)
  /\ UNCHANGED <<thread, spc>>

(* Mutant: the engine is not stopped before it is waited for. *)
RenameStopForgotten ==
  /\ RenameStep("stop", "wait")
  /\ UNCHANGED <<vars, ctl>>

RenameStop ==
  /\ RenameStep("stop", "wait")
  /\ Stop
  /\ UNCHANGED <<thread, spc, ctl>>

RenameWait ==
  /\ RenameStep("wait", "join")
  /\ WaitEngine
  /\ UNCHANGED ctl

RenameJoin ==
  /\ RenameStep("join", "exited")
  /\ JoinEngine
  /\ UNCHANGED ctl

(* The device has the name, whether or not anybody handles the event; the  *)
(* exit of the process cancels a transfer that is still in flight.         *)
NameSent ==
  /\ ctl = "inflight"
  /\ ctl' = "done"
  /\ UNCHANGED <<vars, rnpc>>

RenameMain ==
  RenameStart \/ RenamePoll \/ RenameSubmit \/ RenameStop \/ RenameWait \/ RenameJoin

Unnamed(A) == A /\ UNCHANGED <<rnpc, ctl>>

Renaming == rnpc \notin {"off", "exited"}

RenameNext ==
  \/ /\ Renaming
     /\ RenameMain \/ NameSent \/ Unnamed(EngineThread) \/ Unnamed(CbOutData)
  \/ rnpc = "exited" /\ UNCHANGED rnvars

RenameSpec == RenameInit /\ [][RenameNext]_rnvars

(* As for every engine: the threads are scheduled, libusb calls return. *)
RenameFairness ==
  /\ WF_rnvars(Renaming /\ RenameMain)
  /\ WF_rnvars(Renaming /\ Unnamed(Control))
  /\ SF_rnvars(Renaming /\ Unnamed(EventsReturn))
  /\ SF_rnvars(Renaming /\ Unnamed(DrainReturn))
  /\ WF_rnvars(Renaming /\ Unnamed(CbInData \/ CbOutData \/ \E d \in Dirs : Callback(d)))

-----------------------------------------------------------------------------
RenameTypeOK ==
  /\ TypeOK
  /\ rnpc \in RenamePcs
  /\ ctl \in {"none", "inflight", "refused", "done"}

(* A rename ends, whatever becomes of its transfers and although no signal *)
(* can end it: its stop cannot come before the engine is ready             *)
(* (main-cli.c:172-178).                                                   *)
RenameEnds == (rnpc = "start") ~> (rnpc = "exited")

=============================================================================
