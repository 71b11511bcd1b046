------------------------------- MODULE Engine -------------------------------
(***************************************************************************)
(* The Overbridge engine of src/src/engine.c: the thread run_audio, the    *)
(* two libusb interrupt transfers it keeps at the device, and the status   *)
(* that every other thread reads and writes under engine->lock.            *)
(*                                                                         *)
(* One step is one critical section of engine->lock together with the      *)
(* thread-local work next to it: nothing another thread can see happens    *)
(* between two critical sections except the ring buffers, which are not    *)
(* part of this module.  A transfer belongs to the device while it is in   *)
(* "inflight" and to the engine thread otherwise; libusb gives it back by  *)
(* running its callback in the engine thread.                              *)
(*                                                                         *)
(* The module is an open component.  Its clients call the operators of the *)
(* section "API"; the modules Player and Resampler are the two real kinds  *)
(* of client, and Spec lets any client call anything at any time.          *)
(***************************************************************************)
EXTENDS Integers

CONSTANTS
  Dll,  \* engine->context->dll is set: a resampler drives the engine
  H2O   \* OW_ENGINE_OPTION_H2O_AUDIO: the host sends audio to the device

ASSUME EngineAssumption == {Dll, H2O} \subseteq BOOLEAN

(***************************************************************************)
(* enum ow_engine_status_t; the code compares these values with < and >.   *)
(***************************************************************************)
ERROR  == -1
STOP   == 0
READY  == 1
STEADY == 2
BOOT   == 3
CLEAR  == 4
WAIT   == 5
RUN    == 6

Statuses == ERROR..RUN

Dirs == {"in", "out"}  \* xfr_audio_in and xfr_audio_out

VARIABLES
  status,              \* engine->status, guarded by engine->lock
  reading_at_h2o_end,  \* engine->reading_at_h2o_end, engine thread only
  inflight,            \* transfers submitted and not yet given back
  refused,             \* history: first submissions libusb refused
  epc,                 \* where run_audio is
  cb,                  \* transfer whose callback is running, or "none"
  cpc,                 \* where that callback is
  spc                  \* where the caller of ow_engine_start is

thread == <<reading_at_h2o_end, inflight, refused, epc, cb, cpc>>
vars   == <<status, thread, spc>>

EnginePcs == {"none", "boot_in", "boot_out", "set_ready", "await_steady",
              "to_boot", "reset", "enter", "loop", "events",
              "exit_check", "drain", "done"}
CallbackPcs == {"idle", "data", "check", "submit"}
CallerPcs   == {"init", "poll", "up", "wait", "joined", "closed", "failed"}

Init ==
  /\ status = STOP
  /\ reading_at_h2o_end \in BOOLEAN  \* not written before Reset
  /\ inflight = {}
  /\ refused = {}
  /\ epc = "none"
  /\ cb = "none"
  /\ cpc = "idle"
  /\ spc = "init"

-----------------------------------------------------------------------------
(***************************************************************************)
(* API: what other threads may do to status.                               *)
(***************************************************************************)
(* ow_engine_set_status: a stopped or failed engine keeps its status. *)
SetStatus(s) == status' = IF status > STOP THEN s ELSE status

(* ow_engine_stop *)
Stop == SetStatus(STOP)

(* ow_engine_clear_buffers: only a running engine is told to clear. *)
ClearBuffers == status' = IF status = RUN THEN CLEAR ELSE status

-----------------------------------------------------------------------------
(***************************************************************************)
(* The caller of ow_engine_start and ow_engine_wait.                       *)
(***************************************************************************)
StartEngine ==  \* pthread_create succeeds
  /\ spc = "init"
  /\ spc' = "poll"
  /\ epc' = "boot_in"
  /\ UNCHANGED <<status, reading_at_h2o_end, inflight, refused, cb, cpc>>

StartFails ==   \* a missing callback in the context, or no thread
  /\ spc = "init"
  /\ spc' = "failed"
  /\ UNCHANGED <<status, thread>>

PollStarted ==  \* while (ow_engine_get_status (engine) == STOP);
  /\ spc = "poll"
  /\ spc' = IF status = STOP THEN "poll" ELSE "up"
  /\ UNCHANGED <<status, thread>>

JoinEngine ==   \* pthread_join
  /\ spc = "wait"
  /\ epc = "done"
  /\ spc' = "joined"
  /\ UNCHANGED <<status, thread>>

-----------------------------------------------------------------------------
(***************************************************************************)
(* run_audio up to its main loop.                                          *)
(***************************************************************************)
EngineStep(from, to) ==
  /\ epc = from
  /\ epc' = to
  /\ UNCHANGED <<cb, cpc, spc>>

(* The first submissions, made while status is STOP: if libusb refuses,    *)
(* the set_status (ERROR) of prepare_cycle_* does nothing.                 *)
FirstSubmit(d, from, to) ==
  /\ EngineStep(from, to)
  /\ UNCHANGED reading_at_h2o_end
  /\ \/ /\ inflight' = inflight \union {d}
        /\ UNCHANGED <<status, refused>>
     \/ /\ refused' = refused \union {d}
        /\ SetStatus(ERROR)
        /\ UNCHANGED inflight

BootIn  == FirstSubmit("in", "boot_in", "boot_out")
BootOut == FirstSubmit("out", "boot_out", "set_ready")

SetReady ==  \* the only unguarded write of status
  /\ EngineStep("set_ready", "await_steady")
  /\ status' = READY
  /\ UNCHANGED <<reading_at_h2o_end, inflight, refused>>

(* The engine spins until its resampler has made it STEADY; without one it *)
(* does so itself.                                                         *)
AwaitSteady ==
  /\ EngineStep("await_steady",
                IF Dll /\ status # STEADY THEN "await_steady" ELSE "to_boot")
  /\ IF Dll THEN UNCHANGED status ELSE SetStatus(STEADY)
  /\ UNCHANGED <<reading_at_h2o_end, inflight, refused>>

ToBoot ==
  /\ EngineStep("to_boot", IF status <= STOP THEN "done" ELSE "reset")
  /\ status' = IF status <= STOP THEN status ELSE BOOT
  /\ UNCHANGED <<reading_at_h2o_end, inflight, refused>>

-----------------------------------------------------------------------------
(***************************************************************************)
(* The main loop of run_audio.                                             *)
(***************************************************************************)

(* Latencies and the reading flag start again; without a resampler the     *)
(* engine consumes host audio from the first callback.                     *)
Reset ==
  /\ EngineStep("reset", "enter")
  /\ reading_at_h2o_end' = ~Dll
  /\ UNCHANGED <<status, inflight, refused>>

(* Mutant: the status is not looked at again before the loop starts. *)
EnterBlindly ==
  /\ EngineStep("enter", "loop")
  /\ status' = IF Dll THEN WAIT ELSE RUN
  /\ UNCHANGED <<reading_at_h2o_end, inflight, refused>>

Entered ==  \* the status in which the loop of a live engine starts
  IF ~Dll \/ status = CLEAR THEN RUN
  ELSE IF status = BOOT THEN WAIT ELSE status

Enter ==
  /\ EngineStep("enter", IF status <= STOP THEN "done" ELSE "loop")
  /\ status' = IF status <= STOP THEN status ELSE Entered
  /\ UNCHANGED <<reading_at_h2o_end, inflight, refused>>

(* Mutant: a request to clear or to boot again does not end the loop. *)
CheckLoopWhileAlive ==
  /\ EngineStep("loop", IF status > STOP THEN "events" ELSE "exit_check")
  /\ UNCHANGED <<status, reading_at_h2o_end, inflight, refused>>

(* Mutant: only a request to clear or to boot again ends the loop. *)
CheckLoopForRequests ==
  /\ EngineStep("loop", IF status \in {BOOT, CLEAR} THEN "exit_check" ELSE "events")
  /\ UNCHANGED <<status, reading_at_h2o_end, inflight, refused>>

CheckLoop ==  \* while (ow_engine_get_status (engine) >= WAIT)
  /\ EngineStep("loop", IF status >= WAIT THEN "events" ELSE "exit_check")
  /\ UNCHANGED <<status, reading_at_h2o_end, inflight, refused>>

(* Mutant: a BOOT request is taken for a stop. *)
ExitCheckBootIsStop ==
  /\ EngineStep("exit_check", IF status <= BOOT THEN "drain" ELSE "reset")
  /\ UNCHANGED <<status, reading_at_h2o_end, inflight, refused>>

ExitCheck ==
  /\ EngineStep("exit_check", IF status < BOOT THEN "drain" ELSE "reset")
  /\ UNCHANGED <<status, reading_at_h2o_end, inflight, refused>>

(* One call of libusb_handle_events_completed returns.  It handles what    *)
(* has completed, possibly nothing, so it may return at any time.          *)
EventsReturn ==
  /\ cpc = "idle"
  /\ EngineStep("events", "loop")
  /\ UNCHANGED <<status, reading_at_h2o_end, inflight, refused>>

(* libusb_handle_events_timeout_completed, once, with one second. *)
DrainReturn ==
  /\ cpc = "idle"
  /\ EngineStep("drain", "done")
  /\ UNCHANGED <<status, reading_at_h2o_end, inflight, refused>>

-----------------------------------------------------------------------------
(***************************************************************************)
(* Transfer callbacks, run by libusb in the engine thread.                 *)
(***************************************************************************)

(* libusb gives transfer d back, completed or failed or timed out. *)
GiveBack(d) ==
  /\ epc \in {"events", "drain"}
  /\ cpc = "idle"
  /\ d \in inflight
  /\ inflight' = inflight \ {d}
  /\ cb' = d
  /\ cpc' = "data"
  /\ UNCHANGED <<status, reading_at_h2o_end, refused, epc, spc>>

(* Mutant: a callback that returned is still taken for running. *)
CallbackStepKeepingCb(d, from, to) ==
  /\ cb = d
  /\ cpc = from
  /\ cpc' = to
  /\ UNCHANGED <<refused, epc, cb, spc>>

CallbackStep(d, from, to) ==
  /\ cb = d
  /\ cpc = from
  /\ cpc' = to
  /\ cb' = IF to = "idle" THEN "none" ELSE cb
  /\ UNCHANGED <<refused, epc, spc>>

CbInData ==
  /\ CallbackStep("in", "data", "check")
  /\ UNCHANGED <<status, reading_at_h2o_end, inflight>>

(* Mutant: the h2o ring is consumed whatever the status. *)
ReadingEndAnyStatus(enough) ==
  reading_at_h2o_end' = (reading_at_h2o_end \/ enough)

(* set_usb_output_data_blks starts to consume the h2o ring once it holds   *)
(* a whole transfer ("enough") and the engine runs.                        *)
ReadingEnd(enough) ==
  reading_at_h2o_end' = (reading_at_h2o_end \/ (enough /\ status = RUN))

CbOutData ==
  /\ CallbackStep("out", "data", "check")
  /\ IF H2O THEN \E enough \in BOOLEAN : ReadingEnd(enough)
            ELSE reading_at_h2o_end' = FALSE
  /\ UNCHANGED <<status, inflight>>

(* Mutant: the callback resubmits without looking at the status. *)
CbCheckNothing(d) ==
  /\ CallbackStep(d, "check", "submit")
  /\ UNCHANGED <<status, reading_at_h2o_end, inflight>>

CbCheck(d) ==
  /\ CallbackStep(d, "check", IF status > STOP THEN "submit" ELSE "idle")
  /\ UNCHANGED <<status, reading_at_h2o_end, inflight>>

(* Mutant: a refused submission is only logged. *)
CbSubmitIgnoringErrors(d) ==
  /\ CallbackStep(d, "submit", "idle")
  /\ inflight' \in {inflight, inflight \union {d}}
  /\ UNCHANGED <<status, reading_at_h2o_end>>

(* prepare_cycle_*_audio: libusb accepts the transfer or status is ERROR. *)
CbSubmit(d) ==
  /\ CallbackStep(d, "submit", "idle")
  /\ UNCHANGED reading_at_h2o_end
  /\ \/ /\ inflight' = inflight \union {d}
        /\ UNCHANGED status
     \/ /\ SetStatus(ERROR)
        /\ UNCHANGED inflight

-----------------------------------------------------------------------------
Control ==  \* run_audio between two libusb calls
  \/ BootIn \/ BootOut \/ SetReady \/ AwaitSteady \/ ToBoot
  \/ Reset \/ Enter \/ CheckLoop \/ ExitCheck

Callback(d) == CbCheck(d) \/ CbSubmit(d)

(* The engine thread, but for what the out callback reads: CbOutData here, *)
(* the reading of an audio file in module Player.                          *)
EngineThread ==
  \/ Control
  \/ EventsReturn
  \/ DrainReturn
  \/ CbInData
  \/ \E d \in Dirs : GiveBack(d) \/ Callback(d)

Caller == StartEngine \/ StartFails \/ PollStarted \/ JoinEngine

(* Any client: the statuses are those that some call in src/src passes. *)
Client ==
  /\ \/ \E s \in {ERROR, STOP, STEADY, BOOT, RUN} : SetStatus(s)
     \/ ClearBuffers
  /\ UNCHANGED <<thread, spc>>

WaitEngine ==  \* the caller goes on to ow_engine_wait
  /\ spc = "up"
  /\ spc' = "wait"
  /\ UNCHANGED <<status, thread>>

DestroyEngine ==  \* ow_engine_destroy
  /\ spc \in {"joined", "failed"}
  /\ spc' = "closed"
  /\ UNCHANGED <<status, thread>>

Owner == WaitEngine \/ DestroyEngine

Next == EngineThread \/ CbOutData \/ Caller \/ Owner \/ Client

Spec == Init /\ [][Next]_vars

-----------------------------------------------------------------------------
(***************************************************************************)
(* Properties of the engine whatever its clients do.                       *)
(***************************************************************************)
PreReady == {"none", "boot_in", "boot_out", "set_ready"}

AwaitsResampler == Dll /\ epc = "await_steady"

(* Every variable has its type; a callback runs only inside a libusb call. *)
TypeOK ==
  /\ status \in Statuses
  /\ reading_at_h2o_end \in BOOLEAN
  /\ inflight \subseteq Dirs
  /\ refused \subseteq Dirs
  /\ epc \in EnginePcs
  /\ cb \in Dirs \union {"none"}
  /\ cpc \in CallbackPcs
  /\ spc \in CallerPcs
  /\ (cb = "none") <=> (cpc = "idle")

(* Once the engine has published READY (run_audio, engine.c:762), a stop   *)
(* or an error is final: no transition of the engine thread and no call of *)
(* a client, however interleaved, brings the engine back.                  *)
StopIsFinal ==
  [][epc \notin PreReady /\ status <= STOP => status' = status]_vars

(* While the engine is not stopped, every transfer is at the device or in  *)
(* its own callback, unless its very first submission was refused: a       *)
(* status that says the engine is alive never hides a dead stream          *)
(* (cb_xfr_audio_in and cb_xfr_audio_out, engine.c:329 and 358).           *)
StreamSustained ==
  epc \notin PreReady /\ status > STOP =>
    Dirs \subseteq inflight \union refused \union {cb}

(* While the engine waits for the resampler to tune it takes no audio from *)
(* the host: the reading flag of a former run is gone (engine.c:803, 220). *)
WaitMeansSilent == Dll /\ status = WAIT => ~reading_at_h2o_end

(* A stop or an error that arrives once the engine has left its wait for   *)
(* the resampler (engine.c:770) ends the engine thread.                    *)
StopHalts ==
  (status <= STOP /\ epc \notin PreReady /\ ~AwaitsResampler)
    ~> (epc = "done")

-----------------------------------------------------------------------------
(***************************************************************************)
(* The engine as a stream: the clients that follow the protocol (modules   *)
(* Player and Resampler) make it implement StreamContract.                 *)
(***************************************************************************)
Phase == CASE epc = "done"     -> "over"
           [] epc \in PreReady -> "off"
           [] epc \notin PreReady \union {"done"} /\ status <= STOP -> "halted"
           [] epc \notin PreReady \union {"done"} /\ status > STOP  -> "on"

Late == Phase = "halted" /\ cpc = "submit"

Contract == INSTANCE StreamContract
              WITH Transfers <- Dirs, phase <- Phase, atDevice <- inflight,
                   late <- Late

(* The stream goes off, on, halted, over and never back; the engine thread *)
(* ends only when halted; after the halt at most one transfer is handed to *)
(* the device, by the callback that had already read the status (run_audio *)
(* and cb_xfr_audio_*, engine.c:329-333, 358-363, 736-862).                *)
KeepsContract == Contract!Spec

=============================================================================
