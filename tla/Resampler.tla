----------------------------- MODULE Resampler -----------------------------
(***************************************************************************)
(* A JACK client: the engine thread, the JACK thread that runs             *)
(* ow_resampler_compute_ratios in every cycle (src/src/resampler.c and     *)
(* src/src/jclient.c), and the thread that starts both and waits           *)
(* (jclient_run).                                                          *)
(*                                                                         *)
(* JACK runs the process, buffer size and sample rate callbacks one after  *)
(* the other; the xrun and shutdown callbacks come from other threads.     *)
(* The delay-locked loop is a choice: each cycle it finds itself tuned or  *)
(* not, and its ratio good or bad.                                         *)
(***************************************************************************)
EXTENDS Engine

CONSTANTS
  MaxResets,  \* bound: changes of buffer size or sample rate
  JackFaults  \* xruns, and failures of JACK or of the sample rate converter

ASSUME ResamplerAssumption ==
  /\ Dll = TRUE
  /\ H2O = TRUE
  /\ MaxResets \in Nat
  /\ JackFaults \in BOOLEAN

VARIABLES
  rstatus,  \* resampler->status
  jpc,      \* where the JACK thread is
  es,       \* engine_status, the copy a callback took
  retune,   \* retune_required and xrun, locals of a process callback
  xrun,     \* jclient->xrun
  active,   \* JACK calls the client
  resets,   \* history: changes of buffer size or sample rate so far
  asked     \* history: somebody called jclient_stop from outside

host    == <<rstatus, jpc, es, retune, xrun, active, resets, asked>>
allvars == <<vars, host>>

(***************************************************************************)
(* enum ow_resampler_status_t                                              *)
(***************************************************************************)
R_STOP   == 0
R_READY  == 1
R_BOOT   == 2
R_TUNE   == 3
R_RUN    == 4
R_RETUNE == 5

JackPcs == {"idle", "xrun", "engine", "ratios", "running", "audio", "error",
            "reset", "force", "ready"}

ResamplerInit ==
  /\ Init
  /\ rstatus = R_STOP
  /\ jpc = "idle"
  /\ es = STOP
  /\ retune = FALSE
  /\ xrun = FALSE
  /\ active = FALSE
  /\ resets = 0
  /\ asked = FALSE

-----------------------------------------------------------------------------
(***************************************************************************)
(* jclient_run, after JACK has been opened.                                *)
(***************************************************************************)

(* ow_resampler_start *)
StartResampler ==
  /\ StartEngine
  /\ rstatus' = R_READY
  /\ UNCHANGED <<jpc, es, retune, xrun, active, resets, asked>>

(* JACK fails before ow_resampler_start, or the engine does not start. *)
ResamplerFails ==
  /\ StartFails
  /\ rstatus' \in {rstatus, R_READY}
  /\ UNCHANGED <<jpc, es, retune, xrun, active, resets, asked>>

(* jack_activate, and on to ow_resampler_wait even if it fails. *)
Activate ==
  /\ WaitEngine
  /\ active' \in IF JackFaults THEN BOOLEAN ELSE {TRUE}
  /\ UNCHANGED <<rstatus, jpc, es, retune, xrun, resets, asked>>

(* jack_deactivate: no callback begins any more. *)
Deactivate ==
  /\ spc = "joined"
  /\ active
  /\ active' = FALSE
  /\ UNCHANGED <<vars, rstatus, jpc, es, retune, xrun, resets, asked>>

(* It returns when no callback runs; then jack_client_close, and the owner *)
(* of the client calls jclient_destroy.                                    *)
Close ==
  /\ ~active
  /\ jpc = "idle"
  /\ DestroyEngine
  /\ UNCHANGED host

(* jclient_stop: from a signal, the service, or JACK shutting down; the    *)
(* client counts as running as soon as jclient_run begins.                 *)
AskToStop ==
  /\ spc # "closed"
  /\ Stop
  /\ asked' = TRUE
  /\ UNCHANGED <<thread, spc, rstatus, jpc, es, retune, xrun, active, resets>>

Xrun ==  \* jclient_thread_xrun_cb
  /\ JackFaults
  /\ active
  /\ xrun' = TRUE
  /\ UNCHANGED <<vars, rstatus, jpc, es, retune, active, resets, asked>>

-----------------------------------------------------------------------------
(***************************************************************************)
(* jclient_process_cb                                                      *)
(***************************************************************************)
JackStep(from, to) ==
  /\ jpc = from
  /\ jpc' = to
  /\ UNCHANGED <<thread, spc, resets, asked>>

ReadXrun ==
  /\ active
  /\ JackStep("idle", "xrun")
  /\ retune' = xrun
  /\ UNCHANGED <<status, rstatus, es, xrun, active>>

(* Then jack_get_cycle_times, which may fail. *)
ClearXrun ==
  /\ \/ JackStep("xrun", "engine")
     \/ JackFaults /\ JackStep("xrun", "error")
  /\ xrun' = FALSE
  /\ UNCHANGED <<status, rstatus, es, retune, active>>

ReadEngine ==
  /\ JackStep("engine", "ratios")
  /\ es' = status
  /\ UNCHANGED <<status, rstatus, retune, xrun, active>>

(* A transition of compute_ratios: the resampler goes to r and the engine  *)
(* is told what Call says.                                                 *)
Ratios(to, r, Call) ==
  /\ JackStep("ratios", to)
  /\ rstatus' = r
  /\ Call
  /\ UNCHANGED <<es, retune, xrun, active>>

(* The engine has stopped before the resampler booted. *)
SeeEngineStopped ==
  /\ rstatus = R_READY
  /\ es <= STOP
  /\ Ratios("error", rstatus, UNCHANGED status)

NotifyReadiness ==
  /\ rstatus = R_READY
  /\ es = READY
  /\ Ratios("audio", rstatus, SetStatus(STEADY))

(* STEADY or BOOT: the engine is not there yet.  CLEAR and RUN take this   *)
(* way too, and the resampler would never leave it (see Lockstep).         *)
HoldOn ==
  /\ rstatus = R_READY
  /\ es \in {STEADY, BOOT, CLEAR, RUN}
  /\ Ratios("audio", rstatus, UNCHANGED status)

BootResampler ==
  /\ rstatus = R_READY
  /\ es = WAIT
  /\ Ratios("audio", R_BOOT, UNCHANGED status)

(* Whether the loop is tuned and the boot period over is a choice. *)
Tune ==
  /\ rstatus = R_BOOT
  /\ \E r \in {R_BOOT, R_TUNE} : Ratios("audio", r, UNCHANGED status)

KeepTuning ==
  /\ rstatus \in {R_TUNE, R_RETUNE}
  /\ Ratios("audio", rstatus, UNCHANGED status)

StartRunning ==
  /\ rstatus \in {R_TUNE, R_RETUNE}
  /\ ~retune
  /\ Ratios("running", R_RUN, SetStatus(RUN))

KeepRunning ==
  /\ rstatus = R_RUN
  /\ ~retune
  /\ Ratios("audio", rstatus, UNCHANGED status)

(* After an xrun, or because the ratio went bad. *)
Retune ==
  /\ rstatus = R_RUN
  /\ Ratios("audio", R_RETUNE, ClearBuffers)

ComputeRatios ==
  \/ SeeEngineStopped \/ NotifyReadiness \/ HoldOn \/ BootResampler
  \/ Tune \/ KeepTuning \/ StartRunning \/ KeepRunning \/ Retune

(* audio_running_cb and ow_resampler_clear_buffers *)
AfterRunning ==
  /\ JackStep("running", "audio")
  /\ ClearBuffers
  /\ UNCHANGED <<rstatus, es, retune, xrun, active>>

(* A callback returns and its locals are gone. *)
JackReturn(from) ==
  /\ JackStep(from, "idle")
  /\ es' = STOP
  /\ retune' = FALSE
  /\ UNCHANGED xrun

(* ow_resampler_read_audio and ow_resampler_write_audio; the sample rate   *)
(* converter may produce an unexpected number of frames.                   *)
Audio ==
  \/ JackReturn("audio") /\ UNCHANGED <<status, rstatus, active>>
  \/ /\ JackFaults
     /\ JackStep("audio", "error")
     /\ UNCHANGED <<status, rstatus, es, retune, xrun, active>>

(* jclient_stop, and a non-zero return: JACK may drop the client. *)
ProcessError ==
  /\ JackReturn("error")
  /\ Stop
  /\ active' \in {active, FALSE}
  /\ UNCHANGED rstatus

-----------------------------------------------------------------------------
(***************************************************************************)
(* jclient_set_buffer_size_cb and jclient_set_sample_rate_cb, with a value *)
(* that is not the current one; then ow_resampler_reset.                   *)
(***************************************************************************)
BeginReset ==
  /\ active
  /\ resets < MaxResets
  /\ jpc = "idle"
  /\ jpc' = "reset"
  /\ resets' = resets + 1
  /\ UNCHANGED <<thread, spc, rstatus, es, retune, xrun, active, asked>>

SetBufferSize == BeginReset /\ ClearBuffers

SetSampleRate == BeginReset /\ UNCHANGED status

ReadForReset ==
  /\ JackStep("reset", "force")
  /\ es' = status
  /\ UNCHANGED <<status, rstatus, retune, xrun, active>>

(* Mutant: a reset forgets to send the engine back. *)
ForceNothing ==
  /\ JackStep("force", "ready")
  /\ UNCHANGED <<status, rstatus, es, retune, xrun, active>>

(* Mutant: an engine that waits for its notification is sent on as well. *)
ForceBootAlways ==
  /\ JackStep("force", "ready")
  /\ SetStatus(BOOT)
  /\ UNCHANGED <<rstatus, es, retune, xrun, active>>

(* An engine that has not booted is left to boot by itself. *)
ForceBoot ==
  /\ JackStep("force", "ready")
  /\ IF es > BOOT THEN SetStatus(BOOT) ELSE UNCHANGED status
  /\ UNCHANGED <<rstatus, es, retune, xrun, active>>

ReadyAgain ==
  /\ JackReturn("ready")
  /\ rstatus' = R_READY
  /\ ClearBuffers
  /\ UNCHANGED active

-----------------------------------------------------------------------------
Process ==
  \/ ReadXrun \/ ClearXrun \/ ReadEngine \/ ComputeRatios \/ AfterRunning
  \/ Audio \/ ProcessError

ResetCallback == ReadForReset \/ ForceBoot \/ ReadyAgain

HostQuiet(A) == A /\ UNCHANGED host

EngineCallback ==
  HostQuiet(CbInData \/ CbOutData \/ \E d \in Dirs : Callback(d))

JClient ==
  \/ StartResampler
  \/ ResamplerFails
  \/ HostQuiet(PollStarted \/ JoinEngine)
  \/ Activate
  \/ Deactivate
  \/ Close

Over == spc = "closed" /\ UNCHANGED allvars

ResamplerNext ==
  \/ HostQuiet(Control)
  \/ HostQuiet(EventsReturn)
  \/ HostQuiet(DrainReturn)
  \/ HostQuiet(\E d \in Dirs : GiveBack(d))
  \/ EngineCallback
  \/ JClient
  \/ Process
  \/ SetBufferSize
  \/ SetSampleRate
  \/ ResetCallback
  \/ Xrun
  \/ AskToStop
  \/ Over

ResamplerSpec == ResamplerInit /\ [][ResamplerNext]_allvars

(* The three threads are scheduled, JACK keeps calling an active client,   *)
(* and libusb calls return.  Nothing is assumed of the device.             *)
ResamplerFairness ==
  /\ WF_allvars(HostQuiet(Control))
  /\ SF_allvars(HostQuiet(EventsReturn))
  /\ SF_allvars(HostQuiet(DrainReturn))
  /\ WF_allvars(EngineCallback)
  /\ WF_allvars(JClient)
  /\ WF_allvars(Process)
  /\ WF_allvars(ResetCallback)

ResamplerFairSpec == ResamplerSpec /\ ResamplerFairness

-----------------------------------------------------------------------------
ResamplerTypeOK ==
  /\ TypeOK
  /\ rstatus \in R_STOP..R_RETUNE
  /\ jpc \in JackPcs
  /\ es \in Statuses
  /\ {retune, xrun, active, asked} \subseteq BOOLEAN
  /\ resets \in 0..MaxResets

(* The two status machines move in lockstep although neither holds the     *)
(* other's lock: outside the last part of a reset, an engine that has not  *)
(* stopped is where the resampler's status says.  READY with CLEAR or RUN  *)
(* would never end (resampler.c:414-465), BOOT with RUN would let the      *)
(* engine consume audio that nobody resamples.                             *)
Lockstep ==
  status > STOP /\ jpc # "ready" =>
    /\ rstatus \in {R_STOP, R_READY} => status \in {READY, STEADY, BOOT, WAIT}
    /\ rstatus \in {R_BOOT, R_TUNE}  => status = WAIT
    /\ rstatus \in {R_RUN, R_RETUNE} => status \in {CLEAR, RUN}

(* A resampler that is READY boots, unless the engine stops or JACK drops  *)
(* the client: the readiness handshake does not get stuck, nor does the    *)
(* reset that goes through it again (resampler.c:228-248, 414-465).        *)
ResamplerBoots ==
  (active /\ rstatus = R_READY) ~> (rstatus # R_READY \/ status <= STOP \/ ~active)

(* A request to clear or to boot again does not stay pending: the engine   *)
(* leaves its event loop and comes back (engine.c:830-852).                *)
RequestsHonoured == (status \in {BOOT, CLEAR}) ~> (status \notin {BOOT, CLEAR})

(* A stop or an error that arrives after the readiness handshake takes the *)
(* whole session down: the engine thread ends, jclient_run comes back from *)
(* ow_resampler_wait and closes the JACK client.                           *)
StopClosesSession ==
  (status <= STOP /\ epc \notin PreReady /\ ~AwaitsResampler)
    ~> (spc = "closed")

(* A stop asked for at any time stops the engine: stopping the service     *)
(* stops all the devices (README.md:123).                                  *)
StopKept == asked ~> (status <= STOP)

(* To stop, just press Ctrl+C (README.md:180): a stop that the engine has  *)
(* recorded, whenever it came, ends the session.                           *)
StopEndsSession == (status <= STOP /\ epc \notin PreReady) ~> (spc = "closed")

=============================================================================
