-------------------------- MODULE ResamplerProofs --------------------------
(***************************************************************************)
(* What holds of a JACK client for every number of resets, with or without *)
(* failures of JACK.                                                       *)
(***************************************************************************)
EXTENDS Resampler, EngineProofs

USE DEF ERROR, STOP, READY, STEADY, BOOT, CLEAR, WAIT, RUN,
        R_STOP, R_READY, R_BOOT, R_TUNE, R_RUN, R_RETUNE

Stopped == status <= STOP

(***************************************************************************)
(* The inductive invariant.                                                *)
(***************************************************************************)

(* Nobody but the engine moves before READY is published. *)
Handshake ==
  /\ epc \in PreReady =>
       /\ status = STOP
       /\ rstatus \in {R_STOP, R_READY}
       /\ ~active
       /\ jpc = "idle"
  /\ spc \in {"up", "wait", "joined"} => epc \notin PreReady

(* The statuses that a live engine may have at each place of run_audio. *)
EngineAt ==
  \/ Stopped
  \/ /\ epc \notin {"drain", "done"}
     /\ epc = "await_steady" => status \in {READY, STEADY}
     /\ epc = "to_boot" => status = STEADY
     /\ epc \in {"exit_check", "reset", "enter"} => status \in {BOOT, CLEAR, RUN}
     /\ epc \in {"loop", "events"} => status \in {BOOT, CLEAR, WAIT, RUN}

(* How far a live engine may have gone since a callback took its copy. *)
Snapshot ==
  jpc \in {"ratios", "force"} =>
    \/ Stopped
    \/ /\ es > STOP
       /\ es = READY  => status = READY
       /\ es = STEADY => status \in {STEADY, BOOT, WAIT}
       /\ es = BOOT   => status \in {BOOT, WAIT}
       /\ es = WAIT   => status = WAIT
       /\ es \in {CLEAR, RUN} => status \in {CLEAR, RUN}

(* At the end of a reset the engine is on its way to WAIT. *)
Resetting == jpc = "ready" => Stopped \/ status \in {READY, STEADY, BOOT, WAIT}

Together == Handshake /\ EngineAt /\ Snapshot /\ Resetting /\ Lockstep

RInv ==
  /\ IInv
  /\ rstatus \in R_STOP..R_RETUNE
  /\ es \in Statuses
  /\ Together

-----------------------------------------------------------------------------
(* The JACK threads are a client of the engine: every step of a JACK       *)
(* client is a step of the engine with some client, or does not touch it.  *)
LEMMA Simulation == ResamplerNext => [Next]_vars
<1> SUFFICES ASSUME ResamplerNext PROVE [Next]_vars
  OBVIOUS
<1>1. ASSUME UNCHANGED <<thread, spc>>,
             \/ \E s \in {STOP, STEADY, BOOT, RUN} : SetStatus(s)
             \/ ClearBuffers
             \/ UNCHANGED status
      PROVE  [Next]_vars
  BY <1>1 DEF Next, Client, vars
<1>2. CASE \/ HostQuiet(Control) \/ HostQuiet(EventsReturn) \/ HostQuiet(DrainReturn)
           \/ HostQuiet(\E d \in Dirs : GiveBack(d)) \/ EngineCallback
  BY <1>2 DEF HostQuiet, EngineCallback, Next, EngineThread
<1>3. CASE JClient
  BY <1>3
  DEF JClient, StartResampler, ResamplerFails, HostQuiet, Activate, Deactivate, Close,
      Next, Caller, Owner
<1>4. CASE ReadXrun \/ ClearXrun \/ ReadEngine \/ Audio \/ ReadForReset \/ SetSampleRate
  <2>1. UNCHANGED <<thread, spc, status>>
    BY <1>4
    DEF ReadXrun, ClearXrun, ReadEngine, Audio, ReadForReset, SetSampleRate, BeginReset,
        JackReturn, JackStep
  <2> QED
    BY <1>1, <2>1
<1>5. CASE ComputeRatios
  <2>1. /\ UNCHANGED <<thread, spc>>
        /\ SetStatus(STEADY) \/ SetStatus(RUN) \/ ClearBuffers \/ UNCHANGED status
    BY <1>5
    DEF ComputeRatios, SeeEngineStopped, NotifyReadiness, HoldOn, BootResampler, Tune,
        KeepTuning, StartRunning, KeepRunning, Retune, Ratios, JackStep
  <2> QED
    BY <1>1, <2>1
<1>6. CASE AfterRunning \/ SetBufferSize \/ ReadyAgain
  <2>1. UNCHANGED <<thread, spc>> /\ ClearBuffers
    BY <1>6
    DEF AfterRunning, SetBufferSize, ReadyAgain, BeginReset, JackReturn, JackStep
  <2> QED
    BY <1>1, <2>1
<1>7. CASE ProcessError \/ AskToStop
  <2>1. UNCHANGED <<thread, spc>> /\ SetStatus(STOP)
    BY <1>7 DEF ProcessError, AskToStop, Stop, JackReturn, JackStep
  <2> QED
    BY <1>1, <2>1
<1>8. CASE ForceBoot
  <2>1. UNCHANGED <<thread, spc>> /\ (SetStatus(BOOT) \/ UNCHANGED status)
    BY <1>8 DEF ForceBoot, JackStep
  <2> QED
    BY <1>1, <2>1
<1>9. CASE Xrun \/ Over
  BY <1>9 DEF Xrun, Over, allvars
<1> QED
  BY <1>2, <1>3, <1>4, <1>5, <1>6, <1>7, <1>8, <1>9 DEF ResamplerNext, Process, ResetCallback

-----------------------------------------------------------------------------
(* The engine thread, between two critical sections of the JACK threads.   *)
LEMMA EngineTogether ==
  ASSUME RInv, UNCHANGED host,
         Control \/ EventsReturn \/ DrainReturn \/ CbInData \/ CbOutData
           \/ \E d \in Dirs : GiveBack(d) \/ Callback(d)
  PROVE  Together'
<1> USE DEF Together, Stopped, PreReady, host
<1>1. /\ Dll = TRUE
      /\ status \in Int
      /\ es \in Int
      /\ rstatus \in Int
      /\ Together
  BY ResamplerAssumption DEF RInv, IInv, TypeOK, Statuses
<1>2. epc \notin {"events", "drain"} => cb = "none"
  BY DEF RInv, IInv, CallbacksInLibusb
<1>3. ASSUME status' = status \/ (status > STOP /\ status' = ERROR)
      PROVE  Snapshot' /\ Resetting' /\ Lockstep'
  BY <1>1, <1>3 DEF Snapshot, Resetting, Lockstep
<1>4. CASE Control
  <2> USE DEF Handshake, EngineAt
  <2>1. ASSUME NEW d \in Dirs, NEW from \in PreReady, NEW to \in PreReady,
               FirstSubmit(d, from, to)
        PROVE  Together'
    <3>1. UNCHANGED <<status, spc>> /\ epc = from /\ epc' = to
      BY <1>1, <2>1 DEF FirstSubmit, EngineStep, SetStatus
    <3> QED
      BY <1>1, <1>3, <3>1
  <2>2. CASE BootIn \/ BootOut
    BY <2>1, <2>2 DEF BootIn, BootOut, Dirs
  <2>3. CASE SetReady
    BY <1>1, <2>3 DEF SetReady, EngineStep, Snapshot, Resetting, Lockstep
  <2>4. CASE AwaitSteady
    <3>1. /\ UNCHANGED <<status, spc>>
          /\ epc = "await_steady"
          /\ \/ epc' = "await_steady"
             \/ status = STEADY /\ epc' = "to_boot"
      BY <1>1, <2>4 DEF AwaitSteady, EngineStep
    <3> QED
      BY <1>1, <1>3, <3>1
  <2>5. CASE ToBoot
    <3>1. /\ UNCHANGED spc
          /\ \/ status <= STOP /\ status' = status /\ epc' = "done"
             \/ status = STEADY /\ status' = BOOT /\ epc' = "reset"
      BY <1>1, <2>5 DEF ToBoot, EngineStep
    <3>2. Snapshot' /\ Resetting' /\ Lockstep'
      BY <1>1, <3>1 DEF Snapshot, Resetting, Lockstep
    <3> QED
      BY <1>1, <3>1, <3>2
  <2>6. CASE Reset
    BY <1>1, <1>3, <2>6 DEF Reset, EngineStep
  <2>7. CASE Enter
    <3>1. /\ UNCHANGED spc
          /\ \/ status <= STOP /\ status' = status /\ epc' = "done"
             \/ status \in {CLEAR, RUN} /\ status' = RUN /\ epc' = "loop"
             \/ status = BOOT /\ status' = WAIT /\ epc' = "loop"
      BY <1>1, <2>7 DEF Enter, Entered, EngineStep
    <3>2. Snapshot' /\ Resetting' /\ Lockstep'
      BY <1>1, <3>1 DEF Snapshot, Resetting, Lockstep
    <3> QED
      BY <1>1, <3>1, <3>2
  <2>8. CASE CheckLoop
    <3>1. /\ UNCHANGED <<status, spc>>
          /\ epc = "loop"
          /\ \/ status >= WAIT /\ epc' = "events"
             \/ status < WAIT /\ epc' = "exit_check"
      BY <1>1, <2>8 DEF CheckLoop, EngineStep
    <3> QED
      BY <1>1, <1>3, <3>1
  <2>9. CASE ExitCheck
    <3>1. /\ UNCHANGED <<status, spc>>
          /\ epc = "exit_check"
          /\ \/ status < BOOT /\ epc' = "drain"
             \/ status >= BOOT /\ epc' = "reset"
      BY <1>1, <2>9 DEF ExitCheck, EngineStep
    <3> QED
      BY <1>1, <1>3, <3>1
  <2> QED
    BY <1>4, <2>2, <2>3, <2>4, <2>5, <2>6, <2>7, <2>8, <2>9 DEF Control
<1>5. CASE EventsReturn \/ DrainReturn
  BY <1>1, <1>3, <1>5 DEF EventsReturn, DrainReturn, EngineStep, Handshake, EngineAt
<1>6. CASE CbInData \/ CbOutData \/ \E d \in Dirs : GiveBack(d) \/ CbCheck(d)
  <2>1. UNCHANGED <<status, epc, spc>>
    BY <1>6 DEF CbInData, CbOutData, GiveBack, CbCheck, CallbackStep
  <2> QED
    BY <1>1, <1>3, <2>1 DEF Handshake, EngineAt
<1>7. ASSUME NEW d \in Dirs, CbSubmit(d)
      PROVE  Together'
  <2>1. /\ UNCHANGED <<epc, spc>>
        /\ status' = status \/ (status > STOP /\ status' = ERROR)
    BY <1>1, <1>7 DEF CbSubmit, CallbackStep, SetStatus
  <2>2. epc \notin PreReady
    BY <1>2, <1>7 DEF CbSubmit, CallbackStep, Dirs
  <2> QED
    BY <1>1, <1>3, <2>1, <2>2 DEF Handshake, EngineAt
<1> QED
  BY <1>4, <1>5, <1>6, <1>7 DEF Callback

(* The thread that runs jclient_run. *)
LEMMA OwnerTogether ==
  ASSUME RInv, JClient
  PROVE  Together' /\ rstatus' \in R_STOP..R_RETUNE /\ es' \in Statuses
<1> USE DEF Together, Handshake, EngineAt, Snapshot, Resetting, Lockstep, Stopped, PreReady
<1>1. /\ Together
      /\ epc \in EnginePcs
      /\ status \in Int
      /\ rstatus \in R_STOP..R_RETUNE
      /\ es \in Statuses
      /\ spc = "init" => epc = "none"
  BY DEF RInv, IInv, TypeOK, Statuses, StartedOnce
<1>2. CASE StartResampler
  BY <1>1, <1>2 DEF StartResampler, StartEngine
<1>3. CASE ResamplerFails
  BY <1>1, <1>3 DEF ResamplerFails, StartFails, thread
<1>4. CASE HostQuiet(PollStarted \/ JoinEngine)
  BY <1>1, <1>4 DEF HostQuiet, PollStarted, JoinEngine, host, thread
<1>5. CASE Activate
  BY <1>1, <1>5 DEF Activate, WaitEngine, thread
<1>6. CASE Deactivate
  BY <1>1, <1>6 DEF Deactivate, vars, thread
<1>7. CASE Close
  BY <1>1, <1>7 DEF Close, DestroyEngine, host, thread
<1> QED
  BY <1>2, <1>3, <1>4, <1>5, <1>6, <1>7 DEF JClient

(* The JACK threads, and whoever asks for a stop. *)
LEMMA HostTogether ==
  ASSUME RInv,
         Process \/ SetBufferSize \/ SetSampleRate \/ ResetCallback \/ Xrun \/ AskToStop
  PROVE  Together' /\ rstatus' \in R_STOP..R_RETUNE /\ es' \in Statuses
<1> USE DEF Together, Handshake, EngineAt, Snapshot, Resetting, Lockstep, Stopped,
            PreReady, thread
<1>1. /\ Together
      /\ status \in Int
      /\ status \in Statuses
      /\ rstatus \in R_STOP..R_RETUNE
      /\ es \in Statuses
      /\ es \in Int
  BY DEF RInv, IInv, TypeOK, Statuses
<1>2. CASE ReadXrun \/ ClearXrun
  BY <1>1, <1>2 DEF ReadXrun, ClearXrun, JackStep
<1>3. CASE ReadEngine \/ ReadForReset
  BY <1>1, <1>3 DEF ReadEngine, ReadForReset, JackStep, Statuses
<1>4. CASE ComputeRatios
  <2> USE DEF Ratios, JackStep, SetStatus, ClearBuffers
  <2>1. CASE SeeEngineStopped
    BY <1>1, <2>1 DEF SeeEngineStopped
  <2>2. CASE NotifyReadiness
    BY <1>1, <2>2 DEF NotifyReadiness
  <2>3. CASE HoldOn
    BY <1>1, <2>3 DEF HoldOn
  <2>4. CASE BootResampler
    BY <1>1, <2>4 DEF BootResampler
  <2>5. CASE Tune
    BY <1>1, <2>5 DEF Tune
  <2>6. CASE KeepTuning
    BY <1>1, <2>6 DEF KeepTuning
  <2>7. CASE StartRunning
    BY <1>1, <2>7 DEF StartRunning
  <2>8. CASE KeepRunning
    BY <1>1, <2>8 DEF KeepRunning
  <2>9. CASE Retune
    BY <1>1, <2>9 DEF Retune
  <2> QED
    BY <1>4, <2>1, <2>2, <2>3, <2>4, <2>5, <2>6, <2>7, <2>8, <2>9 DEF ComputeRatios
<1>5. CASE AfterRunning
  BY <1>1, <1>5 DEF AfterRunning, JackStep, ClearBuffers
<1>6. CASE Audio
  BY <1>1, <1>6 DEF Audio, JackReturn, JackStep, Statuses
<1>7. CASE ProcessError
  BY <1>1, <1>7 DEF ProcessError, JackReturn, JackStep, Stop, SetStatus, Statuses
<1>8. CASE SetBufferSize \/ SetSampleRate
  BY <1>1, <1>8 DEF SetBufferSize, SetSampleRate, BeginReset, ClearBuffers
<1>9. CASE ForceBoot
  <2>1. es > BOOT => es \in {CLEAR, WAIT, RUN}
    BY <1>1 DEF Statuses
  <2>2. \/ es <= BOOT /\ status' = status
        \/ status <= STOP /\ status' = status
        \/ es \in {CLEAR, WAIT, RUN} /\ status > STOP /\ status' = BOOT
    BY <1>1, <2>1, <1>9 DEF ForceBoot, SetStatus
  <2>3. jpc = "force" /\ jpc' = "ready" /\ UNCHANGED <<epc, spc, rstatus, es, active>>
    BY <1>9 DEF ForceBoot, JackStep
  <2>4. es <= BOOT => es \in {ERROR, STOP, READY, STEADY, BOOT}
    BY <1>1 DEF Statuses
  <2> QED
    BY <1>1, <2>2, <2>3, <2>4
<1>10. CASE ReadyAgain
  BY <1>1, <1>10 DEF ReadyAgain, JackReturn, JackStep, ClearBuffers, Statuses
<1>11. CASE Xrun
  BY <1>1, <1>11 DEF Xrun, vars
<1>12. CASE AskToStop
  BY <1>1, <1>12 DEF AskToStop, Stop, SetStatus
<1> QED
  BY <1>2, <1>3, <1>4, <1>5, <1>6, <1>7, <1>8, <1>9, <1>10, <1>11, <1>12
  DEF Process, ResetCallback

(* A client that has not started yet satisfies the invariant. *)
LEMMA InitRInv == ResamplerInit => RInv
<1> SUFFICES ASSUME ResamplerInit PROVE RInv
  OBVIOUS
<1>1. IInv
  BY InitIInv DEF ResamplerInit
<1>2. rstatus \in R_STOP..R_RETUNE /\ es \in Statuses
  BY DEF ResamplerInit, Statuses
<1>3. Together
  BY DEF ResamplerInit, Init, Together, Handshake, EngineAt, Snapshot, Resetting, Lockstep,
         Stopped
<1> QED
  BY <1>1, <1>2, <1>3 DEF RInv

(* No step of the engine, of JACK or of a stopping thread breaks it. *)
LEMMA StepRInv == RInv /\ [ResamplerNext]_allvars => RInv'
<1> SUFFICES ASSUME RInv, [ResamplerNext]_allvars PROVE RInv'
  OBVIOUS
<1>1. IInv'
  <2>1. [Next]_vars
    BY Simulation DEF allvars, vars
  <2> QED
    BY <2>1, StepIInv DEF RInv
<1>2. CASE \/ HostQuiet(Control) \/ HostQuiet(EventsReturn) \/ HostQuiet(DrainReturn)
           \/ HostQuiet(\E d \in Dirs : GiveBack(d)) \/ EngineCallback
  <2>1. Together'
    BY <1>2, EngineTogether DEF HostQuiet, EngineCallback
  <2>2. UNCHANGED <<rstatus, es>>
    BY <1>2 DEF HostQuiet, EngineCallback, host
  <2> QED
    BY <1>1, <2>1, <2>2 DEF RInv
<1>3. CASE JClient
  BY <1>1, <1>3, OwnerTogether DEF RInv
<1>4. CASE Process \/ SetBufferSize \/ SetSampleRate \/ ResetCallback \/ Xrun \/ AskToStop
  BY <1>1, <1>4, HostTogether DEF RInv
<1>5. CASE Over \/ UNCHANGED allvars
  BY <1>1, <1>5
  DEF RInv, Over, allvars, vars, thread, host, Together, Handshake, EngineAt, Snapshot,
      Resetting, Lockstep, Stopped
<1> QED
  BY <1>2, <1>3, <1>4, <1>5 DEF ResamplerNext

(* The engine of a JACK client is an engine of module Engine: what holds   *)
(* there for every client holds here.                                      *)
THEOREM ResamplerIsClient == ResamplerSpec => Spec
<1>1. ResamplerInit => Init
  BY DEF ResamplerInit
<1>2. [ResamplerNext]_allvars => [Next]_vars
  BY Simulation DEF allvars, vars
<1> QED
  BY <1>1, <1>2, PTL DEF ResamplerSpec, Spec

(* The status machines of engine.c and resampler.c stay in lockstep for    *)
(* every number of changes of buffer size and sample rate.                 *)
THEOREM LockstepHolds == ResamplerSpec => []Lockstep
<1>1. RInv => Lockstep
  BY DEF RInv, Together
<1> QED
  BY <1>1, InitRInv, StepRInv, PTL DEF ResamplerSpec

-----------------------------------------------------------------------------
(* What the JACK threads keep to themselves. *)
HostTypes ==
  /\ jpc \in JackPcs
  /\ {retune, xrun, active, asked} \subseteq BOOLEAN
  /\ resets \in 0..MaxResets

LEMMA StepHostTypes == HostTypes /\ [ResamplerNext]_allvars => HostTypes'
<1> SUFFICES ASSUME HostTypes, [ResamplerNext]_allvars PROVE HostTypes'
  OBVIOUS
<1> USE ResamplerAssumption DEF HostTypes, JackPcs
<1>1. ASSUME UNCHANGED host
      PROVE  HostTypes'
  BY <1>1 DEF host
<1>2. CASE JClient
  BY <1>1, <1>2
  DEF JClient, StartResampler, ResamplerFails, HostQuiet, Activate, Deactivate, Close
<1>3. CASE ReadXrun \/ ClearXrun \/ ReadEngine
  BY <1>3 DEF ReadXrun, ClearXrun, ReadEngine, JackStep
<1>4. CASE ComputeRatios
  BY <1>4
  DEF ComputeRatios, SeeEngineStopped, NotifyReadiness, HoldOn, BootResampler, Tune,
      KeepTuning, StartRunning, KeepRunning, Retune, Ratios, JackStep
<1>5. CASE AfterRunning \/ Audio \/ ProcessError
  BY <1>5 DEF AfterRunning, Audio, ProcessError, JackReturn, JackStep
<1>6. CASE SetBufferSize \/ SetSampleRate
  BY <1>6 DEF SetBufferSize, SetSampleRate, BeginReset
<1>7. CASE ReadForReset \/ ForceBoot \/ ReadyAgain
  BY <1>7 DEF ReadForReset, ForceBoot, ReadyAgain, JackReturn, JackStep
<1>8. CASE Xrun \/ AskToStop
  BY <1>8 DEF Xrun, AskToStop
<1> QED
  BY <1>1, <1>2, <1>3, <1>4, <1>5, <1>6, <1>7, <1>8
  DEF ResamplerNext, HostQuiet, EngineCallback, Process, ResetCallback, Over, allvars

(* Every variable of a JACK client keeps its type. *)
THEOREM ResamplerTypes == ResamplerSpec => []ResamplerTypeOK
<1>1. ASSUME ResamplerInit PROVE HostTypes
  <2>1. jpc \in JackPcs
    BY <1>1 DEF ResamplerInit, JackPcs
  <2>2. {retune, xrun, active, asked} \subseteq BOOLEAN
    BY <1>1, Zenon DEF ResamplerInit
  <2>3. resets \in 0..MaxResets
    BY <1>1, ResamplerAssumption DEF ResamplerInit
  <2> QED
    BY <2>1, <2>2, <2>3 DEF HostTypes
<1>2. RInv /\ HostTypes => ResamplerTypeOK
  BY DEF RInv, IInv, HostTypes, ResamplerTypeOK
<1> QED
  BY <1>1, <1>2, InitRInv, StepRInv, StepHostTypes, PTL DEF ResamplerSpec

(* The engine of a JACK client implements StreamContract: it drains only   *)
(* once it is stopped (EngineAt), because no JACK thread makes an engine   *)
(* STEADY that has left its handshake (Snapshot).                          *)
THEOREM ResamplerKeepsContract == ResamplerSpec => KeepsContract
<1>1. ResamplerInit => RInv /\ InOneHand /\ Contract!Init
  BY InitRInv, InitInOneHand, InitContract DEF ResamplerInit
<1>2. [ResamplerNext]_allvars => [Next]_vars
  BY Simulation DEF allvars, vars
<1>3. RInv /\ InOneHand /\ [ResamplerNext]_allvars => InOneHand'
  BY <1>2, StepInOneHand DEF RInv
<1>4. RInv => IInv /\ DrainsHalted
  BY DEF RInv, Together, EngineAt, DrainsHalted, Stopped
<1>5. RInv /\ RInv' /\ InOneHand /\ [ResamplerNext]_allvars
        => [Contract!Next]_(Contract!cvars)
  <2> SUFFICES ASSUME RInv, RInv', InOneHand, [ResamplerNext]_allvars
               PROVE  [Contract!Next]_(Contract!cvars)
    OBVIOUS
  <2>1. IInv /\ IInv' /\ DrainsHalted /\ [Next]_vars
    BY <1>2, <1>4 DEF RInv
  <2> QED
    BY <2>1, ContractStep
<1> QED
  BY <1>1, <1>3, <1>5, StepRInv, PTL DEF ResamplerSpec, KeepsContract, Contract!Spec

=============================================================================
