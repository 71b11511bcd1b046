---------------------------- MODULE EngineProofs ----------------------------
(***************************************************************************)
(* What holds of the engine for every client, with a resampler or without. *)
(***************************************************************************)
EXTENDS Engine, TLAPS

(***************************************************************************)
(* The inductive invariant: when the engine thread runs, where the first   *)
(* submissions went, that no callback runs outside a libusb call, and that *)
(* the reading flag is reset before WAIT is published.                     *)
(***************************************************************************)
StartedOnce == spc = "init" => epc = "none"

FirstSubmissions ==
  /\ epc = "boot_out" => "in" \in inflight \union refused
  /\ epc = "set_ready" => Dirs \subseteq inflight \union refused

CallbacksInLibusb == epc \notin {"events", "drain"} => cb = "none"

SilentEntry == Dll /\ epc = "enter" => ~reading_at_h2o_end

IInv ==
  /\ TypeOK
  /\ StartedOnce
  /\ FirstSubmissions
  /\ CallbacksInLibusb
  /\ SilentEntry
  /\ StreamSustained
  /\ WaitMeansSilent

USE DEF ERROR, STOP, READY, STEADY, BOOT, CLEAR, WAIT, RUN

(* A call of any client leaves a legal status. *)
LEMMA ClientStatus ==
  ASSUME status \in Statuses, Client
  PROVE  /\ status' \in Statuses
         /\ status <= STOP => status' = status
         /\ status' = WAIT => status = WAIT
  BY DEF Client, SetStatus, ClearBuffers, Statuses

(* The initial state satisfies the invariant. *)
LEMMA InitIInv == Init => IInv
<1> SUFFICES ASSUME Init PROVE IInv
  OBVIOUS
<1>1. TypeOK
  <2>1. /\ status \in Statuses
        /\ spc \in CallerPcs
        /\ epc \in EnginePcs
    BY DEF Init, Statuses, EnginePcs, CallerPcs
  <2>2. /\ reading_at_h2o_end \in BOOLEAN
        /\ inflight \subseteq Dirs
        /\ refused \subseteq Dirs
    BY DEF Init
  <2>3. /\ cb \in Dirs \union {"none"}
        /\ cpc \in CallbackPcs
        /\ (cb = "none") <=> (cpc = "idle")
    BY DEF Init, CallbackPcs
  <2> QED
    BY <2>1, <2>2, <2>3 DEF TypeOK
<1>2. epc = "none" /\ cb = "none" /\ status = STOP
  BY DEF Init
<1>3. StreamSustained /\ WaitMeansSilent
  BY <1>2 DEF StreamSustained, WaitMeansSilent
<1> QED
  BY <1>1, <1>2, <1>3
  DEF IInv, StartedOnce, FirstSubmissions, CallbacksInLibusb, SilentEntry

(* Every step keeps the types. *)
LEMMA TypeStep == TypeOK /\ [Next]_vars => TypeOK'
<1> SUFFICES ASSUME TypeOK, [Next]_vars PROVE TypeOK'
  OBVIOUS
<1> USE DEF TypeOK, Statuses, EnginePcs, CallbackPcs, CallerPcs, Dirs
<1>1. ASSUME NEW d \in Dirs, NEW from, NEW to \in EnginePcs, FirstSubmit(d, from, to)
      PROVE  TypeOK'
  <2>1. UNCHANGED <<reading_at_h2o_end, cb, cpc, spc>> /\ epc' = to
    BY <1>1 DEF FirstSubmit, EngineStep
  <2>2. status' \in Statuses
    BY <1>1 DEF FirstSubmit, SetStatus
  <2>3. inflight' \subseteq Dirs /\ refused' \subseteq Dirs
    BY <1>1 DEF FirstSubmit
  <2> QED
    BY <2>1, <2>2, <2>3
<1>2. CASE Control
  <2>1. CASE BootIn
    BY <2>1, <1>1 DEF BootIn
  <2>2. CASE BootOut
    BY <2>2, <1>1 DEF BootOut
  <2>3. CASE SetReady
    BY <2>3 DEF SetReady, EngineStep
  <2>4. CASE AwaitSteady
    BY <2>4 DEF AwaitSteady, EngineStep, SetStatus
  <2>5. CASE ToBoot
    BY <2>5 DEF ToBoot, EngineStep
  <2>6. CASE Reset
    BY <2>6 DEF Reset, EngineStep
  <2>7. CASE Enter
    <3>1. Entered \in Statuses
      BY EngineAssumption DEF Entered
    <3> QED
      BY <2>7, <3>1 DEF Enter, EngineStep
  <2>8. CASE CheckLoop
    BY <2>8 DEF CheckLoop, EngineStep
  <2>9. CASE ExitCheck
    BY <2>9 DEF ExitCheck, EngineStep
  <2> QED
    BY <1>2, <2>1, <2>2, <2>3, <2>4, <2>5, <2>6, <2>7, <2>8, <2>9 DEF Control
<1>3. CASE EventsReturn
  BY <1>3 DEF EventsReturn, EngineStep
<1>4. CASE DrainReturn
  BY <1>4 DEF DrainReturn, EngineStep
<1>5. ASSUME NEW d \in Dirs, GiveBack(d)
      PROVE  TypeOK'
  BY <1>5 DEF GiveBack
<1>6. CASE CbInData
  BY <1>6 DEF CbInData, CallbackStep
<1>7. CASE CbOutData
  BY <1>7 DEF CbOutData, CallbackStep, ReadingEnd
<1>8. ASSUME NEW d \in Dirs, CbCheck(d)
      PROVE  TypeOK'
  BY <1>8 DEF CbCheck, CallbackStep
<1>9. ASSUME NEW d \in Dirs, CbSubmit(d)
      PROVE  TypeOK'
  <2>1. UNCHANGED <<reading_at_h2o_end, refused, epc, spc>>
    BY <1>9 DEF CbSubmit, CallbackStep
  <2>2. cb' = "none" /\ cpc' = "idle"
    BY <1>9 DEF CbSubmit, CallbackStep
  <2>3. status' \in Statuses
    BY <1>9 DEF CbSubmit, SetStatus
  <2>4. inflight' \subseteq Dirs
    BY <1>9 DEF CbSubmit
  <2> QED
    BY <2>1, <2>2, <2>3, <2>4
<1>10. CASE Caller \/ Owner
  BY <1>10 DEF Caller, StartEngine, StartFails, PollStarted, JoinEngine, Owner, WaitEngine,
        DestroyEngine, thread
<1>11. CASE Client
  BY <1>11, ClientStatus DEF Client, thread
<1>12. CASE UNCHANGED vars
  BY <1>12 DEF vars, thread
<1> QED
  BY <1>2, <1>3, <1>4, <1>5, <1>6, <1>7, <1>8, <1>9, <1>10, <1>11, <1>12
  DEF Next, EngineThread, Callback

(* The engine thread before a main loop: the first transfers leave, and    *)
(* the reading flag is reset.                                              *)
LEMMA ControlStep == IInv /\ Control => IInv'
<1> SUFFICES ASSUME IInv, Control PROVE IInv'
  OBVIOUS
<1> USE DEF StartedOnce, FirstSubmissions, CallbacksInLibusb, SilentEntry,
            StreamSustained, WaitMeansSilent, PreReady
<1>1. TypeOK'
  BY TypeStep DEF IInv, Next, EngineThread
<1>2. status \in Int
  BY DEF IInv, TypeOK, Statuses
<1>3. Dll \in BOOLEAN
  BY EngineAssumption
<1>4. CASE BootIn
  <2>1. epc = "boot_in" /\ epc' = "boot_out" /\ cb' = cb /\ spc' = spc
    BY <1>4 DEF BootIn, FirstSubmit, EngineStep
  <2>2. "in" \in inflight' \union refused'
    BY <1>4 DEF BootIn, FirstSubmit
  <2>3. reading_at_h2o_end' = reading_at_h2o_end
    BY <1>4 DEF BootIn, FirstSubmit
  <2>4. status' = WAIT => status = WAIT
    BY <1>4, <1>2 DEF BootIn, FirstSubmit, SetStatus
  <2> QED
    BY <1>1, <2>1, <2>2, <2>3, <2>4 DEF IInv
<1>5. CASE BootOut
  <2>1. epc = "boot_out" /\ epc' = "set_ready" /\ cb' = cb /\ spc' = spc
    BY <1>5 DEF BootOut, FirstSubmit, EngineStep
  <2>2. Dirs \subseteq inflight' \union refused'
    BY <1>5, <2>1 DEF BootOut, FirstSubmit, IInv, Dirs
  <2>3. reading_at_h2o_end' = reading_at_h2o_end
    BY <1>5 DEF BootOut, FirstSubmit
  <2>4. status' = WAIT => status = WAIT
    BY <1>5, <1>2 DEF BootOut, FirstSubmit, SetStatus
  <2> QED
    BY <1>1, <2>1, <2>2, <2>3, <2>4 DEF IInv
<1>6. CASE SetReady
  BY <1>1, <1>6 DEF SetReady, EngineStep, IInv
<1>7. CASE AwaitSteady
  BY <1>1, <1>2, <1>7 DEF AwaitSteady, EngineStep, SetStatus, IInv
<1>8. CASE ToBoot
  BY <1>1, <1>2, <1>8 DEF ToBoot, EngineStep, IInv
<1>9. CASE Reset
  BY <1>1, <1>9 DEF Reset, EngineStep, IInv
<1>10. CASE Enter
  <2>1. epc = "enter" /\ epc' \in {"done", "loop"} /\ cb' = cb /\ spc' = spc
    BY <1>10 DEF Enter, EngineStep
  <2>2. UNCHANGED <<reading_at_h2o_end, inflight, refused>>
    BY <1>10 DEF Enter
  <2>3. status <= STOP => status' = status
    BY <1>10, <1>2 DEF Enter
  <2> QED
    BY <1>1, <1>2, <2>1, <2>2, <2>3 DEF IInv
<1>11. CASE CheckLoop
  BY <1>1, <1>11 DEF CheckLoop, EngineStep, IInv
<1>12. CASE ExitCheck
  BY <1>1, <1>12 DEF ExitCheck, EngineStep, IInv
<1> QED
  BY <1>4, <1>5, <1>6, <1>7, <1>8, <1>9, <1>10, <1>11, <1>12 DEF Control

(* The engine thread inside libusb: a callback holds its transfer until it *)
(* hands it over again or the engine is stopped.                           *)
LEMMA CallbackStepIInv ==
  ASSUME IInv, EventsReturn \/ DrainReturn \/ CbInData \/ CbOutData
                 \/ \E d \in Dirs : GiveBack(d) \/ Callback(d)
  PROVE  IInv'
<1> USE DEF StartedOnce, FirstSubmissions, CallbacksInLibusb, SilentEntry,
            StreamSustained, WaitMeansSilent, PreReady
<1>1. TypeOK'
  BY TypeStep DEF IInv, Next, EngineThread
<1>2. status \in Int /\ (cb = "none" <=> cpc = "idle")
  BY DEF IInv, TypeOK, Statuses
<1>3. CASE EventsReturn
  BY <1>1, <1>2, <1>3 DEF EventsReturn, EngineStep, IInv
<1>4. CASE DrainReturn
  BY <1>1, <1>2, <1>4 DEF DrainReturn, EngineStep, IInv
<1>5. CASE CbInData
  BY <1>1, <1>5 DEF CbInData, CallbackStep, IInv, Dirs
<1>6. CASE CbOutData
  <2>1. UNCHANGED <<status, inflight, refused, epc, cb, spc>> /\ cb = "out"
    BY <1>6 DEF CbOutData, CallbackStep
  <2>2. epc \in {"events", "drain"}
    BY <2>1 DEF IInv
  <2>3. status = WAIT /\ ~reading_at_h2o_end => ~reading_at_h2o_end'
    BY <1>6, IInv DEF CbOutData, ReadingEnd, IInv, TypeOK
  <2> QED
    BY <1>1, <2>1, <2>2, <2>3 DEF IInv
<1>7. ASSUME NEW d \in Dirs, GiveBack(d)
      PROVE  IInv'
  <2>1. /\ epc \in {"events", "drain"}
        /\ cb = "none"
        /\ cb' = d
        /\ inflight' = inflight \ {d}
    BY <1>2, <1>7 DEF GiveBack
  <2>2. UNCHANGED <<status, reading_at_h2o_end, refused, epc, spc>>
    BY <1>7 DEF GiveBack
  <2>3. StreamSustained'
    BY <2>1, <2>2 DEF IInv, Dirs
  <2> QED
    BY <1>1, <2>1, <2>2, <2>3 DEF IInv
<1>8. ASSUME NEW d \in Dirs, CbCheck(d)
      PROVE  IInv'
  BY <1>1, <1>2, <1>8 DEF CbCheck, CallbackStep, IInv
<1>9. ASSUME NEW d \in Dirs, CbSubmit(d)
      PROVE  IInv'
  BY <1>1, <1>2, <1>9 DEF CbSubmit, CallbackStep, SetStatus, IInv
<1> QED
  BY <1>3, <1>4, <1>5, <1>6, <1>7, <1>8, <1>9 DEF Callback

(* Every step keeps the invariant. *)
LEMMA StepIInv == IInv /\ [Next]_vars => IInv'
<1> SUFFICES ASSUME IInv, [Next]_vars PROVE IInv'
  OBVIOUS
<1> USE DEF StartedOnce, FirstSubmissions, CallbacksInLibusb, SilentEntry,
            StreamSustained, WaitMeansSilent, PreReady
<1>1. TypeOK'
  BY TypeStep DEF IInv
<1>2. status \in Statuses
  BY DEF IInv, TypeOK
<1>3. CASE Caller \/ Owner
  <2>1. UNCHANGED <<status, reading_at_h2o_end, inflight, refused, cb>>
    BY <1>3
    DEF Caller, StartEngine, StartFails, PollStarted, JoinEngine, Owner, WaitEngine,
        DestroyEngine, thread
  <2>2. spc' # "init"
    BY <1>3
    DEF Caller, StartEngine, StartFails, PollStarted, JoinEngine, Owner, WaitEngine,
        DestroyEngine
  <2>3. epc' = epc \/ (epc' = "boot_in" /\ epc = "none")
    <3>1. CASE StartEngine
      BY <3>1 DEF StartEngine, IInv
    <3>2. CASE StartFails \/ PollStarted \/ JoinEngine \/ Owner
      BY <3>2
      DEF StartFails, PollStarted, JoinEngine, Owner, WaitEngine, DestroyEngine, thread
    <3> QED
      BY <1>3, <3>1, <3>2 DEF Caller
  <2> QED
    BY <1>1, <2>1, <2>2, <2>3 DEF IInv
<1>4. CASE Client
  BY <1>1, <1>2, <1>4, ClientStatus DEF Client, thread, IInv, Statuses
<1>5. CASE UNCHANGED vars
  BY <1>1, <1>5 DEF vars, thread, IInv
<1> QED
  BY <1>3, <1>4, <1>5, ControlStep, CallbackStepIInv DEF Next, EngineThread

(* IInv holds in every state of the engine, whatever its clients do. *)
THEOREM Invariance == Spec => []IInv
BY InitIInv, StepIInv, PTL DEF Spec

(* Every variable keeps its type, and callbacks run inside libusb calls. *)
THEOREM TypeCorrect == Spec => []TypeOK
<1>1. IInv => TypeOK
  BY DEF IInv
<1> QED
  BY <1>1, Invariance, PTL

(* While the engine is not stopped, no transfer is forgotten: the two      *)
(* callbacks of engine.c always hand it over again or stop the engine.     *)
THEOREM StreamIsSustained == Spec => []StreamSustained
<1>1. IInv => StreamSustained
  BY DEF IInv
<1> QED
  BY <1>1, Invariance, PTL

(* While the engine waits for the resampler it takes no host audio. *)
THEOREM WaitIsSilent == Spec => []WaitMeansSilent
<1>1. IInv => WaitMeansSilent
  BY DEF IInv
<1> QED
  BY <1>1, Invariance, PTL

(* A stopped engine stays stopped: the guard of ow_engine_set_status and   *)
(* the tests of run_audio leave no way around it.                          *)
THEOREM StopPersists == Spec => StopIsFinal
<1> DEFINE Final == epc \notin PreReady /\ status <= STOP => status' = status
<1>1. TypeOK /\ [Next]_vars => Final
  <2> SUFFICES ASSUME TypeOK, [Next]_vars, epc \notin PreReady, status <= STOP
               PROVE  status' = status
    OBVIOUS
  <2>1. status \in Statuses /\ status \in Int
    BY DEF TypeOK, Statuses
  <2>2. CASE Control
    <3>1. CASE Reset \/ CheckLoop \/ ExitCheck
      BY <3>1 DEF Reset, CheckLoop, ExitCheck
    <3>2. CASE AwaitSteady
      BY <3>2, <2>1 DEF AwaitSteady, SetStatus
    <3>3. CASE ToBoot
      BY <3>3 DEF ToBoot
    <3>4. CASE Enter
      BY <3>4, <2>1 DEF Enter
    <3>5. CASE BootIn \/ BootOut \/ SetReady
      BY <3>5 DEF BootIn, BootOut, SetReady, FirstSubmit, EngineStep, PreReady
    <3> QED
      BY <2>2, <3>1, <3>2, <3>3, <3>4, <3>5 DEF Control
  <2>3. CASE EventsReturn \/ DrainReturn \/ CbInData \/ CbOutData
    BY <2>3 DEF EventsReturn, DrainReturn, CbInData, CbOutData
  <2>4. ASSUME NEW d \in Dirs, GiveBack(d) \/ Callback(d)
        PROVE  status' = status
    BY <2>4, <2>1 DEF GiveBack, Callback, CbCheck, CbSubmit, SetStatus
  <2>5. CASE Caller \/ Owner
    BY <2>5 DEF Caller, StartEngine, StartFails, PollStarted, JoinEngine, Owner, WaitEngine,
        DestroyEngine
  <2>6. CASE Client
    BY <2>1, <2>6, ClientStatus
  <2>7. CASE UNCHANGED vars
    BY <2>7 DEF vars
  <2> QED
    BY <2>2, <2>3, <2>4, <2>5, <2>6, <2>7 DEF Next, EngineThread
<1>2. TypeOK /\ [Next]_vars => [Final]_vars
  BY <1>1
<1> QED
  BY <1>2, TypeCorrect, PTL DEF Spec, StopIsFinal

-----------------------------------------------------------------------------
(***************************************************************************)
(* The engine as a stream (module StreamContract).                         *)
(***************************************************************************)

(* A transfer is at the device or in the hands of the engine thread, never *)
(* both.                                                                   *)
InOneHand ==
  /\ epc \in {"none", "boot_in"} => inflight = {}
  /\ epc = "boot_out" => "out" \notin inflight
  /\ cb \notin inflight

(* What the contract asks of a client: an engine that leaves its loop for  *)
(* good has been stopped.  A client that sets STEADY later breaks it.      *)
DrainsHalted == epc = "drain" => status <= STOP

LEMMA InitInOneHand == Init => InOneHand
  BY DEF Init, InOneHand

LEMMA StepInOneHand == IInv /\ InOneHand /\ [Next]_vars => InOneHand'
<1> SUFFICES ASSUME IInv, InOneHand, [Next]_vars PROVE InOneHand'
  OBVIOUS
<1> USE DEF InOneHand, Dirs
<1>1. /\ inflight \subseteq Dirs
      /\ cb \in Dirs \union {"none"}
      /\ epc \notin {"events", "drain"} => cb = "none"
      /\ spc = "init" => epc = "none"
  BY DEF IInv, TypeOK, CallbacksInLibusb, StartedOnce
<1>2. CASE Control
  <2>1. CASE BootIn
    BY <1>1, <2>1 DEF BootIn, FirstSubmit, EngineStep
  <2>2. CASE BootOut
    BY <1>1, <2>2 DEF BootOut, FirstSubmit, EngineStep
  <2>3. CASE SetReady \/ AwaitSteady \/ ToBoot \/ Reset \/ Enter \/ CheckLoop \/ ExitCheck
    BY <2>3
    DEF SetReady, AwaitSteady, ToBoot, Reset, Enter, CheckLoop, ExitCheck, EngineStep
  <2> QED
    BY <1>2, <2>1, <2>2, <2>3 DEF Control
<1>3. CASE EventsReturn \/ DrainReturn
  BY <1>3 DEF EventsReturn, DrainReturn, EngineStep
<1>4. ASSUME NEW d \in Dirs, GiveBack(d)
      PROVE  InOneHand'
  BY <1>4 DEF GiveBack
<1>5. CASE CbInData \/ CbOutData \/ \E d \in Dirs : CbCheck(d)
  BY <1>1, <1>5 DEF CbInData, CbOutData, CbCheck, CallbackStep
<1>6. ASSUME NEW d \in Dirs, CbSubmit(d)
      PROVE  InOneHand'
  BY <1>1, <1>6 DEF CbSubmit, CallbackStep
<1>7. CASE Caller \/ Owner \/ Client
  BY <1>1, <1>7
  DEF Caller, StartEngine, StartFails, PollStarted, JoinEngine, Owner, WaitEngine,
      DestroyEngine, Client, thread
<1>8. CASE UNCHANGED vars
  BY <1>8 DEF vars, thread
<1> QED
  BY <1>2, <1>3, <1>4, <1>5, <1>6, <1>7, <1>8 DEF Next, EngineThread, Callback

(* Where the stream is. *)
WhereItIs ==
  /\ epc = "done" => Phase = "over"
  /\ epc \in PreReady => Phase = "off"
  /\ epc \notin PreReady \union {"done"} =>
       /\ status <= STOP => Phase = "halted"
       /\ status > STOP  => Phase = "on"

LEMMA PhaseCases == TypeOK => WhereItIs
<1> SUFFICES ASSUME TypeOK PROVE WhereItIs
  OBVIOUS
<1>1. "done" \notin PreReady /\ status \in Int
  BY DEF TypeOK, Statuses, PreReady
<1>2. epc = "done" => Phase = "over"
  BY <1>1 DEF Phase
<1>3. epc \in PreReady => Phase = "off"
  BY <1>1 DEF Phase
<1>4. epc \notin PreReady \union {"done"} /\ status <= STOP => Phase = "halted"
  BY <1>1 DEF Phase
<1>5. epc \notin PreReady \union {"done"} /\ status > STOP => Phase = "on"
  BY <1>1 DEF Phase
<1> QED
  BY <1>1, <1>2, <1>3, <1>4, <1>5 DEF WhereItIs

(* The same of the two states of a step. *)
LEMMA PhaseStep ==
  ASSUME TypeOK, TypeOK', NEW p, NEW q, p = Phase, q = Phase'
  PROVE  /\ epc = "done" => p = "over"
         /\ epc \in PreReady => p = "off"
         /\ epc \notin PreReady \union {"done"} =>
              /\ status <= STOP => p = "halted"
              /\ status > STOP  => p = "on"
         /\ epc' = "done" => q = "over"
         /\ epc' \in PreReady => q = "off"
         /\ epc' \notin PreReady \union {"done"} =>
              /\ status' <= STOP => q = "halted"
              /\ status' > STOP  => q = "on"
         /\ status \in Int /\ status' \in Int /\ "done" \notin PreReady
         /\ Late <=> p = "halted" /\ cpc = "submit"
         /\ Late' <=> q = "halted" /\ cpc' = "submit"
         /\ Late \in BOOLEAN /\ Late' \in BOOLEAN
<1>1. WhereItIs /\ WhereItIs'
  BY PhaseCases, PTL
<1> QED
  BY <1>1 DEF WhereItIs, Late, TypeOK, Statuses, PreReady

(* Steps that hand over no transfer: they halt the stream, or use up its   *)
(* late transfer, or leave it as it is.                                    *)
LEMMA QuietContract ==
  ASSUME TypeOK, TypeOK', inflight' = inflight,
         \/ epc \in PreReady /\ epc' \in PreReady
         \/ epc = "done" /\ epc' = "done"
         \/ /\ epc \notin PreReady \union {"done"}
            /\ epc' \notin PreReady \union {"done"}
            /\ status <= STOP => status' <= STOP /\ (cpc' = "submit" => cpc = "submit")
  PROVE  [Contract!Next]_(Contract!cvars)
<1>1. PICK p, q : p = Phase /\ q = Phase'
  OBVIOUS
<1>2. PICK l, m : l = Late /\ m = Late'
  OBVIOUS
<1>3. /\ l \in BOOLEAN /\ m \in BOOLEAN
      /\ l <=> p = "halted" /\ cpc = "submit"
      /\ m <=> q = "halted" /\ cpc' = "submit"
  BY <1>1, <1>2, PhaseStep
<1>4. \/ p = q /\ m = l
      \/ p = "on" /\ q = "halted"
      \/ p = q /\ l = TRUE /\ m = FALSE
  BY <1>1, <1>3, PhaseStep
<1> QED
  BY <1>1, <1>2, <1>3, <1>4
  DEF Contract!Next, Contract!Halt, Contract!GiveUp, Contract!cvars

(* Steps that hand a transfer over: before the stream is on, while it is   *)
(* on, and once after the halt.                                            *)
LEMMA HandOverContract ==
  ASSUME TypeOK, TypeOK', NEW d \in Dirs, d \notin inflight,
         inflight' = inflight \union {d}, status' = status, cpc' = "idle",
         \/ epc \in PreReady /\ epc' \in PreReady
         \/ epc' = epc /\ epc \notin PreReady \union {"done"} /\ cpc = "submit"
  PROVE  Contract!Next
<1>1. PICK p, q : p = Phase /\ q = Phase'
  OBVIOUS
<1>2. PICK l, m : l = Late /\ m = Late'
  OBVIOUS
<1>3. /\ l <=> p = "halted" /\ cpc = "submit"
      /\ m <=> q = "halted" /\ cpc' = "submit"
      /\ l \in BOOLEAN /\ m \in BOOLEAN
  BY <1>1, <1>2, PhaseStep
<1>4. p = q /\ (p \in {"off", "on"} \/ (p = "halted" /\ l))
  BY <1>1, <1>3, PhaseStep
<1>5. Contract!HandOver(d)
  BY <1>1, <1>2, <1>3, <1>4 DEF Contract!HandOver
<1> QED
  BY <1>5 DEF Contract!Next

(* libusb gives a transfer back. *)
LEMMA GiveBackContract ==
  ASSUME TypeOK, TypeOK', NEW d \in Dirs, GiveBack(d)
  PROVE  Contract!Next
<1>1. PICK p, q : p = Phase /\ q = Phase'
  OBVIOUS
<1>2. PICK l, m : l = Late /\ m = Late'
  OBVIOUS
<1>3. /\ epc' = epc /\ status' = status
      /\ epc \notin PreReady \union {"done"}
      /\ cpc = "idle" /\ cpc' = "data"
      /\ d \in inflight /\ inflight' = inflight \ {d}
  BY DEF GiveBack, PreReady
<1>4. p = q /\ p \in {"on", "halted"}
  BY <1>1, <1>3, PhaseStep
<1>5. /\ l <=> p = "halted" /\ cpc = "submit"
      /\ m <=> q = "halted" /\ cpc' = "submit"
      /\ l \in BOOLEAN /\ m \in BOOLEAN
  BY <1>1, <1>2, PhaseStep
<1>6. Contract!TakeBack(d)
  BY <1>1, <1>2, <1>3, <1>4, <1>5 DEF Contract!TakeBack
<1> QED
  BY <1>6 DEF Contract!Next

(* The stream goes on, and is over. *)
LEMMA TurnContract ==
  ASSUME TypeOK, TypeOK', inflight' = inflight, cpc = "idle", cpc' = "idle",
         \/ epc \in PreReady /\ epc' \notin PreReady \union {"done"} /\ status' > STOP
         \/ /\ epc \notin PreReady \union {"done"} /\ status <= STOP
            /\ epc' = "done"
  PROVE  Contract!Next
<1>1. PICK p, q : p = Phase /\ q = Phase'
  OBVIOUS
<1>2. PICK l, m : l = Late /\ m = Late'
  OBVIOUS
<1>3. l = FALSE /\ m = FALSE /\ ~Late
  BY <1>1, <1>2, PhaseStep
<1>4. \/ p = "off" /\ q = "on"
      \/ p = "halted" /\ q = "over"
  BY <1>1, PhaseStep
<1>5. CASE p = "off" /\ q = "on"
  BY <1>1, <1>2, <1>3, <1>5 DEF Contract!GoOn, Contract!Next
<1>6. CASE p = "halted" /\ q = "over"
  BY <1>1, <1>2, <1>3, <1>6 DEF Contract!End, Contract!Next
<1> QED
  BY <1>4, <1>5, <1>6

(* Every step of an engine whose drain comes after a stop keeps the        *)
(* contract, but for the data callback, which each kind of client has of   *)
(* its own.                                                                *)
LEMMA ContractStep ==
  ASSUME IInv, IInv', InOneHand, DrainsHalted, [Next]_vars
  PROVE  [Contract!Next]_(Contract!cvars)
<1>1. /\ TypeOK /\ TypeOK'
      /\ epc \notin {"events", "drain"} => cb = "none"
      /\ cb = "none" <=> cpc = "idle"
      /\ spc = "init" => epc = "none"
      /\ status \in Int
      /\ Dll \in BOOLEAN
  BY EngineAssumption DEF IInv, TypeOK, CallbacksInLibusb, StartedOnce, Statuses
<1>2. ASSUME NEW d \in Dirs, NEW from \in PreReady, NEW to \in PreReady,
             FirstSubmit(d, from, to), d \notin inflight, from \notin {"events", "drain"}
      PROVE  [Contract!Next]_(Contract!cvars)
  <2>1. epc = from /\ epc' = to /\ cpc' = "idle"
    BY <1>1, <1>2 DEF FirstSubmit, EngineStep
  <2>2. CASE inflight' = inflight
    BY <1>1, <2>1, <2>2, QuietContract
  <2>3. CASE inflight' # inflight
    <3>1. inflight' = inflight \union {d} /\ status' = status
      BY <1>2, <2>3 DEF FirstSubmit
    <3> QED
      BY <1>1, <1>2, <2>1, <3>1, HandOverContract
  <2> QED
    BY <2>2, <2>3
<1>3. CASE BootIn
  BY <1>2, <1>3 DEF BootIn, FirstSubmit, EngineStep, InOneHand, Dirs, PreReady
<1>4. CASE BootOut
  BY <1>2, <1>4 DEF BootOut, FirstSubmit, EngineStep, InOneHand, Dirs, PreReady
<1>5. CASE SetReady
  <2>1. /\ epc \in PreReady /\ epc' \notin PreReady \union {"done"} /\ status' > STOP
        /\ cpc = "idle" /\ cpc' = "idle" /\ inflight' = inflight
    BY <1>1, <1>5 DEF SetReady, EngineStep, PreReady
  <2> QED
    BY <1>1, <2>1, TurnContract
<1>6. CASE AwaitSteady \/ Reset \/ CheckLoop \/ ExitCheck \/ EventsReturn
  <2>1. /\ inflight' = inflight
        /\ epc \notin PreReady \union {"done"}
        /\ epc' \notin PreReady \union {"done"}
        /\ status <= STOP => status' <= STOP
        /\ cpc' = cpc
    BY <1>1, <1>6
    DEF AwaitSteady, Reset, CheckLoop, ExitCheck, EventsReturn, EngineStep, PreReady, SetStatus
  <2> QED
    BY <1>1, <2>1, QuietContract
<1>7. CASE ToBoot \/ Enter \/ DrainReturn
  <2>1. /\ inflight' = inflight
        /\ epc \notin PreReady \union {"done"}
        /\ \/ status <= STOP /\ epc' = "done"
           \/ status > STOP /\ epc' \notin PreReady \union {"done"}
        /\ cpc = "idle" /\ cpc' = "idle"
    BY <1>1, <1>7 DEF ToBoot, Enter, DrainReturn, EngineStep, PreReady, DrainsHalted
  <2>2. CASE status <= STOP /\ epc' = "done"
    BY <1>1, <2>1, <2>2, TurnContract
  <2>3. CASE status > STOP /\ epc' \notin PreReady \union {"done"}
    BY <1>1, <2>1, <2>3, QuietContract
  <2> QED
    BY <2>1, <2>2, <2>3
<1>8. ASSUME NEW d \in Dirs, GiveBack(d)
      PROVE  [Contract!Next]_(Contract!cvars)
  BY <1>1, <1>8, GiveBackContract
<1>9. CASE CbInData \/ CbOutData \/ \E d \in Dirs : CbCheck(d)
  <2>1. /\ UNCHANGED <<status, epc, inflight>>
        /\ epc \notin PreReady \union {"done"}
        /\ cpc' = "submit" => status > STOP
    BY <1>1, <1>9 DEF CbInData, CbOutData, CbCheck, CallbackStep, PreReady, Dirs
  <2> QED
    BY <1>1, <2>1, QuietContract
<1>10. ASSUME NEW d \in Dirs, CbSubmit(d)
       PROVE  [Contract!Next]_(Contract!cvars)
  <2>1. /\ epc' = epc /\ epc \notin PreReady \union {"done"}
        /\ cpc = "submit" /\ cpc' = "idle" /\ d \notin inflight
    BY <1>1, <1>10 DEF CbSubmit, CallbackStep, PreReady, Dirs, InOneHand
  <2>2. CASE inflight' = inflight
    <3>1. status <= STOP => status' <= STOP
      BY <1>1, <1>10 DEF CbSubmit, SetStatus
    <3> QED
      BY <1>1, <2>1, <2>2, <3>1, QuietContract
  <2>3. CASE inflight' # inflight
    <3>1. inflight' = inflight \union {d} /\ status' = status
      BY <1>10, <2>3 DEF CbSubmit
    <3> QED
      BY <1>1, <2>1, <3>1, HandOverContract
  <2> QED
    BY <2>2, <2>3
<1>11. CASE Caller \/ Owner
  <2>1. /\ UNCHANGED <<status, inflight, cpc>>
        /\ epc' = epc \/ (epc = "none" /\ epc' = "boot_in")
    BY <1>1, <1>11
    DEF Caller, StartEngine, StartFails, PollStarted, JoinEngine, Owner, WaitEngine,
        DestroyEngine, thread
  <2> QED
    BY <1>1, <2>1, QuietContract DEF PreReady
<1>12. CASE Client
  <2>1. UNCHANGED <<inflight, cpc, epc>> /\ (status <= STOP => status' <= STOP)
    BY <1>1, <1>12 DEF Client, SetStatus, ClearBuffers, thread
  <2> QED
    BY <1>1, <2>1, QuietContract
<1>13. CASE UNCHANGED vars
  <2>1. UNCHANGED <<status, inflight, cpc, epc>>
    BY <1>13 DEF vars, thread
  <2> QED
    BY <1>1, <2>1, QuietContract
<1> QED
  BY <1>3, <1>4, <1>5, <1>6, <1>7, <1>8, <1>9, <1>10, <1>11, <1>12, <1>13
  DEF Next, EngineThread, Control, Callback

(* A stream is off at first. *)
LEMMA InitContract == Init => Contract!Init
<1> SUFFICES ASSUME Init PROVE Contract!Init
  OBVIOUS
<1>1. TypeOK
  BY InitIInv DEF IInv
<1>2. epc \in PreReady /\ inflight = {} /\ cpc = "idle"
  BY DEF Init, PreReady
<1>3. Phase = "off"
  BY <1>1, <1>2, PhaseCases DEF WhereItIs
<1>4. Late = FALSE
  BY <1>2 DEF Late
<1> QED
  BY <1>2, <1>3, <1>4 DEF Contract!Init

-----------------------------------------------------------------------------
(***************************************************************************)
(* The engine without a resampler, of a player or a recorder.              *)
(***************************************************************************)

(* Between its handshake and its last drain a live engine has booted, and  *)
(* it drains and ends only when stopped: nobody makes it STEADY or READY   *)
(* again.                                                                  *)
BootedOrStopped ==
  /\ epc \in {"reset", "enter", "loop", "events", "exit_check"} =>
       status <= STOP \/ status >= BOOT
  /\ epc \in {"drain", "done"} => status <= STOP

(* The engine thread moves on, and never drains before a stop. *)
LEMMA ControlBooted ==
  ASSUME IInv, ~Dll, BootedOrStopped, Control \/ EventsReturn \/ DrainReturn
  PROVE  /\ BootedOrStopped'
         /\ cb' = cb /\ cpc' = cpc
         /\ epc' \notin PreReady /\ status' <= STOP => epc \notin PreReady /\ status <= STOP
<1> USE DEF BootedOrStopped, PreReady, EngineStep
<1>1. /\ Dll = FALSE
      /\ status \in Int
      /\ BootedOrStopped
  BY EngineAssumption DEF IInv, TypeOK, Statuses
<1>2. CASE BootIn \/ BootOut
  BY <1>2 DEF BootIn, BootOut, FirstSubmit
<1>3. CASE SetReady \/ AwaitSteady \/ ToBoot
  BY <1>1, <1>3 DEF SetReady, AwaitSteady, ToBoot, SetStatus
<1>4. CASE Reset \/ CheckLoop \/ ExitCheck
  BY <1>1, <1>4 DEF Reset, CheckLoop, ExitCheck
<1>5. CASE Enter
  BY <1>1, <1>5 DEF Enter, Entered
<1>6. CASE EventsReturn \/ DrainReturn
  BY <1>1, <1>6 DEF EventsReturn, DrainReturn
<1> QED
  BY <1>2, <1>3, <1>4, <1>5, <1>6 DEF Control

=============================================================================
