---------------------------- MODULE PlayerProofs ----------------------------
(***************************************************************************)
(* What holds of overwitch-play for files and transfers of every length,   *)
(* with or without signals and failures.                                   *)
(***************************************************************************)
EXTENDS Player, EngineProofs

USE DEF ERROR, STOP, READY, STEADY, BOOT, CLEAR, WAIT, RUN

(* Every frame read is in the out transfer or came back with one. *)
FramesKept ==
  /\ length \in Lengths
  /\ frames \in 0..length
  /\ {staged, played, lost} \subseteq Nat
  /\ staged <= FramesPerTransfer
  /\ cut \in BOOLEAN
  /\ frames = played + lost + staged

(* The out callback stages new frames only after the last ones came back. *)
StagedOnce == cb = "out" /\ cpc = "data" => staged = 0

(* What stops an engine whose play was not cut short is an empty file, and *)
(* by then no frame is on its way.                                         *)
StoppedByFile ==
  epc \notin PreReady /\ status <= STOP /\ ~cut => frames = length /\ staged = 0

PlayerInv ==
  /\ IInv
  /\ InOneHand
  /\ BootedOrStopped
  /\ FramesKept
  /\ StagedOnce
  /\ StoppedByFile

-----------------------------------------------------------------------------
(* Every step of the player is a step of the engine with some client, but  *)
(* for the out callback that stops the engine it runs in.                  *)
LEMMA EngineOrOutData == [PlayerNext]_allvars => [Next]_vars \/ PlayerOutData
<1> SUFFICES ASSUME [PlayerNext]_allvars PROVE [Next]_vars \/ PlayerOutData
  OBVIOUS
<1>1. CASE PlayerControl \/ Quiet(EventsReturn) \/ Quiet(DrainReturn) \/ PlayerCaller
  BY <1>1 DEF PlayerControl, PlayerCaller, Quiet, Next, EngineThread
<1>2. CASE (\E d \in Dirs : PlayerGiveBack(d)) \/ PlayerCallback
  BY <1>2
  DEF PlayerGiveBack, PlayerCallback, PlayerSubmit, Quiet, Next, EngineThread, Callback
<1>3. CASE Signal
  BY <1>3 DEF Signal, Stop, Next, Client
<1>4. CASE Over \/ UNCHANGED allvars
  BY <1>4 DEF Over, allvars
<1> QED
  BY <1>1, <1>2, <1>3, <1>4 DEF PlayerNext

(* What the out callback does to the engine. *)
LEMMA OutDataEffect ==
  ASSUME IInv, PlayerOutData
  PROVE  /\ UNCHANGED <<reading_at_h2o_end, inflight, refused, epc, cb, spc>>
         /\ epc \in {"events", "drain"} /\ cb = "out" /\ cpc = "data" /\ cpc' = "check"
         /\ status' = status \/ (status > STOP /\ status' = STOP)
         /\ status' \in Statuses
<1>1. status \in Statuses /\ status \in Int
  BY DEF IInv, TypeOK, Statuses
<1> QED
  BY <1>1
  DEF PlayerOutData, CallbackStep, IInv, CallbacksInLibusb, Stop, SetStatus, Statuses

(* It keeps what every client keeps, and the contract. *)
LEMMA OutDataStep ==
  ASSUME IInv, InOneHand, PlayerOutData
  PROVE  IInv' /\ InOneHand' /\ [Contract!Next]_(Contract!cvars)
<1>1. /\ UNCHANGED <<reading_at_h2o_end, inflight, refused, epc, cb, spc>>
      /\ epc \in {"events", "drain"} /\ cb = "out" /\ cpc = "data" /\ cpc' = "check"
      /\ status' = status \/ (status > STOP /\ status' = STOP)
      /\ status' \in Statuses
  BY OutDataEffect
<1>2. TypeOK /\ TypeOK'
  BY <1>1 DEF IInv, TypeOK, CallbackPcs
<1>3. Dll = FALSE
  BY PlayerAssumption
<1>4. IInv'
  BY <1>1, <1>2, <1>3
  DEF IInv, StartedOnce, FirstSubmissions, CallbacksInLibusb, SilentEntry,
      StreamSustained, WaitMeansSilent
<1>5. InOneHand'
  BY <1>1 DEF InOneHand
<1>6. epc \notin PreReady \union {"done"} /\ (status <= STOP => status' <= STOP)
  BY <1>1 DEF PreReady
<1>7. [Contract!Next]_(Contract!cvars)
  BY <1>1, <1>2, <1>6, QuietContract
<1> QED
  BY <1>4, <1>5, <1>7

(* A step that reads and plays nothing, and stops no engine, keeps the     *)
(* count of frames.                                                        *)
LEMMA QuietPlay ==
  ASSUME PlayerInv, UNCHANGED pvars,
         cb' = "out" /\ cpc' = "data" => cb = "out" /\ cpc = "data",
         epc' \notin PreReady /\ status' <= STOP => epc \notin PreReady /\ status <= STOP
  PROVE  FramesKept' /\ StagedOnce' /\ StoppedByFile'
  BY DEF PlayerInv, FramesKept, StagedOnce, StoppedByFile, pvars

(* The out callback reads no further than the end of the file.             *)
LEMMA ReadStep ==
  ASSUME PlayerInv, PlayerOutData
  PROVE  FramesKept' /\ StagedOnce' /\ StoppedByFile'
<1>1. /\ frames \in 0..length
      /\ staged = 0 /\ played \in Nat /\ lost \in Nat
      /\ cut \in BOOLEAN
      /\ frames = played + lost
      /\ length \in Lengths /\ length \in Nat /\ length' = length
      /\ FramesPerTransfer \in Nat
      /\ status \in Int
      /\ status' = status \/ (status > STOP /\ status' = STOP)
      /\ epc \notin PreReady
      /\ UNCHANGED <<epc, played, lost>>
      /\ cpc' = "check"
  BY PlayerAssumption, OutDataEffect
  DEF PlayerInv, FramesKept, StagedOnce, PlayerOutData, CallbackStep, IInv, TypeOK,
      Statuses, PreReady
<1>2. Wanted \in Nat /\ Wanted <= length - frames /\ Wanted <= FramesPerTransfer
  BY <1>1 DEF Wanted, Left
<1>3. PICK got \in 0..Wanted :
        /\ frames' = frames + got
        /\ staged' = got
        /\ cut' = (cut \/ got < Wanted)
        /\ IF OutOfFile(got) THEN Stop ELSE UNCHANGED status
  BY DEF PlayerOutData
<1>4. FramesKept'
  BY <1>1, <1>2, <1>3 DEF FramesKept
<1>5. StagedOnce'
  BY <1>1 DEF StagedOnce
<1>6. ASSUME status' <= STOP, ~cut'
      PROVE  frames' = length /\ staged' = 0
  <2>1. ~cut /\ got = Wanted
    <3>1. ~cut /\ ~(got < Wanted)
      BY <1>3, <1>6, Zenon
    <3> QED
      BY <1>2, <3>1
  <2>2. CASE OutOfFile(got)
    <3>1. length = frames
      BY <1>1, <1>2, <2>1, <2>2 DEF OutOfFile, Left
    <3> QED
      BY <1>1, <1>2, <1>3, <2>1, <3>1
  <2>3. CASE ~OutOfFile(got)
    <3>1. status <= STOP /\ ~cut
      BY <1>3, <1>6, <2>1, <2>3
    <3>2. frames = length
      BY <1>1, <3>1 DEF PlayerInv, StoppedByFile
    <3> QED
      BY <1>1, <1>2, <1>3, <3>2
  <2> QED
    BY <2>2, <2>3
<1>7. StoppedByFile'
  BY <1>1, <1>6 DEF StoppedByFile
<1> QED
  BY <1>4, <1>5, <1>7

(* What the player adds to the engine is kept by every step. *)
LEMMA OwnStep ==
  ASSUME PlayerInv, [PlayerNext]_allvars
  PROVE  BootedOrStopped' /\ FramesKept' /\ StagedOnce' /\ StoppedByFile'
<1>1. /\ status \in Int
      /\ BootedOrStopped /\ FramesKept /\ StagedOnce /\ StoppedByFile
      /\ epc \notin {"events", "drain"} => cb = "none"
      /\ cb = "none" <=> cpc = "idle"
      /\ spc = "init" => epc = "none"
  BY DEF PlayerInv, IInv, TypeOK, Statuses, CallbacksInLibusb, StartedOnce
<1>2. CASE PlayerControl \/ Quiet(EventsReturn) \/ Quiet(DrainReturn)
  <2>1. UNCHANGED pvars /\ (Control \/ EventsReturn \/ DrainReturn)
    BY <1>2 DEF PlayerControl, Quiet
  <2> QED
    BY <1>1, <2>1, ControlBooted, QuietPlay, PlayerAssumption DEF PlayerInv
<1>3. CASE PlayerCaller
  <2>1. /\ UNCHANGED <<pvars, status, cb, cpc>>
        /\ epc' = epc \/ (epc = "none" /\ epc' = "boot_in")
    BY <1>1, <1>3
    DEF PlayerCaller, Quiet, Caller, StartEngine, StartFails, PollStarted, JoinEngine, Owner,
        WaitEngine, DestroyEngine, thread
  <2>2. BootedOrStopped'
    BY <1>1, <2>1 DEF BootedOrStopped
  <2>3. epc' \notin PreReady /\ status' <= STOP => epc \notin PreReady /\ status <= STOP
    BY <2>1 DEF PreReady
  <2> QED
    BY <2>1, <2>2, <2>3, QuietPlay
<1>4. CASE Quiet(CbInData) \/ \E d \in Dirs : Quiet(CbCheck(d))
  <2>1. UNCHANGED <<pvars, status, epc>> /\ cpc' # "data"
    BY <1>4 DEF Quiet, CbInData, CbCheck, CallbackStep
  <2>2. BootedOrStopped'
    BY <1>1, <2>1 DEF BootedOrStopped
  <2> QED
    BY <2>1, <2>2, QuietPlay DEF PreReady
<1>5. CASE PlayerOutData
  <2>1. epc' = epc /\ (status' = status \/ status' = STOP)
    BY <1>5, OutDataEffect DEF PlayerInv
  <2>2. BootedOrStopped'
    BY <1>1, <2>1 DEF BootedOrStopped
  <2> QED
    BY <1>5, <2>2, ReadStep
<1>6. ASSUME NEW d \in Dirs, PlayerSubmit(d)
      PROVE  BootedOrStopped' /\ FramesKept' /\ StagedOnce' /\ StoppedByFile'
  <2>1. /\ UNCHANGED <<epc, length, frames, staged, played, lost>>
        /\ cpc' = "idle"
        /\ \/ status' = status
           \/ status > STOP /\ status' = ERROR /\ inflight' = inflight
    BY <1>1, <1>6 DEF PlayerSubmit, CbSubmit, CallbackStep, SetStatus
  <2>2. cut' \in BOOLEAN /\ (cut => cut') /\ (inflight' = inflight => cut')
    BY <1>1, <1>6, Zenon DEF PlayerSubmit, FramesKept
  <2> QED
    BY <1>1, <2>1, <2>2 DEF BootedOrStopped, FramesKept, StagedOnce, StoppedByFile, PreReady
<1>7. ASSUME NEW d \in Dirs, PlayerGiveBack(d)
      PROVE  BootedOrStopped' /\ FramesKept' /\ StagedOnce' /\ StoppedByFile'
  <2>1. /\ UNCHANGED <<status, epc, length, frames, cut>>
        /\ cb' = d
        /\ \/ d = "out" /\ staged' = 0 /\ played' = played + staged /\ lost' = lost
           \/ d = "out" /\ staged' = 0 /\ lost' = lost + staged /\ played' = played
           \/ d # "out" /\ UNCHANGED <<staged, played, lost>>
    BY <1>7 DEF PlayerGiveBack, GiveBack
  <2> QED
    BY <1>1, <2>1, PlayerAssumption
    DEF BootedOrStopped, FramesKept, StagedOnce, StoppedByFile, PreReady
<1>8. CASE Signal
  BY <1>1, <1>8
  DEF Signal, Stop, SetStatus, thread, BootedOrStopped, FramesKept, StagedOnce,
      StoppedByFile, PreReady
<1>9. CASE Over \/ UNCHANGED allvars
  BY <1>1, <1>9
  DEF Over, allvars, pvars, vars, thread, BootedOrStopped, FramesKept, StagedOnce,
      StoppedByFile, PreReady
<1> QED
  BY <1>2, <1>3, <1>4, <1>5, <1>6, <1>7, <1>8, <1>9 DEF PlayerNext, PlayerCallback

(* A player that has not started yet satisfies the invariant. *)
LEMMA InitPlayerInv == PlayerInit => PlayerInv
<1> SUFFICES ASSUME PlayerInit PROVE PlayerInv
  OBVIOUS
<1>1. IInv /\ InOneHand
  BY InitIInv, InitInOneHand DEF PlayerInit
<1>2. cut \in BOOLEAN
  BY Zenon DEF PlayerInit
<1>3. FramesKept
  BY <1>2, PlayerAssumption DEF PlayerInit, FramesKept
<1> QED
  BY <1>1, <1>3
  DEF PlayerInit, Init, PlayerInv, BootedOrStopped, StagedOnce, StoppedByFile, PreReady

(* Every step keeps the invariant and is a step of the contract. *)
LEMMA StepPlayerInv ==
  PlayerInv /\ [PlayerNext]_allvars => PlayerInv' /\ [Contract!Next]_(Contract!cvars)
<1> SUFFICES ASSUME PlayerInv, [PlayerNext]_allvars
             PROVE  PlayerInv' /\ [Contract!Next]_(Contract!cvars)
  OBVIOUS
<1>1. IInv /\ InOneHand /\ DrainsHalted
  BY DEF PlayerInv, BootedOrStopped, DrainsHalted
<1>2. CASE [Next]_vars
  <2>1. IInv' /\ InOneHand'
    BY <1>1, <1>2, StepIInv, StepInOneHand
  <2>2. [Contract!Next]_(Contract!cvars)
    BY <1>1, <1>2, <2>1, ContractStep
  <2> QED
    BY <2>1, <2>2, OwnStep DEF PlayerInv
<1>3. CASE PlayerOutData
  BY <1>1, <1>3, OutDataStep, OwnStep DEF PlayerInv
<1> QED
  BY <1>2, <1>3, EngineOrOutData

LEMMA PlayerInvariance == PlayerSpec => []PlayerInv
BY InitPlayerInv, StepPlayerInv, PTL DEF PlayerSpec

(* Every variable of the player keeps its type; no more frames are counted *)
(* than the file has.                                                      *)
THEOREM PlayerTypes == PlayerSpec => []PlayerTypeOK
<1>1. PlayerInv => PlayerTypeOK
  BY PlayerAssumption DEF PlayerInv, IInv, FramesKept, PlayerTypeOK
<1> QED
  BY <1>1, PlayerInvariance, PTL

(* A play that nothing cut short is over only when every frame of the file *)
(* has been in a transfer that came back.                                  *)
THEOREM WholeFileIsPlayed == PlayerSpec => []WholeFilePlayed
<1>1. PlayerInv => WholeFilePlayed
  <2> SUFFICES ASSUME PlayerInv, epc = "done", ~cut
               PROVE  played + lost = length
    BY DEF WholeFilePlayed
  <2>1. frames = length /\ staged = 0
    BY DEF PlayerInv, BootedOrStopped, StoppedByFile, PreReady
  <2> QED
    BY <2>1 DEF PlayerInv, FramesKept
<1> QED
  BY <1>1, PlayerInvariance, PTL

(* The engine of a player implements StreamContract, although it is        *)
(* stopped from inside its own callback.                                   *)
THEOREM PlayerKeepsContract == PlayerSpec => KeepsContract
<1>1. PlayerInit => Contract!Init
  BY InitContract DEF PlayerInit
<1>2. PlayerInv /\ [PlayerNext]_allvars => [Contract!Next]_(Contract!cvars)
  BY StepPlayerInv
<1> QED
  BY <1>1, <1>2, PlayerInvariance, PTL DEF PlayerSpec, KeepsContract, Contract!Spec

=============================================================================
