------------------------------- MODULE Player -------------------------------
(***************************************************************************)
(* overwitch-play (src/src/main-play.c): an engine without a resampler     *)
(* whose h2o buffer is an audio file.  The engine thread reads the file in *)
(* its out callback and stops the engine itself when nothing is left; a    *)
(* signal stops it from outside.                                           *)
(***************************************************************************)
EXTENDS Engine

CONSTANTS
  Lengths,           \* how many frames the file may have
  FramesPerTransfer, \* engine->frames_per_transfer
  Signals,           \* SIGINT and its like may arrive
  Faults             \* transfers, submissions and file reads may fail

ASSUME PlayerAssumption ==
  /\ Dll = FALSE
  /\ H2O = TRUE
  /\ Lengths \subseteq Nat
  /\ FramesPerTransfer \in Nat \ {0, 1}
  /\ Signals \in BOOLEAN
  /\ Faults \in BOOLEAN

VARIABLES
  length,   \* sfinfo.frames
  frames,   \* frames read from the file so far
  staged,   \* file frames in the buffer of the out transfer
  played,   \* history: file frames that a completed transfer carried
  lost,     \* history: file frames that a failed transfer carried
  cut       \* history: a signal, a short read or an error cut the play short

pvars    == <<length, frames, staged, played, lost, cut>>
allvars  == <<vars, pvars>>

PlayerInit ==
  /\ Init
  /\ length \in Lengths
  /\ frames = 0
  /\ staged = 0
  /\ played = 0
  /\ lost = 0
  /\ cut = FALSE

Left == length - frames  \* buffer_read_space, in frames

-----------------------------------------------------------------------------
(* The out transfer comes back: its audio was played, or lost. *)
PlayerGiveBack(d) ==
  /\ GiveBack(d)
  /\ UNCHANGED <<length, frames, cut>>
  /\ IF d = "out"
       THEN /\ staged' = 0
            /\ \/ /\ played' = played + staged
                  /\ UNCHANGED lost
               \/ /\ Faults
                  /\ lost' = lost + staged
                  /\ UNCHANGED played
       ELSE UNCHANGED <<staged, played, lost>>

(* Mutant: a whole transfer is read whatever is left. *)
WantedWhole == IF Left > 0 THEN FramesPerTransfer ELSE 0

(* What set_usb_output_data_blks asks of the file: a whole transfer, or    *)
(* the rest to be stretched over one, or nothing if one frame is left.     *)
Wanted == CASE Left >= FramesPerTransfer             -> FramesPerTransfer
            [] 1 < Left /\ Left < FramesPerTransfer  -> Left
            [] Left <= 1                             -> 0

(* Mutant: the engine is stopped as soon as the last frames are read. *)
OutOfFileEagerly(got) == Left = got \/ got < Wanted

(* Mutant: only a short read stops the engine. *)
ShortFile(got) == got < Wanted

(* buffer_read_space finds nothing left, or buffer_read a short file. *)
OutOfFile(got) == Left = 0 \/ got < Wanted

(* The out callback: "got" frames come out of the file.  Without a         *)
(* resampler reading_at_h2o_end is set before the first callback.          *)
PlayerOutData ==
  /\ CallbackStep("out", "data", "check")
  /\ reading_at_h2o_end
  /\ UNCHANGED <<reading_at_h2o_end, inflight, length, played, lost>>
  /\ \E got \in 0..Wanted :
       /\ got < Wanted => Faults
       /\ frames' = frames + got
       /\ staged' = got
       /\ cut' = (cut \/ got < Wanted)
       /\ IF OutOfFile(got) THEN Stop ELSE UNCHANGED status

PlayerSubmit(d) ==
  /\ CbSubmit(d)
  /\ inflight' = inflight => Faults
  /\ cut' = (cut \/ inflight' = inflight)
  /\ UNCHANGED <<length, frames, staged, played, lost>>

Signal ==  \* signal_handler of main-play.c
  /\ Signals
  /\ spc # "closed"
  /\ Stop
  /\ cut' = TRUE
  /\ UNCHANGED <<thread, spc, length, frames, staged, played, lost>>

Quiet(A) == A /\ UNCHANGED pvars

PlayerControl == Quiet(Control) /\ (refused' # refused => Faults)

(* run_play: every way out of it destroys the engine. *)
PlayerCaller == Quiet(Caller \/ Owner) /\ (spc' # spc /\ spc' = "failed" => Faults)

PlayerCallback ==
  \/ Quiet(CbInData)
  \/ PlayerOutData
  \/ \E d \in Dirs : Quiet(CbCheck(d)) \/ PlayerSubmit(d)

Over == spc = "closed" /\ UNCHANGED allvars

PlayerNext ==
  \/ PlayerControl
  \/ Quiet(EventsReturn)
  \/ Quiet(DrainReturn)
  \/ \E d \in Dirs : PlayerGiveBack(d)
  \/ PlayerCallback
  \/ PlayerCaller
  \/ Signal
  \/ Over

PlayerSpec == PlayerInit /\ [][PlayerNext]_allvars

(* Both threads are scheduled, libusb calls return, and a transfer at the  *)
(* device comes back: completed, or by its timeout.                        *)
PlayerFairness ==
  /\ WF_allvars(PlayerControl)
  /\ SF_allvars(Quiet(EventsReturn))
  /\ SF_allvars(Quiet(DrainReturn))
  /\ WF_allvars(PlayerCallback)
  /\ \A d \in Dirs : SF_allvars(PlayerGiveBack(d))
  /\ WF_allvars(PlayerCaller)

PlayerFairSpec == PlayerSpec /\ PlayerFairness

-----------------------------------------------------------------------------
PlayerTypeOK ==
  /\ TypeOK
  /\ length \in Lengths
  /\ frames \in 0..length
  /\ staged \in 0..FramesPerTransfer
  /\ {played, lost} \subseteq 0..length
  /\ cut \in BOOLEAN

(* When nothing cut the play short, the engine thread ends only after      *)
(* every frame of the file has been in a transfer that came back: the stop *)
(* made from inside the out callback (main-play.c:61) does not overtake    *)
(* the last transfer.                                                      *)
WholeFilePlayed ==
  epc = "done" /\ ~cut /\ refused = {} => played + lost = length

(* The player ends by itself, whatever fails on the way: the frames of the *)
(* file run out and buffer_read_space stops the engine (main-play.c:56).   *)
(* There are two exceptions.  The very first out submission is refused, so *)
(* that no out callback ever runs; or one single frame is left, which      *)
(* set_usb_output_data_blks does not take (engine.c:258) and               *)
(* buffer_read_space does not take for the end of the file: the player     *)
(* then sends silence until a signal comes.                                *)
PlayEnds == <>(epc = "done" \/ spc = "closed" \/ "out" \in refused \/ Left = 1)

(* The player plays the file it is given (README.md:271): every frame is in *)
(* a transfer that the device took.                                        *)
PlaysFile == <>(played = length)

=============================================================================
