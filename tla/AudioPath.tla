----------------------------- MODULE AudioPath -----------------------------
(***************************************************************************)
(* The audio between a JACK client and its device: two rings, each filled  *)
(* by one thread and read by the other.                                    *)
(*                                                                         *)
(*   o2h  set_usb_input_data_blks (engine.c)  ->  resampler_o2h_reader     *)
(*   h2o  ow_resampler_write_audio  ->  set_usb_output_data_blks           *)
(*                                                                         *)
(* Nobody ever stops both threads to empty a ring.  The resampler drains   *)
(* o2h and asks the engine to clear; the engine, when it comes round,      *)
(* drains h2o.  This module is about what survives that.  It counts        *)
(* frames and tells those of a former run of the engine from the others;   *)
(* the handshake and the end of a session are the matter of Resampler,     *)
(* and the two status words have only the values of a live session.        *)
(***************************************************************************)
EXTENDS Integers, FiniteSetsExt

CONSTANTS
  Transfer,  \* engine->frames_per_transfer
  BufSize,   \* resampler->bufsize, JACK's period
  Ring,      \* MAX_LATENCY: frames that a ring holds
  MaxRead,   \* MAX_READ_FRAMES, the most that the reader hands over at once
  Resampled  \* frames that a JACK period may become at the device's rate

(* A ring holds what its reader waits for, wherever the writer gives up.   *)
ASSUME AudioPathAssumption ==
  /\ {Transfer, BufSize, Ring, MaxRead} \subseteq Nat \ {0}
  /\ Resampled \subseteq Nat \ {0}
  /\ BufSize + Transfer <= Ring + 1
  /\ \A n \in Resampled : Transfer + n <= Ring + 1

VARIABLES
  status,       \* engine->status: BOOT, CLEAR, WAIT or RUN
  epc,          \* "loop" in the event loop, "clear" between laps
  cb,           \* where the callback is that the engine thread runs
  rs,           \* rsh2o, a local of set_usb_output_data_blks
  reading_h2o,  \* engine->reading_at_h2o_end
  h2o_max,      \* engine->latency_h2o_max
  o2h_max,      \* engine->latency_o2h_max
  rstatus,      \* resampler->status; TUNE is every status below RUN
  jpc,          \* where the JACK thread is
  reading_o2h,  \* resampler->reading_at_o2h_end
  o2h, h2o      \* the rings

engine == <<status, epc, cb, rs, reading_h2o, h2o_max, o2h_max>>
host   == <<rstatus, jpc, reading_o2h>>
vars   == <<engine, host, o2h, h2o>>

-----------------------------------------------------------------------------
(***************************************************************************)
(* Rings.  "old" frames were written before the engine last began a lap    *)
(* of its loop; they are the first to be read.                             *)
(***************************************************************************)
Rings == [old : 0..Ring, new : 0..Ring]

Empty == [old |-> 0, new |-> 0]

Filled(r) == r.old + r.new

Read(r, n) ==
  IF n <= r.old
    THEN [r EXCEPT !.old = @ - n]
    ELSE [old |-> 0, new |-> Filled(r) - n]

(* A write that does not fit is discarded as a whole. *)
Write(r, n) == IF Filled(r) + n <= Ring THEN [r EXCEPT !.new = @ + n] ELSE r

Aged(r) == [old |-> Filled(r), new |-> 0]

(* engine->latency_o2h_min and latency_h2o_min *)
LatencyMin == Transfer

(* The whole periods among n frames (ow_bytes_to_frame_bytes). *)
WholePeriods(n) == (n \div BufSize) * BufSize

(* state->f_latency_..._min and _max, as ow_resampler_set_latency reports  *)
(* them and jclient_set_latency_cb hands them to JACK.                     *)
Reported(max) ==
  [min |-> Max({LatencyMin, BufSize}), max |-> Max({max, BufSize})]

Init ==
  /\ status = "WAIT"
  /\ epc = "loop"
  /\ cb = "idle"
  /\ rs = 0
  /\ reading_h2o = FALSE
  /\ h2o_max = LatencyMin
  /\ o2h_max = LatencyMin
  /\ rstatus = "TUNE"
  /\ jpc = "idle"
  /\ reading_o2h = FALSE
  /\ o2h = Empty
  /\ h2o = Empty

-----------------------------------------------------------------------------
(***************************************************************************)
(* The in callback: set_usb_input_data_blks.                               *)
(***************************************************************************)
CallbackStep(from, to) ==
  /\ epc = "loop"
  /\ cb = from
  /\ cb' = to
  /\ UNCHANGED <<status, epc, reading_h2o, h2o_max, host>>

(* It looks at the status and then decodes the blocks; whether it goes on  *)
(* to write is decided now.                                                *)
InStart ==
  /\ CallbackStep("idle", IF status = "RUN" THEN "in" ELSE "idle")
  /\ UNCHANGED <<rs, o2h_max, o2h, h2o>>

(* Mutant: the transfer is written without looking at the space left. *)
InWriteBlindly ==
  /\ CallbackStep("in", "latency")
  /\ o2h' = [o2h EXCEPT !.new = @ + Transfer]
  /\ UNCHANGED <<rs, o2h_max, h2o>>

InWrite ==
  /\ CallbackStep("in", "latency")
  /\ o2h' = Write(o2h, Transfer)
  /\ UNCHANGED <<rs, o2h_max, h2o>>

(* Mutant: the maximum becomes whatever was measured last. *)
InLatencyLast ==
  /\ CallbackStep("latency", "idle")
  /\ o2h_max' = Filled(o2h)
  /\ UNCHANGED <<rs, o2h, h2o>>

InLatency ==
  /\ CallbackStep("latency", "idle")
  /\ o2h_max' = Max({o2h_max, Filled(o2h)})
  /\ UNCHANGED <<rs, o2h, h2o>>

-----------------------------------------------------------------------------
(***************************************************************************)
(* The out callback: set_usb_output_data_blks.  JACK may write between the *)
(* look at the ring and what follows from it.                              *)
(***************************************************************************)
OutStart ==
  /\ CallbackStep("idle", "out")
  /\ rs' = Filled(h2o)
  /\ UNCHANGED <<o2h_max, o2h, h2o>>

OutStep ==
  /\ cb = "out"
  /\ epc = "loop"
  /\ cb' = "idle"
  /\ rs' = 0
  /\ UNCHANGED <<status, epc, host, o2h>>

(* Mutant: the ring is emptied, and the flag is forgotten. *)
OutBeginForgetting ==
  /\ ~reading_h2o
  /\ rs >= Transfer /\ status = "RUN"
  /\ OutStep
  /\ h2o' = Read(h2o, rs)
  /\ UNCHANGED <<reading_h2o, h2o_max, o2h_max>>

(* What JACK wrote so far is thrown away, then reading begins. *)
OutBegin ==
  /\ ~reading_h2o
  /\ rs >= Transfer /\ status = "RUN"
  /\ OutStep
  /\ h2o' = Read(h2o, rs)
  /\ reading_h2o' = TRUE
  /\ UNCHANGED <<h2o_max, o2h_max>>

OutHold ==
  /\ ~reading_h2o
  /\ ~(rs >= Transfer /\ status = "RUN")
  /\ OutStep
  /\ UNCHANGED <<reading_h2o, h2o_max, o2h_max, h2o>>

OutReading ==
  /\ reading_h2o
  /\ OutStep
  /\ h2o_max' = Max({h2o_max, rs})
  /\ UNCHANGED reading_h2o

OutTransfer ==
  /\ rs >= Transfer
  /\ OutReading
  /\ h2o' = Read(h2o, Transfer)
  /\ UNCHANGED o2h_max

(* Too little for a transfer is stretched to one.  It is the maximum of    *)
(* the other direction that starts again (engine.c:290).                   *)
OutStretch ==
  /\ 1 < rs /\ rs < Transfer
  /\ OutReading
  /\ h2o' = Read(h2o, rs)
  /\ o2h_max' = LatencyMin

OutSilence ==
  /\ rs <= 1 /\ rs < Transfer
  /\ OutReading
  /\ UNCHANGED <<o2h_max, h2o>>

-----------------------------------------------------------------------------
(***************************************************************************)
(* run_audio, between two laps of its loop.                                *)
(***************************************************************************)

(* The loop ends and the h2o ring is emptied. *)
LeaveLoop ==
  /\ epc = "loop" /\ cb = "idle"
  /\ status \in {"BOOT", "CLEAR"}
  /\ epc' = "clear"
  /\ h2o' = Empty
  /\ UNCHANGED <<status, cb, rs, reading_h2o, h2o_max, o2h_max, host, o2h>>

(* A clear ends in RUN; after a reset the engine waits to be told. *)
Entered(s) ==
  IF s = "CLEAR" THEN "RUN" ELSE IF s = "BOOT" THEN "WAIT" ELSE s

(* Mutant: a new lap goes on reading where the last one was. *)
EnterLoopReading ==
  /\ epc = "clear"
  /\ epc' = "loop"
  /\ h2o_max' = LatencyMin
  /\ o2h_max' = LatencyMin
  /\ status' = Entered(status)
  /\ o2h' = Aged(o2h)
  /\ h2o' = Aged(h2o)
  /\ UNCHANGED <<cb, rs, reading_h2o, host>>

EnterLoop ==
  /\ epc = "clear"
  /\ epc' = "loop"
  /\ reading_h2o' = FALSE
  /\ h2o_max' = LatencyMin
  /\ o2h_max' = LatencyMin
  /\ status' = Entered(status)
  /\ o2h' = Aged(o2h)
  /\ h2o' = Aged(h2o)
  /\ UNCHANGED <<cb, rs, host>>

-----------------------------------------------------------------------------
(***************************************************************************)
(* The JACK thread.  A cycle is ow_resampler_compute_ratios, reading and   *)
(* writing.                                                                *)
(***************************************************************************)
JackStep(from, to) ==
  /\ jpc = from
  /\ jpc' = to
  /\ UNCHANGED <<epc, cb, rs, reading_h2o, h2o_max>>

(* compute_ratios leaves both statuses alone, or notifies or boots. *)
Steady ==
  /\ JackStep("idle", "read")
  /\ UNCHANGED <<status, o2h_max, rstatus, reading_o2h, o2h, h2o>>

(* The loop is tuned.  The resampler got to TUNE through WAIT; Lockstep in *)
(* module Resampler says that the engine is still there.                   *)
StartRunning ==
  /\ \/ rstatus = "TUNE" /\ status = "WAIT"
     \/ rstatus = "RETUNE"
  /\ JackStep("idle", "drain")
  /\ status' = "RUN"
  /\ rstatus' = "RUN"
  /\ UNCHANGED <<o2h_max, reading_o2h, o2h, h2o>>

Retune ==
  /\ rstatus = "RUN"
  /\ JackStep("idle", "drain")
  /\ rstatus' = "RETUNE"
  /\ UNCHANGED <<status, o2h_max, reading_o2h, o2h, h2o>>

(* jclient_set_sample_rate_cb and ow_resampler_reset *)
SetSampleRate ==
  /\ JackStep("idle", "drain")
  /\ status' = "BOOT"
  /\ rstatus' = "TUNE"
  /\ UNCHANGED <<o2h_max, reading_o2h, o2h, h2o>>

(* Mutant: the resampler goes on reading. *)
DrainReading ==
  /\ JackStep("drain", "clear")
  /\ o2h' = Empty
  /\ UNCHANGED <<status, o2h_max, rstatus, reading_o2h, h2o>>

(* ow_resampler_clear_buffers *)
Drain ==
  /\ JackStep("drain", "clear")
  /\ reading_o2h' = FALSE
  /\ o2h' = Empty
  /\ UNCHANGED <<status, o2h_max, rstatus, h2o>>

(* Its call of ow_engine_clear_buffers.  A cycle goes on with the audio, a *)
(* reset is over.                                                          *)
Clear ==
  /\ JackStep("clear", IF rstatus = "TUNE" THEN "idle" ELSE "read")
  /\ status' = IF status = "RUN" THEN "CLEAR" ELSE status
  /\ UNCHANGED <<o2h_max, rstatus, reading_o2h, o2h, h2o>>

-----------------------------------------------------------------------------
(***************************************************************************)
(* resampler_o2h_reader, called by the sample rate converter as often as   *)
(* it needs frames for one period.                                         *)
(***************************************************************************)
PullStep(to) ==
  /\ JackStep("read", to)
  /\ UNCHANGED <<status, rstatus, h2o>>

PullFrames(to) ==
  /\ reading_o2h
  /\ Filled(o2h) > 0
  /\ PullStep(to)
  /\ o2h' = Read(o2h, Min({MaxRead, Filled(o2h)}))
  /\ UNCHANGED <<reading_o2h, o2h_max>>

(* Nothing to read: what o2h_buf_in holds is handed over again. *)
PullUnderflow(to) ==
  /\ reading_o2h
  /\ Filled(o2h) = 0
  /\ PullStep(to)
  /\ o2h_max' = LatencyMin
  /\ UNCHANGED <<reading_o2h, o2h>>

(* Mutant: whole periods are thrown away, and the flag is forgotten. *)
PullBeginForgetting(to) ==
  /\ ~reading_o2h
  /\ Filled(o2h) >= BufSize
  /\ PullStep(to)
  /\ o2h' = Read(o2h, WholePeriods(Filled(o2h)))
  /\ UNCHANGED <<reading_o2h, o2h_max>>

(* Whole periods are thrown away, then reading begins. *)
PullBegin(to) ==
  /\ ~reading_o2h
  /\ Filled(o2h) >= BufSize
  /\ PullStep(to)
  /\ o2h' = Read(o2h, WholePeriods(Filled(o2h)))
  /\ reading_o2h' = TRUE
  /\ UNCHANGED o2h_max

PullHold(to) ==
  /\ ~reading_o2h
  /\ Filled(o2h) < BufSize
  /\ PullStep(to)
  /\ UNCHANGED <<reading_o2h, o2h_max, o2h>>

Pull(to) ==
  PullFrames(to) \/ PullUnderflow(to) \/ PullBegin(to) \/ PullHold(to)

(* ow_resampler_write_audio *)
WriteAudio ==
  /\ JackStep("write", "idle")
  /\ IF rstatus = "TUNE" THEN UNCHANGED h2o
     ELSE \E n \in Resampled : h2o' = Write(h2o, n)
  /\ UNCHANGED <<status, o2h_max, rstatus, reading_o2h, o2h>>

-----------------------------------------------------------------------------
OutAct == OutBegin \/ OutHold \/ OutTransfer \/ OutStretch \/ OutSilence

EngineThread == InWrite \/ InLatency \/ OutAct \/ LeaveLoop \/ EnterLoop

Cycle ==
  \/ Steady \/ StartRunning \/ Retune \/ Drain \/ Clear
  \/ Pull("write") \/ WriteAudio

Next ==
  \/ InStart
  \/ OutStart
  \/ EngineThread
  \/ Cycle
  \/ Pull("read")
  \/ SetSampleRate

Spec == Init /\ [][Next]_vars

(* Both threads are scheduled, the converter stops asking once it has a    *)
(* period, and transfers come back in both directions.                     *)
Fairness ==
  /\ WF_vars(EngineThread)
  /\ WF_vars(Cycle)
  /\ SF_vars(InStart)
  /\ SF_vars(OutStart)

FairSpec == Spec /\ Fairness

-----------------------------------------------------------------------------
TypeOK ==
  /\ status \in {"BOOT", "CLEAR", "WAIT", "RUN"}
  /\ epc \in {"loop", "clear"}
  /\ cb \in {"idle", "in", "latency", "out"}
  /\ {o2h, h2o} \subseteq Rings
  /\ {Filled(o2h), Filled(h2o), rs} \subseteq 0..Ring
  /\ {o2h_max, h2o_max} \subseteq 0..Ring
  /\ {reading_h2o, reading_o2h} \subseteq BOOLEAN
  /\ rstatus \in {"TUNE", "RUN", "RETUNE"}
  /\ jpc \in {"idle", "drain", "clear", "read", "write"}

(* Once a lap of the engine sends audio to the device, the ring holds      *)
(* nothing that JACK wrote before that lap: neither a retune nor a reset   *)
(* lets the tail of the former run be heard, although JACK keeps writing   *)
(* while the engine clears (engine.c:216-230, 848-850).                    *)
NoFormerAudio == reading_h2o => h2o.old = 0

(* The other way some of it may be: the in callback writes what it decided *)
(* to write before the clear, and only whole periods are thrown away.  It  *)
(* is less than a period and a transfer (engine.c:135, resampler.c:311).   *)
FormerAudioBounded ==
  jpc = "read" /\ reading_o2h => o2h.old < BufSize + Transfer

(* The latency range that JACK is told is never empty, whatever the two    *)
(* threads reset and raise, one of them without the lock (engine.c:797).   *)
LatencyRange ==
  \A max \in {o2h_max, h2o_max} : Reported(max).min <= Reported(max).max

(* Audio flows in both directions, unless the engine is cleared or reset   *)
(* again: neither reader waits for a fill that the writer never reaches,   *)
(* nor for a writer that waits for it.                                     *)
AudioReachesDevice ==
  (status = "RUN" /\ rstatus # "TUNE") ~> (reading_h2o \/ status # "RUN")

AudioReachesHost ==
  (status = "RUN" /\ rstatus # "TUNE") ~> (reading_o2h \/ status # "RUN")

=============================================================================
