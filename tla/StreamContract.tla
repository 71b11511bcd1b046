--------------------------- MODULE StreamContract ---------------------------
(***************************************************************************)
(* What the engine promises to whoever starts it (src/src/overwitch.h:     *)
(* ow_engine_start, ow_engine_stop, ow_engine_wait), without its states    *)
(* and its locks.                                                          *)
(*                                                                         *)
(* A stream is off, then on, then halted, then over, and never goes back.  *)
(* Transfers are handed to the device and come back one by one.  After the *)
(* halt the engine may still hand over one transfer, the one whose         *)
(* callback had already looked at the status; over means that the engine   *)
(* thread has ended and touches no transfer any more.                      *)
(***************************************************************************)
CONSTANT Transfers

VARIABLES
  phase,     \* "off", "on", "halted" or "over"
  atDevice,  \* transfers that the device holds
  late       \* one transfer may still be handed over after the halt

cvars == <<phase, atDevice, late>>

Init ==
  /\ phase = "off"
  /\ atDevice = {}
  /\ late = FALSE

HandOver(t) ==
  /\ phase \in {"off", "on"} \/ (phase = "halted" /\ late)
  /\ t \in Transfers \ atDevice
  /\ atDevice' = atDevice \union {t}
  /\ late' = FALSE
  /\ UNCHANGED phase

TakeBack(t) ==
  /\ phase \in {"on", "halted"}
  /\ ~late
  /\ t \in atDevice
  /\ atDevice' = atDevice \ {t}
  /\ UNCHANGED <<phase, late>>

GoOn ==
  /\ phase = "off"
  /\ phase' = "on"
  /\ UNCHANGED <<atDevice, late>>

Halt ==
  /\ phase = "on"
  /\ phase' = "halted"
  /\ late' \in BOOLEAN
  /\ UNCHANGED atDevice

GiveUp ==
  /\ late
  /\ late' = FALSE
  /\ UNCHANGED <<phase, atDevice>>

End ==
  /\ phase = "halted"
  /\ ~late
  /\ phase' = "over"
  /\ UNCHANGED <<atDevice, late>>

Next ==
  \/ \E t \in Transfers : HandOver(t) \/ TakeBack(t)
  \/ GoOn \/ Halt \/ GiveUp \/ End

Spec == Init /\ [][Next]_cvars
=============================================================================
