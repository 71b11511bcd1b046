----------------------------- MODULE Lifecycle ------------------------------
(***************************************************************************)
(* Who owns what, from the allocation of a device to the end of its        *)
(* program: ow_engine_init_from_device acquires a dozen things one after   *)
(* the other, any of which may fail, and its callers acquire some more.    *)
(* overwitch-play and overwitch-record do it once; a JACK client lives in  *)
(* a static structure that the service uses again for another device.      *)
(*                                                                         *)
(* Only resources are modelled here.  Engine, Player, Recorder and         *)
(* Resampler model what happens once everything is up.                     *)
(***************************************************************************)
EXTENDS Integers, Sequences

CONSTANT MaxSessions  \* bound: devices that one JACK client structure serves

ASSUME LifecycleAssumption == MaxSessions \in Nat \ {0}

Owners == {"play", "record", "jack"}

VARIABLES
  who,      \* whose engine it is
  lpc,      \* "engine", "owner", "failed" or "end"
  step,     \* the next step of the engine's or of the owner's initialisation
  held,     \* what is acquired and not released
  gone,     \* pointers to what has been freed, not overwritten since
  twice,    \* something was freed twice
  failed,   \* the step of the engine's initialisation that failed, or 0
  served   \* devices served

lvars == <<who, lpc, step, held, gone, twice, failed, served>>

-----------------------------------------------------------------------------
(***************************************************************************)
(* What each step acquires when it succeeds.                               *)
(***************************************************************************)
Transfers == {"xfr_audio_in", "xfr_audio_out", "xfr_control_in", "xfr_control_out"}

EngineSteps == <<
  {"context"},              \* libusb_init
  {"handle", "usb_device", "detached"},
                            \* libusb_open; the two kernel drivers are detached
  {},                       \* libusb_set_configuration
  {"interface_in"}, {},     \* libusb_claim_interface and its alternate setting
  {"interface_out"}, {},
  {}, {},                   \* libusb_clear_halt, twice
  {"xfr_audio_in"}, {"xfr_audio_out"}, {"xfr_control_in"}, {"xfr_control_out"},
  {"mem"} >>                \* ow_engine_init_mem

OpenStep   == 2   \* the step that opens the device
MemStep     == 14  \* the last step

OwnerSteps == [
  play   |-> << {"sf"}, {}, {} >>,   \* sf_open, the channels, ow_engine_start
  record |-> << {}, {"sf"}, {}, {"bufs"} >>,
                                     \* the tracks, sf_open, start, the buffers
  jack   |-> << {"client"}, {},      \* jack_client_open and the callbacks
                {"output_ports"}, {}, {"input_ports"}, {},
                {"rings"}, {"aux"} >> ]  \* the rings; ow_resampler_start

Usb == Transfers \union {"context", "handle", "usb_device", "interface_in",
                         "interface_out"}

Begun ==  \* allocated before the engine is initialised
  {"device", "engine"} \union IF who = "jack" THEN {"resampler"} ELSE {}

(* Mutant: jclient_run does not forget what the last session freed. *)
ForgottenByResampler == IF who = "jack" THEN {"aux"} ELSE {}

(* ow_resampler_init_from_device and jclient_run forget the pointers that  *)
(* their structures may hold from the session before.                      *)
Forgotten ==
  IF who = "jack" THEN {"aux", "rings", "output_ports", "input_ports"} ELSE {}

(* free and its like: a pointer that is null is skipped, and an interface  *)
(* is no pointer.                                                          *)
Free(S) ==
  /\ held' = held \ S
  /\ gone' = gone \union ((S \intersect held) \ {"interface_in", "interface_out"})
  /\ twice' = (twice \/ S \intersect gone # {})

-----------------------------------------------------------------------------
(* The state of a program that is at pc and has failed nowhere. *)
LifecycleAt(pc) ==
  /\ who \in Owners
  /\ lpc = pc
  /\ step = 1
  /\ held = IF pc = "end" THEN {} ELSE Begun
  /\ gone = {}
  /\ twice = FALSE
  /\ failed = 0
  /\ served = 1

LifecycleInit == LifecycleAt("engine")

(* ow_engine_init starts by forgetting the transfers.  The kernel drivers  *)
(* are attached again before the last step.                                *)
EngineStepDone ==
  /\ lpc = "engine"
  /\ step < MemStep
  /\ step' = step + 1
  /\ held' = (held \union EngineSteps[step]) \
               IF step = MemStep - 1 THEN {"detached"} ELSE {}
  /\ gone' = gone \ (EngineSteps[step] \union IF step = OpenStep THEN Transfers ELSE {})
  /\ UNCHANGED <<who, lpc, twice, failed, served>>

EngineReady ==
  /\ lpc = "engine"
  /\ step = MemStep
  /\ lpc' = "owner"
  /\ step' = 1
  /\ held' = held \union EngineSteps[MemStep]
  /\ gone' = gone \ (EngineSteps[MemStep] \union Forgotten)
  /\ UNCHANGED <<who, twice, failed, served>>

(* Mutant: a failed initialisation frees the device, as ow_engine_destroy. *)
EngineStepFailsWithDevice ==
  /\ lpc = "engine"
  /\ lpc' = "failed"
  /\ failed' = step
  /\ Free({"engine", "device"} \union IF step > OpenStep THEN Usb ELSE {})
  /\ UNCHANGED <<who, step, served>>

(* Until the device is open only the engine is freed; then usb_shutdown    *)
(* releases everything else.                                               *)
EngineStepFails ==
  /\ lpc = "engine"
  /\ lpc' = "failed"
  /\ failed' = step
  /\ Free({"engine"} \union IF step > OpenStep THEN Usb ELSE {})
  /\ UNCHANGED <<who, step, served>>

(* The device is still the owner's, and the resampler its creator's. *)
GiveUp ==
  /\ lpc = "failed"
  /\ lpc' = "end"
  /\ Free({"device"} \union IF who = "jack" THEN {"resampler"} ELSE {})
  /\ UNCHANGED <<who, step, failed, served>>

-----------------------------------------------------------------------------
OwnerStep ==
  /\ lpc = "owner"
  /\ step <= Len(OwnerSteps[who])
  /\ step' = step + 1
  /\ held' = held \union OwnerSteps[who][step]
  /\ gone' = gone \ OwnerSteps[who][step]
  /\ UNCHANGED <<who, lpc, twice, failed, served>>

(* sf_open may give null, and overwitch-record goes on with it. *)
NoFile ==
  /\ lpc = "owner"
  /\ who = "record"
  /\ step = 2
  /\ step' = step + 1
  /\ UNCHANGED <<who, lpc, held, gone, twice, failed, served>>

EngineDestroyed == Usb \union {"mem", "device", "engine"}

(* What the owner frees once its first step is done. *)
OwnerFrees == [
  play   |-> {"sf"},
  record |-> {"bufs", "sf"},
  jack   |-> {"rings", "client", "output_ports", "input_ports"} ]

(* Mutant: a client that JACK rejects keeps its resampler's buffers. *)
OwnerEndsKeepingAux ==
  /\ lpc = "owner"
  /\ lpc' = "end"
  /\ Free(EngineDestroyed
            \union (IF step = 1 THEN {} ELSE OwnerFrees[who])
            \union IF who = "jack" THEN {"resampler"} ELSE {})
  /\ UNCHANGED <<who, step, failed, served>>

(* The step that comes next fails, or all are done and the session ends:   *)
(* jclient_run frees what it acquired, ow_resampler_destroy the rest.      *)
OwnerEnds ==
  /\ lpc = "owner"
  /\ lpc' = "end"
  /\ Free(EngineDestroyed
            \union (IF step = 1 THEN {} ELSE OwnerFrees[who])
            \union IF who = "jack" THEN {"aux", "resampler"} ELSE {})
  /\ UNCHANGED <<who, step, failed, served>>

(* The service gives the structure another device.  What leaked before is  *)
(* out of reach.                                                           *)
NextSession ==
  /\ lpc = "end"
  /\ who = "jack"
  /\ served < MaxSessions
  /\ served' = served + 1
  /\ lpc' = "engine"
  /\ step' = 1
  /\ failed' = 0
  /\ held' = Begun
  /\ gone' = gone \ Begun
  /\ UNCHANGED <<who, twice>>

LifecycleOver == lpc = "end" /\ (who = "jack" => served = MaxSessions)

LifecycleNext ==
  \/ EngineStepDone \/ EngineReady \/ EngineStepFails \/ GiveUp
  \/ OwnerStep \/ NoFile \/ OwnerEnds \/ NextSession
  \/ LifecycleOver /\ UNCHANGED lvars

LifecycleSpec == LifecycleInit /\ [][LifecycleNext]_lvars

-----------------------------------------------------------------------------
Resources ==
  EngineDestroyed \union {"detached", "resampler", "aux"}
    \union UNION {OwnerFrees[o] : o \in Owners}

LifecycleTypeOK ==
  /\ who \in Owners
  /\ lpc \in {"engine", "owner", "failed", "end"}
  /\ step \in 1..MemStep
  /\ {held, gone} \subseteq SUBSET Resources
  /\ held \intersect gone = {}
  /\ twice \in BOOLEAN
  /\ failed \in 0..MemStep
  /\ served \in 1..MaxSessions

(* Whatever step fails, in whatever session, nothing is freed twice: the   *)
(* device passes from its owner to the engine only when the engine is      *)
(* complete, and what a structure still points at from a former session is *)
(* forgotten before it is freed again (engine.c:629-638, jclient.c:322).   *)
FreedOnce == ~twice

(* Nothing is left at the end, with two exceptions that are the code's:    *)
(* the libusb context of a device that was not found (engine.c:698) and    *)
(* the kernel drivers of a device whose initialisation failed, which stay  *)
(* detached (engine.c:549-550, 611-612).                                   *)
NothingLeft ==
  lpc = "end" =>
    held = IF failed = OpenStep THEN {"context"}
           ELSE IF failed \in OpenStep + 1..MemStep - 1 THEN {"detached"} ELSE {}

=============================================================================
