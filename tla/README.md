# Overwitch in TLA+

Overwitch connects Elektron Overbridge devices (USB, 48 kHz,
blocks of 7 frames) to JACK.  This directory holds TLA+
specifications of its concurrent core, TLC configurations that check them on
small instances, and theorems checked by TLAPS.  All file names below are
relative to `src/src/` unless they say otherwise; `PROJECT.json` maps every
definition to the lines it models.

Run a check with `tlc -config MCPlayer.cfg MCPlayer`, and a proof with
`tlapm EngineProofs.tla`.

## 1. The system

| Part | State | Operations | Talks to |
| --- | --- | --- | --- |
| **Engine** (`engine.c`) | `status` under a spin lock, two USB transfers, `reading_at_h2o_end`, the audio blocks, latencies | `ow_engine_start/stop/wait/destroy`, `ow_engine_get/set_status`, `ow_engine_clear_buffers`; thread `run_audio`; callbacks `cb_xfr_audio_in/out` | libusb; its owner through `struct ow_context` (function pointers for the two buffers) |
| **Resampler** (`resampler.c`) | `status` (a second one), auxiliary buffers, `h2o_queue`, reading flag, latencies, reported state | `ow_resampler_compute_ratios`, `_read_audio`, `_write_audio`, `_reset`, `_set_buffer_size`, `_set_samplerate`, `_start/stop/wait` | the engine, through its status; JACK through the client |
| **Delay-locked loop** (`dll.c`) | counters and a filter | updates from both sides, `ow_dll_tuned` | engine thread and JACK thread |
| **JACK client** (`jclient.c`) | ports, rings, `running`, xrun flag | `jclient_init/start/stop/wait/destroy`, `jclient_run`; JACK callbacks (process, xrun, shutdown, freewheel, buffer size, sample rate) | resampler, JACK |
| **Player** (`main-play.c`) | a sound file, frames left | `run_play`, `buffer_read(_space)`, signal handler | engine without resampler, host to device |
| **Recorder** (`main-record.c`) | two buffers, their status under a spin lock, the file | `run_record`, `buffer_write`, `dump_buffer`, signal handler | engine without resampler, device to host |
| **Service** (`main-service.c`) | pool of 64 clients, `force_stop`, `hotplug_running`, one spin lock | D-Bus `Start Stop Exit GetState SetDeviceName`, signals, hotplug | JACK clients, libusb hotplug, D-Bus |
| **CLI** (`main-cli.c`) | `stop`, `running`, a spin lock, one client | `run_jclient`, `rename_device`, signal handler | JACK client; an engine without audio |
| **GUI** (`main.c`, `overwitch_device.c`) | the timer `source_id`, `devices`, the widgets | handlers of the window and of its dialog; `refresh_state` every two seconds | the service over D-Bus; the preferences file |
| **Preferences** (`preferences.c`) | a JSON file | load, save | GUI and service |
| **Discovery** (`overwitch.c`) | the list being built, its next slot | `ow_get_device_list`, `ow_get_device_desc` | libusb; the descriptions in three places |
| **Messages, helpers** (`message.c`, `common.c`, `utils.c`) | none that outlives a call | parsing and formatting | JSON, command lines |

How the parts interact, and what is hard about it:

* **Two state machines without a common lock.**  The engine's status
  (READY STEADY BOOT CLEAR WAIT RUN, or STOP and ERROR) and the resampler's
  (READY BOOT TUNE RUN RETUNE) advance in turns: the engine waits for the
  resampler (STEADY), the resampler for the engine (WAIT), the engine again
  (RUN).  Each side reads the other's status in one critical section and acts
  in a later one.  Anyone may write STOP in between; a buffer size change sends
  the machine back to the start.
* **Callbacks inside a libusb call.**  A transfer's callback works in several
  critical sections (clock and status, data, status, submission).  A stop may
  fall between any two.
* **Start, stop, wait.**  `ow_engine_start` polls a status that others change;
  a stop before READY is overwritten.
* **The recorder** has three threads around two buffers and one status word.
* **What is acquired** comes in a dozen steps, each of which may fail, and a
  JACK client's structure is used again for the next device.
* **Signals** run on top of whatever thread they interrupt, take a spin lock,
  and call functions that take another one.
* **The window** acts on what it last heard of a service that changes, starts
  and dies by itself, and that may be busy for longer than a call waits.
* **The service** has one runner per client, one hotplug thread, and a main
  thread, with one spin lock that the runner unlocks without having locked it.
  Its signal handlers stop and start everything on top of a method that may be
  half way through the same.

What makes each part correct:

* Engine: a stop is final and ends the thread; a live status means a live
  stream; no host audio is consumed while the resampler tunes; after the halt
  at most one more transfer goes out.
* Resampler: the two machines stay in lockstep; neither handshake blocks; the
  session comes down whoever ends it.
* Player: the whole file is played before the engine stops itself; it ends,
  but for two cases that are named.
* Recorder: what was received is in the file, once and in order; Ctrl+C ends
  it.
* Everything that is acquired is freed, once, whatever fails.
* CLI: a stop reaches the client whenever it comes; a rename ends.
* GUI: one timer at most; the button tells the truth; clients have the
  preferences that were saved.
* Discovery: a description is whole and of that device, and the one that is
  shipped is the last resort.
* Service: a slot is reused only after its thread was joined; every critical
  section releases the lock; Stop leaves nothing running.

## 2. The modules

```
StreamContract            what the engine promises (abstract)
     ^ KeepsContract (refinement)
Engine                    run_audio, the transfers, the status, any client
  |-- Player              + the sound file            (overwitch-play)
  |-- Recorder            + two buffers, disk thread  (overwitch-record)
  |-- Rename              + a control transfer         (overwitch-cli -r)
  |-- Resampler           + resampler, JACK client
  |-- EngineProofs        theorems for any client, extended by ResamplerProofs,
                          PlayerProofs and RecorderProofs
AudioPath                 the two rings; its status words are those of Resampler
  |-- AudioPathProofs
Service                   pool of clients; a client is an abstraction of Resampler
  |-- ServiceProofs
Lifecycle                 what engines and their owners acquire and free
H2OQueue                  h2o_queue between JACK and the converter
  |-- QueueProofs
Cli                       overwitch-cli and its signal handlers; a client as in Service
Gui                       the window and the preferences; the service as its callers see it
Discovery                 the list of devices and their descriptions
MCPrograms                Recorder, Rename, Lifecycle, Cli, Gui, Discovery, H2OQueue
  |-- ProgramsProofs      Cli, Gui, Lifecycle, Discovery, Rename; all types
MC*                       one per component that runs alone, with its .cfg files
```

`Player`, `Recorder` and `Resampler` EXTEND `Engine`: they take its actions as
they are and replace its arbitrary client by their own threads.  The
constants `Dll` (the context has a delay-locked loop) and `H2O` (it has a host
to device direction) choose the branches that `engine.c` takes for each.

### Engine

Variables: `status`; `epc`, the place in `run_audio`; `spc`, the place of the
thread that calls start, wait and destroy; `inflight`, the transfers that the
device has; `refused`, those whose very first submission failed (history);
`cb` and `cpc`, the callback that runs and where it is; `reading_at_h2o_end`.

A critical section is one action, so the lock is not a variable.  An action of
`run_audio` stands for the code from one access to shared state to the next:
`BootIn`, `BootOut` (the two first submissions), `SetReady`, `AwaitSteady`,
`ToBoot`, `Reset`, `Enter`, `CheckLoop`, `EventsReturn`,
`ExitCheck`, `DrainReturn`.  A transfer comes back (`GiveBack`, completed or
failed) only inside a libusb call, then its callback runs `data`, `check`,
`submit`.  `SetStatus` has the filter of `ow_engine_set_status`: from STOP or
ERROR nothing is accepted.  `Client` is the most general client: any status
that some call in the sources passes, at any time.

### Player

Adds the `length` of the file, `frames` read, `staged` in the out transfer, and
histories `played`, `lost`, `cut`.  The out callback reads the file as `set_usb_output_data_blks`
does: a whole transfer, or what is left if it is at least two frames, or
nothing; `buffer_read_space` stops the engine at zero, `buffer_read` at a short
read.

### Resampler

Adds `rstatus`, the place `jpc` of the JACK thread, its copies `es` of the
engine's status and `retune`, the flags `xrun` and `active`, and the histories
`asked` and `resets`.  One action per branch of `ow_resampler_compute_ratios`,
three for `ow_resampler_reset`.  JACK runs one callback at a time.  The loop's
filter is left out: whether it is tuned and whether the ratio is in range are
free choices in every cycle.

### AudioPath

The two rings as counts of frames, those written before the engine's present
lap of its loop (`old`) apart from the rest, with what the two threads keep
about them: `reading_h2o`, `reading_o2h`, the maxima of the latencies, and the
callback's copy `rs` of the fill.  The in callback decides by the status
(`InStart`), writes (`InWrite`) and measures (`InLatency`) in three steps; the
out callback looks (`OutStart`) and acts in two.  `LeaveLoop` and `EnterLoop`
are the engine's clear, `Drain` and `Clear` the resampler's.  The status words
have the values of a live session only, and TUNE stands for all that the
resampler does before RUN: `Lockstep`, proved of `Resampler`, is why a tuned
resampler finds the engine in WAIT.  How often the converter asks for frames
in a period (`Pull`) and how many frames a period becomes (`Resampled`) are
choices.

### Recorder

Adds the two buffers as sequences of frame numbers, `bstatus` (buffer.status),
the places of the disk thread (`dpc`) and of the callback between its read of
the engine status and `buffer_write` (`wpc`), whether buffers and lock exist
(`bufs`), the file, `sfinfo.frames` (`counted`) and histories.  The static
`pos` is the length of `mem`.  The engine runs before the buffers exist
(main-record.c:295-313); if the device is that fast the process crashes
(`Crash`, which ends the behaviour).

### Service

The spin lock is a variable here, since it has no owner: `lock` is TRUE or
FALSE and anybody's unlock frees it.  `pjc`, `client`, `runner` are arrays over
the slots; `mpc`, `hpc` the places of main and hotplug threads.  A critical
section of one access is one action guarded by `~lock`; one that spans several
(stop_all, start_single, set_device_name) takes the lock and gives it back, and
may lose it half way.

The main thread is a stack of activations (`running` on `under`): the D-Bus
method or the start of the program, the handler of SIGHUP, and that of SIGTERM
and SIGINT.  Each has its own place, slot and rest of the device list (`mpc`,
`mslot`, `left`), since `handle_stop` and `handle_start` run in all three.
`Signal` puts a handler on top wherever the main thread is, also where it holds
the lock; `Return` goes back.  SIGHUP is blocked while it is handled, and
`handling` turns a second SIGTERM or SIGINT away (main-service.c:131-136), so a
handler is on the stack once.  `StartCheck` is the only look that `start_all`
takes at `force_stop` (main-service.c:224-230), before its loop: a SIGTERM that
comes within the loop stops what was started, and the loop goes on.  `held` is
g_application_hold.

A JACK client is reduced to what `Resampler` shows of it:
in `starting` a stop is lost, in `handshake` a stop or a failure leaves it
`stuck`, in `on` it ends it.  Undefined behaviour (use of a destroyed client, a
second join, a slot shared by two threads) sets `broken` and ends the
behaviour, and so does a hotplug thread created while the one before still runs
(`orphan`), which is defined but not followed.

### Lifecycle

`who` owns the engine (overwitch-play, overwitch-record or a JACK client);
`step` counts through the initialisation of the engine (`EngineSteps`) and then
of its owner (`OwnerSteps`); `held` is what is acquired, `gone` what was freed
and is still pointed at, so that freeing a member of `gone` sets `twice`.  Any
step may fail: `EngineStepFails` frees as `usb_shutdown` and `ow_engine_init`
do, `OwnerEnds` as the clean-up labels of the three programs do.  A JACK client
goes on with `NextSession`, in the same static structure, and `Forgotten` is
what its initialisation sets to null.

### Rename

`rnpc` is the place in `rename_device`, `ctl` the control transfer.  The engine
has no loop and no host to device direction.  Whether the device gets the name
does not depend on anybody handling the event.

### H2OQueue

Counts fractions of a frame of the output, `Unit` of them in a frame; a frame of
input is worth `ratio` of them, that is 48 kHz by the rate of JACK as the
delay-locked loop corrects it (`Tune`, in any cycle, to any member of `Ratios`).
`acc` is h2o_acc, `saved` the input that libsamplerate holds beyond what its
filter needs, and `queue_len` counts periods.  `Reads` is the external part:
`src_callback_read` calls the reader while it has too little, and may once call
it early.  The reader of an empty queue gives a period of what its buffer held
before, which the model counts as input.  `Whole` is C's `trunc`, which rounds
towards zero: a negative `acc` must keep its fraction, or what the queue is
ahead would grow with every cycle.  The second period in the queue is
copied four times as far as it should be (the index is in bytes, the array of
floats), a third one beyond the allocation (`beyond`).  Three things change what
is on the way to the converter without a period being queued or put out: a new
ratio, another client that uses `h2o_acc`, and a new buffer size.  `strained`
records that they left more than two periods but for a frame there (`Ahead`).

### Cli

`mainpc` is the place in `run_jclient`, `holder` who has the spin lock.  A
signal's handler (`sigpc`) runs on top of `under`: the main thread, a thread of
the client, one that holds `engine->lock`, or another handler; what is
interrupted does not move.  The client is that of `Service`.

### Gui

`timers` counts the sources that call `refresh_state`, `devices` is what the
last call said, `editing`, `dialog`, `widgets` and `columns` are the state of
the window.  `service`, `clients`, `hotplug` and `loaded` are what `Service`
looks like from outside, plus the preferences its `startup` read.  Every call
goes through `Call`: the service runs the method and answers, or the error
branch of main.c is taken (`CallFails`, `StateUnknown`).  It is taken because
the service ends with the call in its hands, because it cannot be activated, or
because the call times out at a service that is slow or stuck; then the method
waits in `late` until the service gets to it (`ServiceCatchesUp`), which may be
never.  Saving is
two actions, since devices and signals may come between the write and the
restart.  Assumed of GTK: the dialog is modal, and a label that loses the focus
ends its edit.

### Discovery

One action reads one description, in the order in which the code does:
`ReadFile` in `devices.d`, `ReadElement` in the two arrays, `NextPlace` between
them.  `slot` says of each part of the descriptor where it was read.

### MCPrograms

One behaviour is one of these components (`prog`); the others rest.  It saves
a TLC run for each of seven small state spaces, nothing more: their variables
are disjoint but for the engine's, which Recorder and Rename share as any two
programs share `engine.c`.

## 3. The runs

| Run | Shows | Bounds |
| --- | --- | --- |
| `player` | `WholeFilePlayed`, `PlayEnds`, `KeepsContract`, `StopHalts` | files of 0, 6, 7 and 8 frames, transfers of 3: nothing, two whole ones, and two with a rest of one frame or of two that are stretched |
| `player_rest` | violated: `PlaysFile` | 7 = 2*3 + 1 frames, nothing fails |
| `resampler` | `Lockstep`, `StreamSustained`, `WaitMeansSilent`, `StopIsFinal`, `ResamplerBoots`, `RequestsHonoured`, `StopClosesSession`, `KeepsContract` | one reset; xruns, stops and failures unbounded |
| `resampler_lost` | violated: `StopKept` | no reset, JACK does not fail |
| `resampler_spin` | violated: `StopEndsSession` | the same |
| `audio_path` | `NoFormerAudio`, `FormerAudioBounded`, `LatencyRange`, `AudioReachesDevice`, `AudioReachesHost` | transfers of 3 frames, periods of 2 that become 1 or 3, rings of 6; retunes and resets unbounded |
| `programs`: recorder | `RecordingIntact`, `NothingTwice` | 7 transfers of 2 frames, buffers of 4: three handovers, so one can overtake two |
| `programs`: rename | `RenameEnds` | none |
| `programs`: lifecycle | `FreedOnce`, `NothingLeft` | every step may fail; two sessions in one structure |
| `programs`: cli | `StopReachesClient`, `CtrlCEnds` | two signals, each once, on top of any thread or handler |
| `programs`: gui | `OneTimer`, `PreferencesApplied`, `ButtonTruth` | two devices, two values of the preferences, two calls that wait at the service |
| `programs`: discovery | `DescriptionWhole`, `ShippedIsFallback` | two devices of two products, two files, two elements, one shipped |
| `programs`: queue | `QueueBounded` | thirds of a frame; ratios of 1/3, 1 and 4/3 (JACK at 144, 48 and 36 kHz), periods of 7 and 11 frames, a filter of two thirds; ratio, buffer size and other client change in any cycle |
| `search_order` | violated: `DirectoryFirst` | discovery alone |
| `recorder_end` | violated: `RecorderEnds` | 3 transfers, nothing fails |
| `service` | `LockReleased`, `AvailableIsFree`, `StopIsComplete` | two slots, one device at start, any number plugged in, two methods or signals, faults (5.0 million states) |
| `service_rename` | `RenameRestarts` | the same without signals, with fairness (0.6 million states) |
| `service_stop` | violated: `StopStopsAll` | two slots, one method, no signal, no fault |

Each module has a type invariant in its passing run, and each property has a
mutant of the code in `PROJECT.json` that breaks it.

Why the bounds are enough.  The engine has no unbounded state.  It runs here
under each of its clients; that its safety properties hold under any other is
proved (`EngineProofs`).  A second reset starts where the first one did: the resampler is
READY again and the engine on its way to WAIT, as `Lockstep` says, and the
theorem `LockstepHolds` covers any number of resets.  A ring of six
frames holds two transfers or three periods, so both readers find it with too
little, enough and too much, and both writers find it full; the bound of
`FormerAudioBounded` (less than 5) is reached.  The recorder's three
handovers let a slow disk thread be overtaken and recover.  Two slots let one
client end, be recycled and be replaced while another lives; a slot depends on
another only through the order in which loops visit them; two methods or
signals allow a Stop, Start, rename or report to follow any other, a signal to
come at any step of any method, and one handler on top of the other on top of
the start of the service.  The third session of a
client starts with the pointers of the second as the second does with those of
the first.  A third signal would find the lock held or the flags set as the
second does.  Two devices make the difference between none, some and all of
them having a client.  Two files of `devices.d` and two elements of an array
give every order of a right, a broken and a foreign description.  Two calls
that wait at the service come in either order.  The queue's ratios are below,
at and above one, and of its buffer sizes one is large enough for its rest to
strain the other.

### Fairness

* The engine thread, the JACK client, the disk thread, the main thread and the
  runners are scheduled (weak fairness): they are ordinary or real-time threads
  that only spin or sleep.
* `libusb_handle_events_completed` and the drain return (strong fairness, for
  callbacks interrupt them): they have a timeout.
* JACK calls `process` of an active client (weak fairness).
* Transfers come back only in `Player` (strong fairness): they carry a timeout,
  and `PlayEnds` needs them.  Elsewhere the device may be silent for ever.
* In `AudioPath`, transfers come back in both directions (strong fairness), and
  the converter stops asking once it has its period.
* In `Rename`, the same as in `Resampler`, without any assumption on the device.
* In `Cli`, the main thread, the handlers and the client are scheduled, and the
  client becomes ready and ends when stopped, as in `Service`.
* In `Gui`, the main loop of GLib runs a timer that is there and finishes what
  it began.  Nothing is assumed of the user or of the service, which need not
  run what waits for it.
* In `Service`, a client that has been told to stop and was past its handshake
  ends: `StopClosesSession` of module `Resampler`.  A thread that waits for the
  spin lock has no more than weak fairness; the lock is not fair.  The hotplug
  thread has none.

`CHECK_DEADLOCK FALSE` only for the service, whose main loop may stay idle and
whose threads may wait for each other for ever (section 5).

## 4. The proofs

Every safety property and every type invariant that a passing run checks is a
theorem, for every value of the constants.  Each rests on an inductive
invariant of its own, since none of the properties is inductive as it stands.

* **`EngineProofs`**: `TypeCorrect`, `StreamIsSustained`, `WaitIsSilent` and
  `StopPersists`, from the inductive invariant `IInv`.  `StreamSustained` is
  not inductive: it says nothing before READY, and what makes it hold when
  READY is published is where the two first submissions went
  (`FirstSubmissions`); that a callback keeps its transfer needs that no
  callback runs outside a libusb call (`CallbacksInLibusb`).  `WaitMeansSilent`
  needs that the reading flag is reset before `Enter` (`SilentEntry`).
  `StartedOnce` ties the caller to the thread.  `StopPersists` is an action
  property of `IInv`: every action that writes a status above STOP is excluded
  by its guard or by the filter of `SetStatus`.

  The module also has the simulation of `StreamContract` step by step
  (`ContractStep`), for every client under which a live engine does not drain
  (`DrainsHalted`).  A transfer is at the device or in a callback, never in
  both (`InOneHand`), so that what goes out was not there yet; the one transfer
  that may still go out after a halt is the one whose callback has already
  read the status.  `DrainsHalted` is *not* true of an arbitrary client, who
  may write STEADY while the engine loops: each program has to show that it
  does not.
* **`ResamplerProofs`**: `ResamplerIsClient` (`ResamplerSpec => Spec`): a step
  of the JACK client is a step of the engine with some client, so every theorem
  about the engine holds of the composition, with any number of resets.
  `LockstepHolds` (`ResamplerSpec => []Lockstep`) from `RInv`, which adds what a
  live engine's status may be at each place of `run_audio` (`EngineAt`), how far
  it may have gone since the JACK thread copied it (`Snapshot`: the heart of the
  argument, for everything JACK does is based on a stale copy), that nothing
  moves before READY (`Handshake`), and where the engine is during a reset
  (`Resetting`).  `ResamplerKeepsContract` is the refinement: `EngineAt` is what
  gives `DrainsHalted`.  `ResamplerTypes` adds the threads of the host
  (`HostTypes`).
* **`PlayerProofs`**: `WholeFileIsPlayed`, `PlayerTypes` and
  `PlayerKeepsContract`, from `PlayerInv`: every frame that was read is staged or
  came back (`FramesKept`), the callback stages only when the last frames came
  back (`StagedOnce`), and an engine that nobody cut short was stopped by an
  empty file with nothing on its way (`StoppedByFile`).  `BootedOrStopped`, of
  every engine without a resampler, gives `DrainsHalted`.  The callback that
  stops the engine it runs in is the one step that is no step of the engine's
  general client; it is simulated by itself.
* **`RecorderProofs`**: `RecordingIsIntact`, `NothingIsTwice`, `RecorderTypes` and
  `RecorderKeepsContract`.  `RecInv` gives every buffer as an interval of frame
  numbers (`Consecutive`), the file as one that stops before what is still to be
  written (`FileInOrder`) and has no gap unless frames were dropped
  (`FileWhole`).  The case that takes the work is the disk thread that is
  between its poll and the lock when the next buffer, or END, is handed over
  (`Unwritten`).  The way out of `run_record` that leaves the engine running
  (`DiskFails`) is simulated by itself.
* **`AudioPathProofs`**: `FormerAudioIsGone` (`Spec => []NoFormerAudio`) and
  `FormerAudioIsBounded` (`Spec => []FormerAudioBounded`) for transfers,
  periods and rings of every size, from `PathInv`.  For the device: a copy of
  the fill taken in this lap counts every old frame (`SawTheOld`), for no
  callback runs when a lap begins (`QuietBetweenLaps`).  For the host: when the
  engine is about to begin a lap and the resampler reads already, the ring
  holds only what `PullBegin` left and one transfer whose callback had looked
  at the status before the clear (`LittleToAge`); that needs that the resampler
  does not read between its drain and its request (`NotReadingToClear`).
  `PathTypes` and `RangeIsNotEmpty` add that a maximum never falls below its
  minimum (`MaximaAboveMin`).
* **`ServiceProofs`**: `ServiceTypes`, `LockIsReleased`, `AvailableHasNoThread` and
  `StopLeavesNobody`, for pools and numbers of devices, methods and signals of any
  size, from `ServiceInv`.  Its first half (`Shape`) holds whatever happens to the
  lock: what each activation of the main thread walks over is within the pool,
  and what `start_all` has still to start fits into what is left of it
  (`SlotsInPool`).  The second (`Disciplined`) holds until a runner has freed the
  lock under another thread or a SIGHUP has come in the middle of something.
  Then SIGTERM is the only handler on top of another activation (`Stack`);
  sections exclude each other, also those of a handler and of what it
  interrupted, which spins or waits (`Exclusive`); the hotplug thread starts
  nothing while a stop is in progress, and what `wait_all` has passed stays free
  (`Stopping`); what `start_all` has still to fill is free, even if a SIGTERM has
  emptied the pool since (`Starting`); no slot is joined twice at once
  (`Joining`); the slot that the hotplug thread or a rename is about to fill is
  left alone by the others (`HotplugSlot`, `RenamedSlot`).  `Remembered` says that
  both histories only ever grow, so that the properties are about every state
  before the first of the two.
* **`QueueProofs`**: `QueueIsBounded`, for every rate of JACK, from
  `NeverTwoPeriods`: what the converter is ahead, the queue included, is the same
  after every cycle that does not find the queue empty, because what a cycle
  rounds off stays in `acc`; so a second period in the queue means that the
  converter holds one it must consume first, and a third one does not get there
  until something else than a cycle has put the converter further ahead.
* **`ProgramsProofs`**, over any number of signals, devices, sessions and
  descriptions:
  * `CliStopReaches`: a stop that came while a client runs has called
    `jclient_stop` or will (`StopOnItsWay`), and the main thread waits only for
    a client that the handlers can see or that it stopped itself
    (`WaitsForItsClient`).
  * `WindowHasOneTimer` and `ClientsHavePreferences`: no name is edited while the
    dialog is there, and there is no timer while saving (`TimersKept`); the
    hotplug thread alone, without any client, has the preferences of the file
    unless a Start waits (`ServiceHasFile`), for it starts clients without
    reading.  A call that times out leaves its method in `late`, and what runs
    there afterwards either reads the file, starts nothing, or is not a Start.
  * `NothingIsFreedTwice` and `OnlyKnownLeaks`: what is held, and what dangles, at
    each step of each initialisation (`EngineOwns`, `OwnerOwns`, `FailedOwns`,
    `Dangling`).  From one session to the next the pointer to the JACK client
    dangles until its first step overwrites it, which is why that step failing
    must free nothing else.
  * `DescriptionsAreWhole` and `ShippedAreListed`: a search that succeeds has
    filled the slot from one place, whatever was left there (`GoodSlot`), and in
    the distributed array no element before the last one that was read was one
    of the device (`LastResort`).
  * `RenameIsClient` (`RenameSpec => Spec`), and `ProgramsTypes` of the
    specification that the run `programs` checks.

Assumed: the named assumptions on the constants only, each in the module that
declares them.  `AudioPathAssumption` says that a ring can hold what
each reader waits for: 16384 frames against periods of at most 8192 and
transfers of at most 224.  `RecorderAssumption` that a transfer is smaller than
the buffer.  `H2OQueueAssumption` that a period of JACK gives at
least two frames at 48 kHz, whatever the ratio: at 192 kHz, the highest rate
that resampler.c:190 names, and with a delay-locked loop at its limit of half
the nominal ratio (dll.c:155), that is a buffer of 16 frames.
`PlayerAssumption` that a transfer has at least two frames (it has 7 for every
block).

Only model-checked: everything temporal beyond `[]` (`StopHalts`, `PlayEnds`,
`ResamplerBoots`, `RequestsHonoured`, `StopClosesSession`, `RenameRestarts`,
`AudioReachesDevice`, `AudioReachesHost`, `RenameEnds`, `CtrlCEnds`,
`ButtonTruth`): liveness under fairness is out of this prover's reach.  So are
the violations of section 5, which need no proof.

Every invariant of this section was also checked by TLC on the instances of
section 3 before it was proved.  One proof found an error of the model: `Whole`
had been written so that it rounded down, and the invariant of the queue does
not survive that.

## 5. Findings

1. **A stop before READY is lost** (`resampler_lost`, engine.c:762).
2. **A stop between READY and STEADY leaves the engine spinning** at real-time
   priority (`resampler_spin`, engine.c:770).
3. **One frame left is never played** and the player does not end
   (`player_rest`, engine.c:258).
4. **END lost in the recorder** (`recorder_end`, main-record.c:119).
5. **Unlock for lock in the runner** (`service_stop`, main-service.c:178): a
   device plugged in while the service stops may survive the stop.
6. **A matching file of `devices.d` loses to a later one** (`search_order`,
   overwitch.c:409): the result of the last file counts, so what `README.md`
   says is searched first may be found and then forgotten.

The models also take these steps, which have no run of their own; a property
that would fail because of them names them as exceptions:

* `ow_engine_start` polls for ever when a stop comes between READY and its poll
  (engine.c:958), although the comment at engine.c:745 says that it returns
  after that transition.
* A SIGHUP that comes in the middle of a method, or of the handler of SIGTERM,
  stops and starts everything there and then; the method goes on where it was.
  `start_all` fills slots that are taken, since it has looked at `force_stop`
  already, `wait_all` has passed slots that have a client again, and a second
  hotplug thread is created while the handle of the first is lost.  `nested`
  excludes this from `AvailableIsFree` and `StopIsComplete`.
* A signal that comes while the main thread, or the handler of the other
  signal, is in a critical section waits for ever for the lock of the activation
  that it interrupts (main-service.c:110), although that lock is there for
  signal handling (main-service.c:52).  `RenameRestarts` is checked without
  signals for that reason.
* A client that was stopped by SetDeviceName and ended at once may lose its slot
  to a device that is plugged in before the join, which then waits for the new
  client; `RenameRestarts` begins at the join.
* The runner waits for the lock held by SetDeviceName, which waits for the
  runner (had main-service.c:178 been the lock it seems meant to be, this would
  happen for every rename: the mutant of `RenameRestarts`); stop_all or GetState
  on a destroyed client; a thread joined twice; a `hotplug_running` set after
  the stop that cleared it.
* The tail of a recording, which is never written; a recorder whose device
  sends before the buffers exist.
* overwitch-cli: a handler that waits for what it interrupted (`HandlerHangs`);
  a stop that is lost while the client starts, after which `running` stays zero
  and Ctrl+C does nothing any more; a stop of a client that is destroyed, since
  `running` stays set (`dangling`).
* The name of a rename may not be sent: an engine that leaves at engine.c:787
  does not handle the event of the control transfer (`ctl` stays in flight).
* Initialisation: the libusb context of a device that is not found
  (engine.c:698) and the kernel drivers of a device whose initialisation failed
  (engine.c:550, 611) are not given back; `NothingLeft` names both.
* The queue: with two clients in one process, `h2o_acc` (resampler.c:354) makes
  one of them ask for the other's frames, and the queue of the first grows
  until it is written beyond its end; the same when the buffer size is reduced
  while the converter holds a rest of a larger period, and when the ratio grows
  again and again at the right moments.  `QueueBounded` holds until such
  disturbances have added up to almost two periods (`strained`).  And any cycle
  in which the converter needs no input garbles the next period, whose index
  counts bytes in an array of floats (resampler.c:363).
* The window: closing it writes the widgets of a dialog that was cancelled,
  since `app_exit` saves all preferences (main.c:236); without a session bus,
  Save starts the timer all the same, and the answer that is not there is read
  (main.c:303).

## 6. What is not modelled, and the plan

Next, in this order:

1. Proofs: that `Resampler` implements the JACK client to which `Service` and
   `Cli` reduce it (`starting`, `handshake`, `on`, `off`, `stuck`, `over`), so
   that the reduction is a theorem too; the parts of the liveness properties
   that are safety (a request that is honoured is not honoured twice, a handler
   hangs only as `HandlerHangs` says).
2. **Clocks**: the two halves of the delay-locked loop and their `boot` flags,
   for the reset that lets the host half boot from the counters of the former
   run (resampler.c:447).
3. **Codec**: block headers, the 16-bit frame counter and the sample layout as
   pure operators against a reference, and the two sizes of a frame
   (engine.c:160).
4. A run of `AudioPath` for the maximum that an underflow forgets to reset
   (engine.c:288-290), and one of `Service` for a stop
   that waits for a hotplug thread for ever.

Not planned: the filter of `dll.c` and libsamplerate (floating point), messages,
helpers and option parsing (input parsing and formatting, no state).

Seen on the way and left to a test: `ow_dll_tuned` takes the integer `abs` of a
double (dll.c:219), so any error below one frame counts as tuned; the models
leave tuned or not open.  A change of the buffer size frees buffers that the
converters may still hold from their last callback (resampler.c:182).

Left out inside modelled parts: thread priorities and names, log output, ports,
SetDeviceName with an id beyond the pool or with one that has another device by
then (main.c:346); of the service, a second SIGHUP that another thread takes
while the main thread handles the first, signals within one of the short
sections that read a status, whose handler spins for ever as in finding 6, and
what two hotplug threads do; signals that interrupt a thread of the player or
the recorder while it holds a lock (they are steps of their own there; `Cli` and
`Service` have them on top of a thread).

In `Lifecycle`, `usb_shutdown` releases what was claimed.  The code releases
interface 3 (engine.c:407-408), which is not the one it claimed; closing the
device releases every interface, so nothing is left either way.
