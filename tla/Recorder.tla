------------------------------ MODULE Recorder ------------------------------
(***************************************************************************)
(* overwitch-record (src/src/main-record.c): an engine without a resampler *)
(* that sends nothing to the device and writes what it receives to a WAV   *)
(* file.  The engine thread fills buffer.mem and, when it is full, copies  *)
(* it to buffer.disk; a second thread dumps buffer.disk to the file.  The  *)
(* main thread starts both, waits for the engine and tells the disk thread *)
(* to end.                                                                 *)
(*                                                                         *)
(* Frames are numbered in the order in which they reach buffer_write.      *)
(* buffer.lock is held for whole steps only, so it is not a variable.      *)
(***************************************************************************)
EXTENDS Engine, Sequences

CONSTANTS
  FramesPerTransfer,  \* engine->frames_per_transfer
  Capacity,           \* buffer.len, in frames: 250 for every kilobyte
  MaxFrames,          \* bound: frames that the device sends
  Faults              \* transfers, threads and file writes may fail

ASSUME RecorderAssumption ==
  /\ Dll = FALSE
  /\ H2O = FALSE
  /\ FramesPerTransfer \in Nat \ {0}
  /\ Capacity \in Nat
  /\ FramesPerTransfer < Capacity
  /\ MaxFrames \in Nat
  /\ Faults \in BOOLEAN

(***************************************************************************)
(* buffer_status_t                                                         *)
(***************************************************************************)
B_END   == -1
B_EMPTY == 0
B_READY == 1

VARIABLES
  wpc,      \* "write" while buffer_write is about to run, else "idle"
  mem,      \* frames in buffer.mem, up to the static pos of buffer_write
  disk,     \* frames in buffer.disk
  bstatus,  \* buffer.status
  dpc,      \* where dump_buffer is
  bufs,     \* buffer.mem, buffer.disk and buffer.lock: "none", "up", "freed"
  ended,    \* the main thread has told the disk thread to end
  counted,  \* sfinfo.frames, printed as frames written
  file,     \* frames in the file
  crashed,  \* the process used a buffer or a lock that is not there
  taken,    \* history: frames that reached buffer_write
  dropped   \* history: frames were overwritten or a file write failed

rvars   == <<wpc, mem, disk, bstatus, dpc, bufs, ended, counted, file, crashed,
             taken, dropped>>
allvars == <<vars, rvars>>

RecorderInit ==
  /\ Init
  /\ wpc = "idle"
  /\ mem = <<>>
  /\ disk = <<>>
  /\ bstatus = B_EMPTY
  /\ dpc = "none"
  /\ bufs = "none"
  /\ ended = FALSE
  /\ counted = 0
  /\ file = <<>>
  /\ crashed = FALSE
  /\ taken = 0
  /\ dropped = FALSE

-----------------------------------------------------------------------------
(***************************************************************************)
(* The engine thread: set_usb_input_data_blks and buffer_write.            *)
(***************************************************************************)
Incoming == [i \in 1..FramesPerTransfer |-> taken + i]

(* The status is read here, and the blocks are decoded after that. *)
InToWrite ==
  /\ cb = "in"
  /\ cpc = "data"
  /\ wpc = "idle"
  /\ status = RUN
  /\ taken + FramesPerTransfer <= MaxFrames
  /\ wpc' = "write"
  /\ UNCHANGED <<vars, mem, disk, bstatus, dpc, bufs, ended, counted, file,
                 crashed, taken, dropped>>

(* A transfer that failed, or that came back to an engine that does not    *)
(* run; beyond the bound MaxFrames every transfer fails.                   *)
InDiscarded ==
  /\ wpc = "idle"
  /\ status < RUN \/ Faults \/ taken + FramesPerTransfer > MaxFrames
  /\ CbInData
  /\ UNCHANGED rvars

(* Mutant: the position in buffer.mem is not reset. *)
HandOverKeepingPos ==
  /\ bstatus' = B_READY
  /\ disk' = mem
  /\ mem' = mem \o Incoming
  /\ counted' = counted + Len(mem)
  /\ dropped' = (dropped \/ (bstatus = B_READY /\ disk # <<>>))

(* The buffer is full: it goes to the disk thread, whether or not that     *)
(* thread has written the one before, and the new frames start the next.   *)
HandOver ==
  /\ bstatus' = B_READY
  /\ disk' = mem
  /\ mem' = Incoming
  /\ counted' = counted + Len(mem)
  /\ dropped' = (dropped \/ (bstatus = B_READY /\ disk # <<>>))

Keep ==
  /\ mem' = mem \o Incoming
  /\ UNCHANGED <<bstatus, disk, counted, dropped>>

BufferWrite ==
  /\ wpc = "write"
  /\ bufs = "up"
  /\ IF Len(mem) + FramesPerTransfer >= Capacity THEN HandOver ELSE Keep
  /\ taken' = taken + FramesPerTransfer
  /\ wpc' = "idle"
  /\ CbInData
  /\ UNCHANGED <<dpc, bufs, ended, file, crashed>>

(* The engine is started before the buffers and their lock exist.  A lock  *)
(* that is all zeros either makes the engine wait for pthread_spin_init    *)
(* (no step here) or lets it through to a null pointer, by the build.      *)
Crash ==
  /\ wpc = "write"
  /\ bufs # "up"
  /\ crashed' = TRUE
  /\ UNCHANGED <<vars, wpc, mem, disk, bstatus, dpc, bufs, ended, counted, file,
                 taken, dropped>>

-----------------------------------------------------------------------------
(***************************************************************************)
(* The disk thread: dump_buffer.                                           *)
(***************************************************************************)
DumpPoll ==
  /\ dpc = "poll"
  /\ dpc' = CASE bstatus = B_END   -> "done"
              [] bstatus = B_EMPTY -> "poll"
              [] bstatus = B_READY -> "lock"
  /\ UNCHANGED <<vars, wpc, mem, disk, bstatus, bufs, ended, counted, file,
                 crashed, taken, dropped>>

(* Mutant: the buffer is not marked as written. *)
DumpWriteForgetting ==
  /\ dpc = "lock"
  /\ dpc' = "poll"
  /\ file' = file \o disk
  /\ UNCHANGED <<vars, wpc, mem, disk, bstatus, bufs, ended, counted, crashed,
                 taken, dropped>>

(* buffer.status is not read again under the lock, so END may be lost. *)
DumpWrite ==
  /\ dpc = "lock"
  /\ dpc' = "poll"
  /\ bstatus' = B_EMPTY
  /\ \/ file' = file \o disk /\ UNCHANGED dropped
     \/ Faults /\ dropped' = TRUE /\ UNCHANGED file
  /\ UNCHANGED <<vars, wpc, mem, disk, bufs, ended, counted, crashed, taken>>

-----------------------------------------------------------------------------
(***************************************************************************)
(* The main thread: run_record, from the start of the engine on.           *)
(***************************************************************************)
StartDisk ==
  /\ WaitEngine
  /\ bufs' = "up"
  /\ bstatus' = B_READY
  /\ dpc' = "poll"
  /\ UNCHANGED <<wpc, mem, disk, ended, counted, file, crashed, taken, dropped>>

(* No disk thread: the buffers are freed although the engine runs. *)
DiskFails ==
  /\ Faults
  /\ spc = "up"
  /\ spc' = "failed"
  /\ bufs' = "freed"
  /\ UNCHANGED <<status, thread, wpc, mem, disk, bstatus, dpc, ended, counted, file,
                 crashed, taken, dropped>>

EndDisk ==
  /\ spc = "joined"
  /\ ~ended
  /\ ended' = TRUE
  /\ bstatus' = B_END
  /\ UNCHANGED <<vars, wpc, mem, disk, dpc, bufs, counted, file, crashed, taken,
                 dropped>>

(* The disk thread is joined, the buffers and the file are given up, and   *)
(* the engine is destroyed.                                                *)
Close ==
  /\ spc = "joined" => ended /\ dpc = "done"
  /\ DestroyEngine
  /\ bufs' = "freed"
  /\ UNCHANGED <<wpc, mem, disk, bstatus, dpc, ended, counted, file, crashed, taken,
                 dropped>>

Quiet(A) == A /\ UNCHANGED rvars

MainThread ==
  \/ Quiet(StartEngine \/ PollStarted \/ JoinEngine)
  \/ Faults /\ Quiet(StartFails)
  \/ StartDisk \/ DiskFails \/ EndDisk \/ Close

(* signal_handler *)
Signal == Quiet(Stop /\ UNCHANGED <<thread, spc>>)

-----------------------------------------------------------------------------
RecorderControl == Quiet(Control) /\ (refused' # refused => Faults)

RecorderSubmit(d) == Quiet(CbSubmit(d)) /\ (inflight' = inflight => Faults)

RecorderCallback ==
  \/ InToWrite \/ InDiscarded \/ BufferWrite
  \/ Quiet(CbOutData)
  \/ \E d \in Dirs : Quiet(CbCheck(d)) \/ RecorderSubmit(d)

DiskThread == DumpPoll \/ DumpWrite

Running == ~crashed /\ spc # "closed"  \* the process exits after Close

Over == ~Running /\ UNCHANGED allvars

RecorderNext ==
  \/ /\ Running
     /\ \/ RecorderControl
        \/ Quiet(EventsReturn)
        \/ Quiet(DrainReturn)
        \/ Quiet(\E d \in Dirs : GiveBack(d))
        \/ RecorderCallback
        \/ Crash
        \/ DiskThread
        \/ MainThread
        \/ Signal
  \/ Over

RecorderSpec == RecorderInit /\ [][RecorderNext]_allvars

(* The three threads are scheduled and libusb calls return. *)
RecorderFairness ==
  /\ WF_allvars(Running /\ RecorderControl)
  /\ SF_allvars(Running /\ Quiet(EventsReturn))
  /\ SF_allvars(Running /\ Quiet(DrainReturn))
  /\ WF_allvars(Running /\ RecorderCallback)
  /\ WF_allvars(Running /\ DiskThread)
  /\ WF_allvars(Running /\ MainThread)

RecorderFairSpec == RecorderSpec /\ RecorderFairness

-----------------------------------------------------------------------------
RecorderTypeOK ==
  /\ TypeOK
  /\ wpc \in {"idle", "write"}
  /\ {mem, disk} \subseteq Seq(1..MaxFrames)
  /\ Len(mem) < Capacity
  /\ file \in Seq(1..MaxFrames)
  /\ bstatus \in B_END..B_READY
  /\ dpc \in {"none", "poll", "lock", "done"}
  /\ bufs \in {"none", "up", "freed"}
  /\ {ended, crashed, dropped} \subseteq BOOLEAN
  /\ {counted, taken} \subseteq 0..MaxFrames

Pending == IF bstatus = B_READY THEN disk ELSE <<>>

(* Until it is told to end, and unless the disk is too slow or a write     *)
(* fails, a recording is whole: what is in the file, handed over and being *)
(* filled is every frame received, in order, and sfinfo.frames counts what *)
(* is written or will be (main-record.c:142-153, 111-121).                 *)
RecordingIntact ==
  ~dropped /\ ~ended =>
    /\ file \o Pending \o mem = [i \in 1..taken |-> i]
    /\ counted = Len(file \o Pending)

(* No frame is in the file twice or out of order, not even when the disk   *)
(* thread is slow or is told to end while it writes (main-record.c:111).   *)
NothingTwice ==
  \A i, j \in 1..Len(file) : i < j => file[i] < file[j]

(* To stop, just press Ctrl+C (README.md:294): once the engine has ended   *)
(* and the disk thread has been told to, the recorder ends.                *)
RecorderEnds == ended ~> (spc = "closed")

=============================================================================
