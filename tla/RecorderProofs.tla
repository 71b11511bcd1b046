--------------------------- MODULE RecorderProofs ---------------------------
(***************************************************************************)
(* What holds of overwitch-record for buffers and transfers of every size, *)
(* with or without failures, and however slow the disk thread is.          *)
(***************************************************************************)
EXTENDS Recorder, EngineProofs, SequenceTheorems

USE DEF ERROR, STOP, READY, STEADY, BOOT, CLEAR, WAIT, RUN, B_END, B_EMPTY, B_READY

(* The frames after the first a, up to frame b. *)
Frames(a, b) == [i \in 1..(b - a) |-> a + i]

DiskStart == counted - Len(disk)

(* The frames of buffer.mem follow those of buffer.disk, and the counter   *)
(* of frames written stands between them.                                  *)
Consecutive ==
  /\ counted \in 0..taken
  /\ taken \in 0..MaxFrames
  /\ DiskStart \in Nat
  /\ mem = Frames(counted, taken)
  /\ disk = Frames(DiskStart, counted)

(* buffer.disk is to be written, or is being written. *)
Unwritten == bstatus = B_READY \/ dpc = "lock"

(* The file stops before what is still to be written. *)
FileInOrder ==
  /\ file \in Seq(1..MaxFrames)
  /\ NothingTwice
  /\ \A i \in 1..Len(file) : file[i] <= IF Unwritten THEN DiskStart ELSE counted

(* Unless frames were dropped, the file begins with the first frame and    *)
(* has no gap.                                                             *)
FileWhole ==
  ~dropped /\ ~ended =>
    /\ dpc = "lock" => bstatus = B_READY
    /\ file = Frames(0, IF bstatus = B_READY THEN DiskStart ELSE counted)

(* Nothing is written before the buffers exist. *)
NothingEarly ==
  /\ spc \in {"init", "poll", "up"} => bufs = "none" /\ ~ended
  /\ bufs = "none" => dpc = "none" /\ taken = 0 /\ file = <<>>

BuffersFit ==
  /\ wpc \in {"idle", "write"}
  /\ wpc = "write" => taken + FramesPerTransfer <= MaxFrames
  /\ taken - counted < Capacity
  /\ bstatus \in B_END..B_READY
  /\ dpc \in {"none", "poll", "lock", "done"}
  /\ bufs \in {"none", "up", "freed"}
  /\ {ended, crashed, dropped} \subseteq BOOLEAN
  /\ ~ended => bstatus # B_END

RecInv ==
  /\ Consecutive
  /\ FileInOrder
  /\ FileWhole
  /\ NothingEarly
  /\ BuffersFit

-----------------------------------------------------------------------------
(* Consecutive frames are a sequence, and follow one another. *)
LEMMA FramesSeq ==
  ASSUME NEW a \in Nat, NEW b \in Nat, a <= b
  PROVE  /\ Len(Frames(a, b)) = b - a
         /\ \A i \in 1..(b - a) : Frames(a, b)[i] = a + i
         /\ \A n \in Nat : b <= n => Frames(a, b) \in Seq(1..n)
<1>1. Len(Frames(a, b)) = b - a /\ \A i \in 1..(b - a) : Frames(a, b)[i] = a + i
  BY DEF Frames
<1>2. ASSUME NEW n \in Nat, b <= n
      PROVE  Frames(a, b) \in Seq(1..n)
  <2>1. Frames(a, b) \in [1..(b - a) -> 1..n]
    BY <1>2 DEF Frames
  <2> QED
    BY <2>1, SeqDef
<1> QED
  BY <1>1, <1>2

LEMMA FramesJoin ==
  ASSUME NEW a \in Nat, NEW b \in Nat, NEW c \in Nat, a <= b, b <= c
  PROVE  Frames(a, b) \o Frames(b, c) = Frames(a, c)
<1> DEFINE S == 1..c
           s == Frames(a, b)
           t == Frames(b, c)
           u == Frames(a, c)
<1>1. a <= c /\ b - a \in Nat /\ c - b \in Nat /\ c - a \in Nat
  OBVIOUS
<1>2. s \in Seq(S) /\ Len(s) = b - a /\ \A i \in 1..(b - a) : s[i] = a + i
  BY FramesSeq
<1>3. t \in Seq(S) /\ Len(t) = c - b /\ \A i \in 1..(c - b) : t[i] = b + i
  BY FramesSeq
<1>4. u \in Seq(S) /\ Len(u) = c - a /\ \A i \in 1..(c - a) : u[i] = a + i
  BY <1>1, FramesSeq
<1> HIDE DEF s, t, u, S
<1>5. /\ s \o t \in Seq(S)
      /\ Len(s \o t) = Len(s) + Len(t)
      /\ \A i \in 1..(Len(s) + Len(t)) :
           (s \o t)[i] = IF i <= Len(s) THEN s[i] ELSE t[i - Len(s)]
  BY <1>2, <1>3, ConcatProperties
<1>6. Len(s \o t) = Len(u)
  BY <1>1, <1>2, <1>3, <1>4, <1>5
<1>7. ASSUME NEW i \in 1..Len(s \o t)
      PROVE  (s \o t)[i] = u[i]
  <2>1. i \in Nat /\ i \in 1..(c - a)
    BY <1>1, <1>4, <1>6
  <2>2. (s \o t)[i] = IF i <= b - a THEN s[i] ELSE t[i - (b - a)]
    BY <1>2, <1>5
  <2>3. CASE i <= b - a
    BY <1>1, <1>2, <1>4, <2>1, <2>2, <2>3
  <2>4. CASE ~(i <= b - a)
    <3>1. i - (b - a) \in 1..(c - b)
      BY <1>1, <2>1, <2>4
    <3>2. t[i - (b - a)] = b + (i - (b - a))
      BY <1>3, <3>1
    <3>3. u[i] = a + i
      BY <1>4, <2>1
    <3> QED
      BY <2>2, <2>4, <3>2, <3>3
  <2> QED
    BY <2>3, <2>4
<1>8. s \o t = u
  BY <1>2, <1>3, <1>4, <1>5, <1>6, <1>7, SeqEqual
<1> QED
  BY <1>8 DEF s, t, u

(* Nothing is a sequence of frames too. *)
LEMMA NoFrames == ASSUME NEW a \in Nat PROVE Frames(a, a) = <<>>
  BY DEF Frames

(* What a step of the engine or of its caller leaves alone. *)
LEMMA QuietRecInv ==
  ASSUME RecInv, UNCHANGED rvars,
         spc' \in {"init", "poll", "up"} => spc \in {"init", "poll", "up"}
  PROVE  RecInv'
  BY DEF RecInv, Consecutive, DiskStart, FileInOrder, NothingTwice, Unwritten, FileWhole,
         NothingEarly, BuffersFit, rvars

(* No frame is in the file that is in buffer.mem as well. *)
LEMMA FileBelow ==
  ASSUME RecInv
  PROVE  /\ Len(disk) \in Nat /\ Len(disk) = counted - DiskStart /\ DiskStart <= counted
         /\ \A i \in 1..Len(file) : file[i] \in Int /\ file[i] <= counted
<1>1. /\ counted \in Nat /\ DiskStart \in Nat /\ MaxFrames \in Nat
      /\ disk = Frames(DiskStart, counted)
      /\ file \in Seq(1..MaxFrames)
      /\ \A i \in 1..Len(file) : file[i] <= IF Unwritten THEN DiskStart ELSE counted
  BY RecorderAssumption DEF RecInv, Consecutive, FileInOrder
<1>2. Len(disk) \in Nat
  BY <1>1, LenProperties, FramesSeq DEF DiskStart, Frames
<1>3. Len(disk) = counted - DiskStart /\ DiskStart <= counted
  BY <1>1, <1>2 DEF DiskStart
<1>4. ASSUME NEW i \in 1..Len(file)
      PROVE  file[i] \in Int /\ file[i] <= counted
  <2>1. file[i] \in 1..MaxFrames
    BY <1>1, ElementOfSeq
  <2>2. file[i] \in Int
    BY <1>1, <2>1
  <2> QED
    BY <1>1, <1>3, <2>2
<1> QED
  BY <1>2, <1>3, <1>4

(* buffer_write hands the full buffer over, or keeps filling it. *)
LEMMA BufferWriteRecInv == ASSUME RecInv, BufferWrite PROVE RecInv'
<1>1. /\ counted \in Nat /\ taken \in Nat /\ counted <= taken /\ DiskStart \in Nat
      /\ MaxFrames \in Nat /\ Capacity \in Nat /\ FramesPerTransfer \in Nat \ {0}
      /\ FramesPerTransfer < Capacity
      /\ mem = Frames(counted, taken)
      /\ disk = Frames(DiskStart, counted)
      /\ taken + FramesPerTransfer <= MaxFrames
      /\ taken - counted < Capacity
      /\ wpc = "write" /\ wpc' = "idle" /\ bufs = "up"
      /\ taken' = taken + FramesPerTransfer
      /\ UNCHANGED <<dpc, bufs, ended, file, crashed, spc>>
  BY RecorderAssumption
  DEF RecInv, Consecutive, BuffersFit, BufferWrite, CbInData, CallbackStep
<1>2. Len(mem) = taken - counted
  BY <1>1, FramesSeq
<1>3. Len(disk) = counted - DiskStart /\ DiskStart <= counted
  BY FileBelow
<1>4. Incoming = Frames(taken, taken')
  <2>1. taken' - taken = FramesPerTransfer
    BY <1>1
  <2> QED
    BY <1>1, <2>1 DEF Incoming, Frames
<1>5. /\ dropped \in BOOLEAN
      /\ \A i \in 1..Len(file) : file[i] <= IF Unwritten THEN DiskStart ELSE counted
      /\ file \in Seq(1..MaxFrames) /\ NothingTwice
  BY DEF RecInv, FileInOrder, BuffersFit
<1>6. NothingTwice' /\ NothingEarly'
  BY <1>1, <1>5 DEF RecInv, NothingEarly, NothingTwice
<1>7. CASE HandOver
  <2>1. /\ bstatus' = B_READY
        /\ disk' = Frames(counted, taken)
        /\ counted' = taken
        /\ mem' = Frames(taken, taken')
    BY <1>1, <1>2, <1>4, <1>7 DEF HandOver
  <2>2. Len(disk') = taken - counted
    BY <1>1, <2>1, FramesSeq
  <2>3. DiskStart' = counted
    BY <1>1, <2>1, <2>2 DEF DiskStart
  <2>4. /\ dropped' \in BOOLEAN
        /\ ~dropped' => ~dropped /\ ~(bstatus = B_READY /\ disk # <<>>)
    BY <1>7, Zenon DEF HandOver
  <2>5. Consecutive'
    BY <1>1, <2>1, <2>3 DEF Consecutive
  <2>6. FileInOrder'
    <3>1. \A i \in 1..Len(file) : file[i] <= counted
      BY FileBelow
    <3> QED
      BY <1>1, <1>5, <1>6, <2>1, <2>3, <3>1 DEF FileInOrder, Unwritten
  <2>7. FileWhole'
    <3> SUFFICES ASSUME ~dropped', ~ended'
                 PROVE  file' = Frames(0, DiskStart')
      BY <2>1 DEF FileWhole
    <3>1. file = Frames(0, IF bstatus = B_READY THEN DiskStart ELSE counted)
      BY <1>1, <2>4 DEF RecInv, FileWhole
    <3>2. bstatus = B_READY => DiskStart = counted
      BY <1>1, <1>3, <2>4, NoFrames DEF DiskStart
    <3> QED
      BY <1>1, <2>3, <3>1, <3>2
  <2>8. BuffersFit'
    BY <1>1, <2>1, <2>4 DEF RecInv, BuffersFit
  <2> QED
    BY <1>6, <2>5, <2>6, <2>7, <2>8 DEF RecInv
<1>8. CASE Keep /\ Len(mem) + FramesPerTransfer < Capacity
  <2>1. UNCHANGED <<bstatus, disk, counted, dropped>>
    BY <1>8 DEF Keep
  <2>2. mem' = Frames(counted, taken')
    <3>1. taken' \in Nat /\ taken <= taken'
      BY <1>1
    <3>2. mem' = Frames(counted, taken) \o Frames(taken, taken')
      BY <1>1, <1>4, <1>8 DEF Keep
    <3> QED
      BY <1>1, <3>1, <3>2, FramesJoin
  <2>3. DiskStart' = DiskStart
    BY <2>1 DEF DiskStart
  <2>4. Consecutive'
    BY <1>1, <2>1, <2>2, <2>3 DEF Consecutive, RecInv
  <2>5. FileInOrder' /\ FileWhole'
    BY <1>1, <1>5, <1>6, <2>1, <2>3 DEF RecInv, FileInOrder, FileWhole, Unwritten
  <2>6. BuffersFit'
    BY <1>1, <1>2, <1>8, <2>1 DEF RecInv, BuffersFit
  <2> QED
    BY <1>6, <2>4, <2>5, <2>6 DEF RecInv
<1>9. HandOver \/ (Keep /\ Len(mem) + FramesPerTransfer < Capacity)
  BY <1>1, <1>2 DEF BufferWrite
<1> QED
  BY <1>7, <1>8, <1>9

(* The disk thread writes buffer.disk, or fails to. *)
LEMMA DumpWriteRecInv == ASSUME RecInv, DumpWrite PROVE RecInv'
<1>1. /\ dpc = "lock" /\ dpc' = "poll" /\ bstatus' = B_EMPTY
      /\ UNCHANGED <<spc, wpc, mem, disk, bufs, ended, counted, crashed, taken>>
  BY DEF DumpWrite, vars
<1>2. /\ counted \in Nat /\ taken \in Nat /\ counted <= taken /\ DiskStart \in Nat
      /\ taken <= MaxFrames /\ MaxFrames \in Nat
      /\ disk = Frames(DiskStart, counted)
      /\ file \in Seq(1..MaxFrames) /\ NothingTwice
      /\ \A i \in 1..Len(file) : file[i] <= DiskStart
  BY <1>1, RecorderAssumption
  DEF RecInv, Consecutive, FileInOrder, Unwritten
<1>3. DiskStart' = DiskStart /\ ~Unwritten'
  BY <1>1 DEF DiskStart, Unwritten
<1>4. Len(disk) \in Nat /\ Len(disk) = counted - DiskStart /\ DiskStart <= counted
  BY FileBelow
<1>5. Consecutive' /\ NothingEarly'
  <2>1. Consecutive'
    BY <1>1, <1>3 DEF RecInv, Consecutive
  <2>2. bufs # "none"
    BY <1>1 DEF RecInv, NothingEarly
  <2> QED
    BY <1>1, <2>1, <2>2 DEF RecInv, NothingEarly
<1>6. dropped' \in BOOLEAN /\ dropped \in BOOLEAN
  BY Zenon DEF DumpWrite, RecInv, BuffersFit
<1>7. BuffersFit'
  BY <1>1, <1>6 DEF RecInv, BuffersFit
<1>8. CASE file' = file /\ dropped'
  <2>1. \A i \in 1..Len(file) : file[i] <= counted
    BY FileBelow
  <2>2. FileInOrder'
    BY <1>1, <1>2, <1>3, <1>8, <2>1 DEF FileInOrder, NothingTwice
  <2>3. FileWhole'
    BY <1>8 DEF FileWhole
  <2> QED
    BY <1>5, <1>7, <2>2, <2>3 DEF RecInv
<1>9. CASE file' = file \o disk /\ dropped' = dropped
  <2>1. /\ Len(file) \in Nat
        /\ disk \in Seq(1..MaxFrames)
        /\ \A i \in 1..Len(file) : file[i] \in Int
        /\ \A i \in 1..Len(disk) : disk[i] = DiskStart + i
    <3>1. disk \in Seq(1..MaxFrames) /\ \A i \in 1..Len(disk) : disk[i] = DiskStart + i
      <4>1. counted <= MaxFrames
        BY <1>2
      <4>2. /\ Frames(DiskStart, counted) \in Seq(1..MaxFrames)
            /\ \A i \in 1..(counted - DiskStart) :
                 Frames(DiskStart, counted)[i] = DiskStart + i
        BY <1>2, <1>4, <4>1, FramesSeq
      <4> QED
        BY <1>2, <1>4, <4>2
    <3>2. Len(file) \in Nat /\ \A i \in 1..Len(file) : file[i] \in 1..MaxFrames
      BY <1>2, LenProperties, ElementOfSeq
    <3> QED
      BY <1>2, <3>1, <3>2
  <2>2. /\ file' \in Seq(1..MaxFrames)
        /\ Len(file') = Len(file) + Len(disk)
        /\ \A i \in 1..(Len(file) + Len(disk)) :
             file'[i] = IF i <= Len(file) THEN file[i] ELSE disk[i - Len(file)]
    BY <1>2, <1>9, <2>1, ConcatProperties
  <2>3. ASSUME NEW i \in 1..Len(file')
        PROVE  \/ i \in 1..Len(file) /\ file'[i] = file[i]
               \/ /\ i > Len(file) /\ i <= Len(file) + Len(disk)
                  /\ file'[i] = DiskStart + (i - Len(file))
    <3>1. CASE i <= Len(file)
      BY <1>4, <2>1, <2>2, <3>1
    <3>2. CASE ~(i <= Len(file))
      <4>1. i - Len(file) \in 1..Len(disk)
        BY <1>4, <2>1, <2>2, <3>2
      <4> QED
        BY <1>4, <2>1, <2>2, <3>2, <4>1
    <3> QED
      BY <3>1, <3>2
  <2>4. \A i \in 1..Len(file') : file'[i] <= counted
    <3> SUFFICES ASSUME NEW i \in 1..Len(file') PROVE file'[i] <= counted
      OBVIOUS
    <3>1. CASE i \in 1..Len(file) /\ file'[i] = file[i]
      <4>1. file[i] \in Int /\ file[i] <= DiskStart
        BY <1>2, <2>1, <3>1
      <4> QED
        BY <1>2, <1>4, <3>1, <4>1
    <3>2. CASE i <= Len(file) + Len(disk) /\ file'[i] = DiskStart + (i - Len(file))
      BY <1>2, <1>4, <2>1, <2>2, <3>2
    <3> QED
      BY <2>3, <3>1, <3>2
  <2>5. NothingTwice'
    <3> SUFFICES ASSUME NEW i \in 1..Len(file'), NEW j \in 1..Len(file'), i < j
                 PROVE  file'[i] < file'[j]
      BY DEF NothingTwice
    <3>1. CASE j \in 1..Len(file)
      <4>1. i \in 1..Len(file)
        BY <1>4, <2>1, <2>2, <3>1
      <4>2. file'[i] = file[i] /\ file'[j] = file[j]
        BY <2>3, <3>1, <4>1
      <4> QED
        BY <1>2, <3>1, <4>1, <4>2 DEF NothingTwice
    <3>2. CASE j > Len(file)
      <4>1. file'[j] = DiskStart + (j - Len(file))
        BY <2>1, <2>3, <3>2
      <4>2. CASE i \in 1..Len(file) /\ file'[i] = file[i]
        <5>1. file[i] \in Int /\ file[i] <= DiskStart
          BY <1>2, <2>1, <4>2
        <5> QED
          BY <1>2, <2>1, <2>2, <3>2, <4>1, <4>2, <5>1
      <4>3. CASE file'[i] = DiskStart + (i - Len(file))
        BY <1>2, <1>4, <2>1, <2>2, <4>1, <4>3
      <4> QED
        BY <2>3, <4>2, <4>3
    <3> QED
      BY <1>4, <2>1, <2>2, <3>1, <3>2
  <2>6. FileInOrder'
    BY <1>1, <1>3, <2>2, <2>4, <2>5 DEF FileInOrder
  <2>7. FileWhole'
    <3> SUFFICES ASSUME ~dropped, ~ended
                 PROVE  file' = Frames(0, counted)
      BY <1>1, <1>9 DEF FileWhole
    <3>1. file = Frames(0, DiskStart)
      BY <1>1 DEF RecInv, FileWhole
    <3>2. 0 \in Nat /\ 0 <= DiskStart
      BY <1>2
    <3>3. Frames(0, DiskStart) \o Frames(DiskStart, counted) = Frames(0, counted)
      BY <1>2, <1>4, <3>2, FramesJoin
    <3> QED
      BY <1>2, <1>9, <3>1, <3>3
  <2> QED
    BY <1>5, <1>7, <2>6, <2>7 DEF RecInv
<1> QED
  BY <1>8, <1>9 DEF DumpWrite

(* A recorder that has not started yet satisfies the invariant. *)
LEMMA InitRecInv == RecorderInit => RecInv
<1> SUFFICES ASSUME RecorderInit PROVE RecInv
  OBVIOUS
<1>1. /\ spc = "init" /\ wpc = "idle" /\ mem = <<>> /\ disk = <<>> /\ bstatus = B_EMPTY
      /\ dpc = "none" /\ bufs = "none" /\ counted = 0 /\ file = <<>> /\ taken = 0
      /\ ended = FALSE
      /\ MaxFrames \in Nat /\ Capacity \in Nat /\ 0 < Capacity
  BY RecorderAssumption DEF RecorderInit, Init
<1>2. {ended, crashed, dropped} \subseteq BOOLEAN
  BY Zenon DEF RecorderInit
<1>3. Len(<<>>) = 0 /\ <<>> \in Seq(1..MaxFrames) /\ Frames(0, 0) = <<>>
  BY EmptySeq, NoFrames
<1>4. DiskStart = 0
  <2>1. Len(disk) = 0 /\ counted = 0
    BY <1>1, <1>3
  <2> QED
    BY <2>1 DEF DiskStart
<1>5. Consecutive /\ FileInOrder /\ FileWhole
  BY <1>1, <1>3, <1>4 DEF Consecutive, FileInOrder, NothingTwice, FileWhole
<1>6. NothingEarly /\ BuffersFit
  BY <1>1, <1>2 DEF NothingEarly, BuffersFit
<1> QED
  BY <1>5, <1>6 DEF RecInv

(* No step of a recorder breaks it. *)
LEMMA StepRecInv == RecInv /\ [RecorderNext]_allvars => RecInv'
<1> SUFFICES ASSUME RecInv, [RecorderNext]_allvars PROVE RecInv'
  OBVIOUS
<1> USE DEF RecInv, Consecutive, DiskStart, FileInOrder, NothingTwice, Unwritten, FileWhole,
            NothingEarly, BuffersFit
<1>1. CASE \/ RecorderControl \/ Quiet(EventsReturn) \/ Quiet(DrainReturn)
           \/ Quiet(\E d \in Dirs : GiveBack(d)) \/ Quiet(CbOutData)
           \/ (\E d \in Dirs : Quiet(CbCheck(d)) \/ RecorderSubmit(d))
           \/ InDiscarded \/ Signal
  <2>1. UNCHANGED rvars /\ spc' = spc
    BY <1>1
    DEF RecorderControl, Quiet, Control, BootIn, BootOut, FirstSubmit, SetReady, AwaitSteady,
        ToBoot, Reset, Enter, CheckLoop, ExitCheck, EngineStep, EventsReturn, DrainReturn,
        GiveBack, CbOutData, CbCheck, RecorderSubmit, CbSubmit, CallbackStep, InDiscarded,
        CbInData, Signal
  <2> HIDE DEF RecInv
  <2> QED
    BY <2>1, QuietRecInv
<1>2. CASE Quiet(StartEngine \/ PollStarted \/ JoinEngine) \/ (Faults /\ Quiet(StartFails))
  <2>1. /\ UNCHANGED rvars
        /\ spc' \in {"init", "poll", "up"} => spc \in {"init", "poll", "up"}
    BY <1>2 DEF Quiet, StartEngine, PollStarted, JoinEngine, StartFails
  <2> HIDE DEF RecInv
  <2> QED
    BY <2>1, QuietRecInv
<1>3. CASE InToWrite
  BY <1>3 DEF InToWrite, vars
<1>4. CASE BufferWrite
  <2> HIDE DEF RecInv
  <2> QED
    BY <1>4, BufferWriteRecInv
<1>5. CASE Crash
  BY <1>5 DEF Crash, vars
<1>6. CASE DumpPoll
  BY <1>6 DEF DumpPoll, vars
<1>7. CASE DumpWrite
  <2> HIDE DEF RecInv
  <2> QED
    BY <1>7, DumpWriteRecInv
<1>8. CASE StartDisk
  BY <1>8 DEF StartDisk, WaitEngine
<1>9. CASE DiskFails
  BY <1>9 DEF DiskFails
<1>10. CASE EndDisk
  <2>1. UNCHANGED <<mem, disk, dpc, bufs, counted, file, taken, spc>>
    BY <1>10 DEF EndDisk, vars
  <2>2. \A i \in 1..Len(file) : file[i] <= counted
    BY FileBelow
  <2> QED
    BY <1>10, <2>1, <2>2 DEF EndDisk
<1>11. CASE Close
  BY <1>11 DEF Close, DestroyEngine
<1>12. CASE Over \/ UNCHANGED allvars
  <2>1. UNCHANGED rvars /\ spc' = spc
    BY <1>12 DEF Over, allvars, vars
  <2> HIDE DEF RecInv
  <2> QED
    BY <2>1, QuietRecInv
<1> QED
  BY <1>1, <1>2, <1>3, <1>4, <1>5, <1>6, <1>7, <1>8, <1>9, <1>10, <1>11, <1>12
  DEF RecorderNext, RecorderCallback, DiskThread, MainThread

LEMMA RecInvariance == RecorderSpec => []RecInv
BY InitRecInv, StepRecInv, PTL DEF RecorderSpec

(* Until the disk thread is told to end, and unless frames were dropped,   *)
(* the file, the buffer to be written and the one being filled are every   *)
(* frame that the engine received.                                         *)
THEOREM RecordingIsIntact == RecorderSpec => []RecordingIntact
<1>1. ASSUME RecInv PROVE RecordingIntact
  <2> SUFFICES ASSUME ~dropped, ~ended
               PROVE  /\ file \o Pending \o mem = [i \in 1..taken |-> i]
                      /\ counted = Len(file \o Pending)
    BY DEF RecordingIntact
  <2>1. /\ counted \in Nat /\ taken \in Nat /\ counted <= taken /\ DiskStart \in Nat
        /\ mem = Frames(counted, taken)
        /\ disk = Frames(DiskStart, counted)
    BY <1>1, RecorderAssumption DEF RecInv, Consecutive
  <2>2. DiskStart <= counted /\ 0 \in Nat /\ 0 <= DiskStart /\ 0 <= counted
    BY <1>1, <2>1, FileBelow
  <2>3. file \o Pending = Frames(0, counted)
    <3>1. CASE bstatus = B_READY
      <4>1. file = Frames(0, DiskStart)
        BY <1>1, <3>1 DEF RecInv, FileWhole
      <4>2. Frames(0, DiskStart) \o Frames(DiskStart, counted) = Frames(0, counted)
        BY <2>1, <2>2, FramesJoin
      <4> QED
        BY <2>1, <3>1, <4>1, <4>2 DEF Pending
    <3>2. CASE bstatus # B_READY
      <4>1. file = Frames(0, counted)
        BY <1>1, <3>2 DEF RecInv, FileWhole
      <4>2. Frames(0, counted) \o Frames(counted, counted) = Frames(0, counted)
        <5>1. counted <= counted
          BY <2>1
        <5> QED
          BY <2>1, <2>2, <5>1, FramesJoin
      <4> QED
        BY <2>1, <3>2, <4>1, <4>2, NoFrames DEF Pending
    <3> QED
      BY <3>1, <3>2
  <2>4. Frames(0, counted) \o Frames(counted, taken) = Frames(0, taken)
    BY <2>1, <2>2, FramesJoin
  <2>5. Frames(0, taken) = [i \in 1..taken |-> i]
    BY <2>1 DEF Frames
  <2>6. Len(Frames(0, counted)) = counted
    <3>1. Len(Frames(0, counted)) = counted - 0
      BY <2>1, <2>2, FramesSeq
    <3> QED
      BY <2>1, <3>1
  <2> QED
    BY <2>1, <2>3, <2>4, <2>5, <2>6
<1> QED
  BY <1>1, RecInvariance, PTL

(* However slow the disk thread is, and whatever fails, the file is in     *)
(* order and has no frame twice.                                           *)
THEOREM NothingIsTwice == RecorderSpec => []NothingTwice
<1>1. RecInv => NothingTwice
  BY DEF RecInv, FileInOrder
<1> QED
  BY <1>1, RecInvariance, PTL

-----------------------------------------------------------------------------
(***************************************************************************)
(* The engine of a recorder.                                               *)
(***************************************************************************)
EngineInv == IInv /\ InOneHand /\ BootedOrStopped

(* Every step of a recorder is a step of the engine with some client, but  *)
(* for the way out of run_record that leaves the engine running.           *)
LEMMA EngineOrDiskFails == [RecorderNext]_allvars => [Next]_vars \/ DiskFails
<1> SUFFICES ASSUME [RecorderNext]_allvars PROVE [Next]_vars \/ DiskFails
  OBVIOUS
<1>1. CASE \/ RecorderControl \/ Quiet(EventsReturn) \/ Quiet(DrainReturn)
           \/ Quiet(\E d \in Dirs : GiveBack(d)) \/ Quiet(CbOutData)
           \/ (\E d \in Dirs : Quiet(CbCheck(d)) \/ RecorderSubmit(d))
           \/ InDiscarded \/ BufferWrite
  BY <1>1
  DEF RecorderControl, Quiet, RecorderSubmit, InDiscarded, BufferWrite, Next, EngineThread,
      Callback
<1>2. CASE \/ Quiet(StartEngine \/ PollStarted \/ JoinEngine) \/ (Faults /\ Quiet(StartFails))
           \/ StartDisk \/ Close
  BY <1>2 DEF Quiet, StartDisk, Close, Next, Caller, Owner
<1>3. CASE Signal
  BY <1>3 DEF Signal, Quiet, Stop, Next, Client
<1>4. CASE InToWrite \/ Crash \/ DiskThread \/ EndDisk \/ Over \/ UNCHANGED allvars
  BY <1>4 DEF InToWrite, Crash, DiskThread, DumpPoll, DumpWrite, EndDisk, Over, allvars
<1>5. CASE DiskFails
  BY <1>5
<1> QED
  BY <1>1, <1>2, <1>3, <1>4, <1>5 DEF RecorderNext, RecorderCallback, MainThread

(* The recorder makes no engine READY or STEADY. *)
LEMMA RecorderBooted ==
  EngineInv /\ [RecorderNext]_allvars => BootedOrStopped'
<1> SUFFICES ASSUME EngineInv, [RecorderNext]_allvars PROVE BootedOrStopped'
  OBVIOUS
<1>1. IInv /\ BootedOrStopped /\ ~Dll /\ (spc = "init" => epc = "none")
  BY RecorderAssumption DEF EngineInv, IInv, StartedOnce
<1>2. ASSUME epc' = epc \/ epc' = "boot_in", status' = status \/ status' <= STOP
      PROVE  BootedOrStopped'
  BY <1>1, <1>2 DEF BootedOrStopped
<1>3. CASE RecorderControl \/ Quiet(EventsReturn) \/ Quiet(DrainReturn)
  BY <1>1, <1>3, ControlBooted DEF RecorderControl, Quiet
<1>4. CASE \/ Quiet(\E d \in Dirs : GiveBack(d)) \/ Quiet(CbOutData)
           \/ (\E d \in Dirs : Quiet(CbCheck(d)) \/ RecorderSubmit(d))
           \/ InToWrite \/ InDiscarded \/ BufferWrite
  BY <1>2, <1>4
  DEF Quiet, GiveBack, CbOutData, CbCheck, RecorderSubmit, CbSubmit, CallbackStep, SetStatus,
      InToWrite, InDiscarded, BufferWrite, CbInData, vars, thread
<1>5. CASE MainThread
  BY <1>2, <1>5
  DEF MainThread, Quiet, StartEngine, PollStarted, JoinEngine, StartFails, StartDisk,
      WaitEngine, DiskFails, EndDisk, Close, DestroyEngine, vars, thread
<1>6. CASE Signal
  BY <1>2, <1>6 DEF Signal, Quiet, Stop, SetStatus, thread
<1>7. CASE Crash \/ DiskThread \/ Over \/ UNCHANGED allvars
  BY <1>2, <1>7 DEF Crash, DiskThread, DumpPoll, DumpWrite, Over, allvars, vars, thread
<1> QED
  BY <1>3, <1>4, <1>5, <1>6, <1>7 DEF RecorderNext, RecorderCallback

(* Every step keeps the invariant and is a step of the contract. *)
LEMMA StepEngineInv ==
  EngineInv /\ [RecorderNext]_allvars => EngineInv' /\ [Contract!Next]_(Contract!cvars)
<1> SUFFICES ASSUME EngineInv, [RecorderNext]_allvars
             PROVE  EngineInv' /\ [Contract!Next]_(Contract!cvars)
  OBVIOUS
<1>1. IInv /\ InOneHand /\ BootedOrStopped /\ DrainsHalted /\ BootedOrStopped'
  BY RecorderBooted DEF EngineInv, BootedOrStopped, DrainsHalted
<1>2. CASE [Next]_vars
  <2>1. IInv' /\ InOneHand'
    BY <1>1, <1>2, StepIInv, StepInOneHand
  <2>2. [Contract!Next]_(Contract!cvars)
    BY <1>1, <1>2, <2>1, ContractStep
  <2> QED
    BY <1>1, <2>1, <2>2 DEF EngineInv
<1>3. CASE DiskFails
  <2>1. UNCHANGED <<status, reading_at_h2o_end, inflight, refused, epc, cb, cpc>>
        /\ spc' = "failed"
    BY <1>3 DEF DiskFails, thread
  <2>2. TypeOK /\ TypeOK'
    BY <1>1, <2>1 DEF IInv, TypeOK, CallerPcs
  <2>3. IInv' /\ InOneHand'
    BY <1>1, <2>1, <2>2
    DEF IInv, StartedOnce, FirstSubmissions, CallbacksInLibusb, SilentEntry,
        StreamSustained, WaitMeansSilent, InOneHand
  <2>4. [Contract!Next]_(Contract!cvars)
    BY <2>1, <2>2, QuietContract
  <2> QED
    BY <1>1, <2>3, <2>4 DEF EngineInv
<1> QED
  BY <1>2, <1>3, EngineOrDiskFails

LEMMA InitEngineInv == RecorderInit => EngineInv
BY InitIInv, InitInOneHand DEF RecorderInit, Init, EngineInv, BootedOrStopped

LEMMA RecInvTypes ==
  ASSUME TypeOK, RecInv
  PROVE  RecorderTypeOK
<1>1. /\ counted \in Nat /\ taken \in Nat /\ counted <= taken /\ DiskStart \in Nat
      /\ MaxFrames \in Nat /\ taken <= MaxFrames
      /\ mem = Frames(counted, taken)
      /\ disk = Frames(DiskStart, counted)
  BY RecorderAssumption DEF RecInv, Consecutive
<1>2. DiskStart <= counted /\ counted <= MaxFrames
  BY <1>1, FileBelow
<1>3. mem \in Seq(1..MaxFrames) /\ disk \in Seq(1..MaxFrames)
  BY <1>1, <1>2, FramesSeq
<1>4. Len(mem) < Capacity
  BY <1>1, FramesSeq DEF RecInv, BuffersFit
<1> QED
  BY <1>1, <1>2, <1>3, <1>4 DEF RecInv, FileInOrder, BuffersFit, RecorderTypeOK

(* Every variable of a recorder keeps its type; buffer.mem never holds as  *)
(* many frames as buffer.len.                                              *)
THEOREM RecorderTypes == RecorderSpec => []RecorderTypeOK
<1>1. EngineInv => TypeOK
  BY DEF EngineInv, IInv
<1> QED
  BY <1>1, RecInvTypes, InitEngineInv, StepEngineInv, RecInvariance, PTL DEF RecorderSpec

(* The engine of a recorder implements StreamContract, even when the disk  *)
(* thread cannot be created and the engine is left running.                *)
THEOREM RecorderKeepsContract == RecorderSpec => KeepsContract
<1>1. RecorderInit => Contract!Init
  BY InitContract DEF RecorderInit
<1>2. EngineInv /\ [RecorderNext]_allvars => EngineInv'
  BY StepEngineInv
<1>3. EngineInv /\ [RecorderNext]_allvars => [Contract!Next]_(Contract!cvars)
  BY StepEngineInv
<1> QED
  BY <1>1, <1>2, <1>3, InitEngineInv, PTL DEF RecorderSpec, KeepsContract, Contract!Spec

=============================================================================
