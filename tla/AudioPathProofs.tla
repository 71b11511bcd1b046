-------------------------- MODULE AudioPathProofs --------------------------
(***************************************************************************)
(* What a clear leaves behind in the two rings, for transfers, periods and *)
(* rings of every size.                                                    *)
(***************************************************************************)
EXTENDS AudioPath, TLAPS

AnyRing == [old : Nat, new : Nat]

(* The types that the argument needs; rings need no upper bound. *)
PathType ==
  /\ o2h \in AnyRing
  /\ h2o \in AnyRing
  /\ rs \in Nat

(* A callback in the out direction saw at least all that is old: its look  *)
(* came after the lap began, and nobody ages frames or reads them since.   *)
SawTheOld == cb = "out" => rs >= h2o.old /\ rs <= Filled(h2o)

(* A lap begins with no callback, and with the flag reset. *)
QuietBetweenLaps == epc = "clear" => cb = "idle"

(* The resampler does not read from its drain until the engine is told.    *)
NotReadingToClear == jpc = "clear" => ~reading_o2h

(* If the engine is about to begin a lap, and age the whole ring, while    *)
(* the resampler reads already, then the ring holds no more than           *)
(* PullBegin left and one callback that had looked at the status before.   *)
LittleToAge ==
  reading_o2h /\ jpc # "drain" /\ (status \in {"BOOT", "CLEAR"} \/ epc = "clear") =>
    Filled(o2h) + (IF cb = "in" THEN Transfer ELSE 0) < BufSize + Transfer

LittleOld == reading_o2h /\ jpc # "drain" => o2h.old < BufSize + Transfer

(* The inductive invariant. *)
PathInv ==
  /\ PathType
  /\ QuietBetweenLaps
  /\ SawTheOld
  /\ NoFormerAudio
  /\ NotReadingToClear
  /\ LittleToAge
  /\ LittleOld

-----------------------------------------------------------------------------
(* Reading takes the old frames first and leaves the rest (Read).          *)
LEMMA ReadRing ==
  ASSUME NEW r \in AnyRing, NEW n \in Nat, n <= Filled(r)
  PROVE  /\ Read(r, n) \in AnyRing
         /\ Filled(Read(r, n)) = Filled(r) - n
         /\ Read(r, n).old <= r.old
         /\ n >= r.old => Read(r, n).old = 0
BY DEF Read, Filled, AnyRing

(* A write adds new frames or none (Write).                                *)
LEMMA WriteRing ==
  ASSUME NEW r \in AnyRing, NEW n \in Nat
  PROVE  /\ Write(r, n) \in AnyRing
         /\ Filled(Write(r, n)) \in {Filled(r), Filled(r) + n}
         /\ Write(r, n).old = r.old
BY DEF Write, Filled, AnyRing

(* Throwing whole periods away leaves less than one (resampler.c:313).     *)
LEMMA LessThanAPeriod ==
  ASSUME NEW n \in Nat
  PROVE  /\ WholePeriods(n) \in Nat
         /\ WholePeriods(n) <= n
         /\ n - WholePeriods(n) < BufSize
BY AudioPathAssumption DEF WholePeriods

(* The initial state satisfies the invariant. *)
LEMMA PathInit == Init => PathInv
BY AudioPathAssumption
  DEF Init, PathInv, PathType, AnyRing, Empty, QuietBetweenLaps, SawTheOld,
      NoFormerAudio, NotReadingToClear, LittleToAge, LittleOld, Filled

(* Every step preserves the invariant. *)
LEMMA PathStep == PathInv /\ [Next]_vars => PathInv'
<1> SUFFICES ASSUME PathInv, [Next]_vars
             PROVE  PathInv'
  OBVIOUS
<1> USE AudioPathAssumption
    DEF PathInv, PathType, QuietBetweenLaps, SawTheOld, NoFormerAudio,
        NotReadingToClear, LittleToAge, LittleOld, host
<1>n. Filled(o2h) \in Nat /\ Filled(h2o) \in Nat
  BY DEF Filled, AnyRing
<1>1. CASE InStart
  BY <1>1 DEF InStart, CallbackStep
<1>2. CASE InWrite
  <2>1. /\ o2h' = Write(o2h, Transfer)
        /\ cb = "in"
        /\ cb' = "latency"
        /\ UNCHANGED <<h2o, rs, status, epc, reading_h2o, jpc, reading_o2h>>
    BY <1>2 DEF InWrite, CallbackStep
  <2>2. /\ o2h' \in AnyRing
        /\ Filled(o2h') \in {Filled(o2h), Filled(o2h) + Transfer}
        /\ o2h'.old = o2h.old
    BY <2>1, WriteRing
  <2> QED
    BY <2>1, <2>2, <1>n DEF AnyRing
<1>3. CASE InLatency
  BY <1>3 DEF InLatency, CallbackStep
<1>4. CASE OutStart
  <2>1. rs' = Filled(h2o) /\ h2o.old <= Filled(h2o)
    BY <1>4 DEF OutStart, Filled, AnyRing
  <2> QED
    BY <1>4, <1>n, <2>1 DEF OutStart, CallbackStep
<1>5. CASE OutAct
  <2>1. /\ cb = "out"
        /\ cb' = "idle"
        /\ rs' = 0
        /\ UNCHANGED <<o2h, status, epc, jpc, reading_o2h>>
    BY <1>5 DEF OutAct, OutBegin, OutHold, OutTransfer, OutStretch, OutSilence,
                OutReading, OutStep
  <2>2. CASE OutBegin
    <3>1. h2o' \in AnyRing /\ h2o'.old = 0
      BY <2>1, <2>2, ReadRing DEF OutBegin
    <3> QED
      BY <2>1, <3>1
  <2>3. CASE OutTransfer \/ OutStretch
    <3>1. \E n \in {Transfer, rs} : n <= rs /\ h2o' = Read(h2o, n)
      BY <2>3 DEF OutTransfer, OutStretch
    <3>2. reading_h2o /\ h2o.old = 0
      BY <2>3 DEF OutTransfer, OutStretch, OutReading
    <3>3. h2o' \in AnyRing /\ h2o'.old <= 0
      BY <2>1, <3>1, <3>2, <1>n, ReadRing
    <3> QED
      BY <2>1, <3>3 DEF AnyRing
  <2>4. CASE OutHold \/ OutSilence
    BY <2>1, <2>4 DEF OutHold, OutSilence, OutReading
  <2> QED
    BY <1>5, <2>2, <2>3, <2>4 DEF OutAct
<1>6. CASE LeaveLoop
  BY <1>6 DEF LeaveLoop, Empty, AnyRing
<1>7. CASE EnterLoop
  <2>1. /\ o2h' \in AnyRing /\ o2h'.old = Filled(o2h)
        /\ h2o' \in AnyRing
    BY <1>7, <1>n DEF EnterLoop, Aged, AnyRing
  <2>2. status' \notin {"BOOT", "CLEAR"} /\ epc' = "loop" /\ cb' = "idle"
    BY <1>7 DEF EnterLoop, Entered
  <2> QED
    BY <1>7, <2>1, <2>2, <1>n DEF EnterLoop
<1>8. CASE Steady \/ StartRunning \/ Retune \/ SetSampleRate
  BY <1>8 DEF Steady, StartRunning, Retune, SetSampleRate, JackStep
<1>9. CASE Drain
  BY <1>9 DEF Drain, JackStep, Empty, AnyRing
<1>10. CASE Clear
  BY <1>10 DEF Clear, JackStep
<1>11. ASSUME NEW to \in {"read", "write"}, Pull(to)
       PROVE  PathInv'
  <2>1. /\ jpc = "read" /\ jpc' = to
        /\ UNCHANGED <<h2o, rs, status, epc, cb, reading_h2o>>
    BY <1>11 DEF Pull, PullFrames, PullUnderflow, PullBegin, PullHold,
                 PullStep, JackStep
  <2>2. CASE PullFrames(to)
    <3>1. \E n \in 0..Filled(o2h) : o2h' = Read(o2h, n)
      <4>1. \A a \in Nat, b \in Nat : Min({a, b}) \in Nat /\ Min({a, b}) <= b
        BY DEF Min
      <4> QED
        BY <2>2, <1>n, <4>1 DEF PullFrames
    <3>2. /\ o2h' \in AnyRing
          /\ Filled(o2h') <= Filled(o2h)
          /\ o2h'.old <= o2h.old
      BY <3>1, <1>n, ReadRing
    <3>3. reading_o2h' = reading_o2h
      BY <2>2 DEF PullFrames
    <3>4. Filled(o2h') \in Nat
      BY <3>2 DEF Filled, AnyRing
    <3> QED
      BY <2>1, <3>2, <3>3, <3>4, <1>n, <1>11 DEF AnyRing
  <2>3. CASE PullBegin(to)
    <3>1. o2h' \in AnyRing /\ Filled(o2h') < BufSize
      BY <2>3, <1>n, ReadRing, LessThanAPeriod DEF PullBegin
    <3>2. o2h'.old <= Filled(o2h') /\ o2h'.old \in Nat /\ Filled(o2h') \in Nat
      BY <3>1 DEF Filled, AnyRing
    <3> QED
      BY <2>1, <3>1, <3>2, <1>11
  <2>4. CASE PullUnderflow(to) \/ PullHold(to)
    BY <2>1, <2>4, <1>11 DEF PullUnderflow, PullHold
  <2> QED
    BY <1>11, <2>2, <2>3, <2>4 DEF Pull
<1>12. CASE WriteAudio
  <2>1. /\ jpc = "write" /\ jpc' = "idle"
        /\ UNCHANGED <<o2h, rs, status, epc, cb, reading_h2o, reading_o2h>>
    BY <1>12 DEF WriteAudio, JackStep
  <2>2. h2o' = h2o \/ \E n \in Nat : h2o' = Write(h2o, n)
    BY <1>12 DEF WriteAudio
  <2>3. CASE h2o' = h2o
    BY <2>1, <2>3
  <2>4. ASSUME NEW n \in Nat, h2o' = Write(h2o, n)
        PROVE  PathInv'
    <3>1. /\ h2o' \in AnyRing
          /\ Filled(h2o') \in {Filled(h2o), Filled(h2o) + n}
          /\ h2o'.old = h2o.old
      BY <2>4, WriteRing
    <3>2. rs <= Filled(h2o) => rs <= Filled(h2o')
      BY <3>1, <1>n
    <3> QED
      BY <2>1, <3>1, <3>2
  <2> QED
    BY <2>2, <2>3, <2>4
<1>13. CASE UNCHANGED vars
  BY <1>13 DEF vars, engine
<1> QED
  BY <1>1, <1>2, <1>3, <1>4, <1>5, <1>6, <1>7, <1>8, <1>9, <1>10, <1>11,
     <1>12, <1>13
  DEF Next, EngineThread, Cycle

-----------------------------------------------------------------------------
(* The invariant holds in every behaviour. *)
LEMMA PathInvariant == Spec => []PathInv
BY PathInit, PathStep, PTL DEF Spec

(* No frame that JACK wrote before the engine's present lap is in the h2o  *)
(* ring while the device is sent audio (NoFormerAudio).                    *)
THEOREM FormerAudioIsGone == Spec => []NoFormerAudio
<1>1. PathInv => NoFormerAudio
  BY DEF PathInv
<1> QED
  BY <1>1, PathInvariant, PTL

(* What JACK may still hear of a former run is less than a period and a    *)
(* transfer (FormerAudioBounded).                                          *)
THEOREM FormerAudioIsBounded == Spec => []FormerAudioBounded
<1>1. PathInv => FormerAudioBounded
  BY DEF PathInv, LittleOld, FormerAudioBounded
<1> QED
  BY <1>1, PathInvariant, PTL

-----------------------------------------------------------------------------
(* The greater of two numbers (Max). *)
LEMMA MaxOfTwo ==
  ASSUME NEW a \in Nat, NEW b \in Nat
  PROVE  Max({a, b}) \in {a, b} /\ Max({a, b}) >= a /\ Max({a, b}) >= b
<1>1. \E x \in {a, b} : \A y \in {a, b} : x >= y
  OBVIOUS
<1> QED
  BY <1>1 DEF Max

(* A ring that is within its bounds stays there. *)
LEMMA ReadWithin ==
  ASSUME NEW r \in Rings, Filled(r) <= Ring, NEW n \in Nat, n <= Filled(r)
  PROVE  Read(r, n) \in Rings /\ Filled(Read(r, n)) \in 0..Ring
BY AudioPathAssumption DEF Read, Filled, Rings

LEMMA WriteWithin ==
  ASSUME NEW r \in Rings, Filled(r) <= Ring, NEW n \in Nat
  PROVE  Write(r, n) \in Rings /\ Filled(Write(r, n)) \in 0..Ring
BY AudioPathAssumption DEF Write, Filled, Rings

(* What is measured is never less than what the latencies start from.      *)
MaximaAboveMin == o2h_max >= LatencyMin /\ h2o_max >= LatencyMin

TypeInv == TypeOK /\ MaximaAboveMin

(* Each thread, given what the other leaves it (PathInv). *)
LEMMA TypeStep == PathInv /\ TypeInv /\ [Next]_vars => TypeInv'
<1> SUFFICES ASSUME PathInv, TypeInv, [Next]_vars PROVE TypeInv'
  OBVIOUS
<1> USE DEF TypeInv, TypeOK, MaximaAboveMin, LatencyMin, host
<1>1. /\ Transfer \in Nat \ {0} /\ Ring \in Nat /\ Transfer <= Ring
      /\ Resampled \subseteq Nat
      /\ MaxRead \in Nat
      /\ o2h \in Rings /\ h2o \in Rings
      /\ Filled(o2h) \in Nat /\ Filled(o2h) <= Ring
      /\ Filled(h2o) \in Nat /\ Filled(h2o) <= Ring
      /\ rs \in Nat /\ rs <= Ring
      /\ cb = "out" => rs <= Filled(h2o)
      /\ o2h_max \in Nat /\ o2h_max <= Ring /\ h2o_max \in Nat /\ h2o_max <= Ring
  BY AudioPathAssumption DEF PathInv, SawTheOld
<1>2. Empty \in Rings /\ Filled(Empty) = 0
  BY <1>1 DEF Empty, Rings, Filled
<1>3. CASE InStart
  BY <1>3 DEF InStart, CallbackStep
<1>4. CASE InWrite
  <2>1. o2h' \in Rings /\ Filled(o2h)' \in 0..Ring
    BY <1>1, <1>4, WriteWithin DEF InWrite
  <2> QED
    BY <1>4, <2>1 DEF InWrite, CallbackStep
<1>5. CASE InLatency
  <2>1. o2h_max' \in {o2h_max, Filled(o2h)} /\ o2h_max' >= o2h_max
    BY <1>1, <1>5, MaxOfTwo DEF InLatency
  <2> QED
    BY <1>1, <1>5, <2>1 DEF InLatency, CallbackStep
<1>6. CASE OutStart
  BY <1>1, <1>6 DEF OutStart, CallbackStep
<1>7. CASE OutAct
  <2>1. /\ cb = "out" /\ cb' = "idle" /\ rs' = 0
        /\ UNCHANGED <<status, epc, host, o2h>>
    BY <1>7
    DEF OutAct, OutBegin, OutHold, OutTransfer, OutStretch, OutSilence, OutReading, OutStep
  <2>2. h2o' = h2o \/ \E n \in {rs, Transfer} : n <= rs /\ h2o' = Read(h2o, n)
    BY <1>1, <1>7
    DEF OutAct, OutBegin, OutHold, OutTransfer, OutStretch, OutSilence, OutReading
  <2>3. h2o' \in Rings /\ Filled(h2o)' \in 0..Ring
    <3>1. CASE h2o' = h2o
      BY <1>1, <3>1
    <3>2. ASSUME NEW n \in {rs, Transfer}, n <= rs, h2o' = Read(h2o, n)
          PROVE  h2o' \in Rings /\ Filled(h2o)' \in 0..Ring
      BY <1>1, <2>1, <3>2, ReadWithin
    <3> QED
      BY <2>2, <3>1, <3>2
  <2>4. h2o_max' \in {h2o_max, rs} /\ h2o_max' >= h2o_max
    BY <1>1, <1>7, MaxOfTwo
    DEF OutAct, OutBegin, OutHold, OutTransfer, OutStretch, OutSilence, OutReading
  <2>5. o2h_max' \in {o2h_max, Transfer} /\ reading_h2o' \in BOOLEAN
    BY <1>7
    DEF OutAct, OutBegin, OutHold, OutTransfer, OutStretch, OutSilence, OutReading
  <2> QED
    BY <1>1, <2>1, <2>3, <2>4, <2>5
<1>8. CASE LeaveLoop
  BY <1>1, <1>2, <1>8 DEF LeaveLoop
<1>9. CASE EnterLoop
  <2>1. Aged(o2h) \in Rings /\ Filled(Aged(o2h)) = Filled(o2h)
    BY <1>1 DEF Aged, Rings, Filled
  <2>2. Aged(h2o) \in Rings /\ Filled(Aged(h2o)) = Filled(h2o)
    BY <1>1 DEF Aged, Rings, Filled
  <2>3. status' \in {"BOOT", "CLEAR", "WAIT", "RUN"}
    BY <1>9 DEF EnterLoop, Entered
  <2>4. /\ o2h' \in Rings /\ Filled(o2h)' \in 0..Ring
        /\ h2o' \in Rings /\ Filled(h2o)' \in 0..Ring
    BY <1>1, <1>9, <2>1, <2>2 DEF EnterLoop
  <2>5. /\ epc' = "loop"
        /\ o2h_max' = Transfer /\ h2o_max' = Transfer
        /\ UNCHANGED <<cb, rs, rstatus, jpc>>
    BY <1>9 DEF EnterLoop
  <2>6. {reading_h2o', reading_o2h'} \subseteq BOOLEAN
    BY <1>9, Zenon DEF EnterLoop
  <2> QED
    BY <1>1, <2>3, <2>4, <2>5, <2>6
<1>10. CASE Steady \/ StartRunning \/ Retune \/ SetSampleRate \/ Clear
  <2>1. /\ UNCHANGED <<epc, cb, rs, reading_h2o, h2o_max, o2h_max, reading_o2h, o2h, h2o>>
        /\ status' \in {"BOOT", "CLEAR", "WAIT", "RUN"}
        /\ rstatus' \in {"TUNE", "RUN", "RETUNE"}
        /\ jpc' \in {"idle", "drain", "clear", "read", "write"}
    BY <1>10 DEF Steady, StartRunning, Retune, SetSampleRate, Clear, JackStep
  <2> QED
    BY <1>1, <2>1
<1>11. CASE Drain
  <2>1. {reading_h2o', reading_o2h'} \subseteq BOOLEAN
    BY <1>11, Zenon DEF Drain, JackStep
  <2> QED
    BY <1>1, <1>2, <1>11, <2>1 DEF Drain, JackStep
<1>12. ASSUME NEW to \in {"read", "write"}, Pull(to)
       PROVE  TypeInv'
  <2>1. /\ UNCHANGED <<status, epc, cb, rs, reading_h2o, h2o_max, rstatus, h2o>>
        /\ jpc' = to /\ reading_o2h' \in BOOLEAN
        /\ o2h_max' \in {o2h_max, Transfer}
    BY <1>12 DEF Pull, PullFrames, PullUnderflow, PullBegin, PullHold, PullStep, JackStep
  <2>2. \/ o2h' = o2h
        \/ \E n \in Nat : n <= Filled(o2h) /\ o2h' = Read(o2h, n)
    <3>1. Min({MaxRead, Filled(o2h)}) \in Nat /\ Min({MaxRead, Filled(o2h)}) <= Filled(o2h)
      <4>1. \A a \in Nat, b \in Nat : Min({a, b}) \in Nat /\ Min({a, b}) <= b
        BY DEF Min
      <4> QED
        BY <1>1, <4>1
    <3>2. WholePeriods(Filled(o2h)) \in Nat /\ WholePeriods(Filled(o2h)) <= Filled(o2h)
      BY <1>1, LessThanAPeriod
    <3> QED
      BY <1>12, <3>1, <3>2 DEF Pull, PullFrames, PullUnderflow, PullBegin, PullHold
  <2>3. o2h' \in Rings /\ Filled(o2h)' \in 0..Ring
    <3>1. CASE o2h' = o2h
      BY <1>1, <3>1
    <3>2. ASSUME NEW n \in Nat, n <= Filled(o2h), o2h' = Read(o2h, n)
          PROVE  o2h' \in Rings /\ Filled(o2h)' \in 0..Ring
      BY <1>1, <3>2, ReadWithin
    <3> QED
      BY <2>2, <3>1, <3>2
  <2> QED
    BY <1>1, <2>1, <2>3
<1>13. CASE WriteAudio
  <2>1. h2o' = h2o \/ \E n \in Resampled : h2o' = Write(h2o, n)
    BY <1>13 DEF WriteAudio
  <2>2. h2o' \in Rings /\ Filled(h2o)' \in 0..Ring
    <3>1. CASE h2o' = h2o
      BY <1>1, <3>1
    <3>2. ASSUME NEW n \in Resampled, h2o' = Write(h2o, n)
          PROVE  h2o' \in Rings /\ Filled(h2o)' \in 0..Ring
      BY <1>1, <3>2, WriteWithin
    <3> QED
      BY <2>1, <3>1, <3>2
  <2> QED
    BY <1>1, <1>13, <2>2 DEF WriteAudio, JackStep
<1>14. CASE UNCHANGED vars
  BY <1>14 DEF vars, engine
<1> QED
  BY <1>3, <1>4, <1>5, <1>6, <1>7, <1>8, <1>9, <1>10, <1>11, <1>12, <1>13, <1>14
  DEF Next, EngineThread, Cycle

(* An empty path has its type. *)
LEMMA TypeInit == Init => TypeInv
<1> SUFFICES ASSUME Init PROVE TypeInv
  OBVIOUS
<1>1. /\ Transfer \in Nat /\ Ring \in Nat /\ Transfer <= Ring
      /\ o2h = Empty /\ h2o = Empty /\ rs = 0
      /\ o2h_max = Transfer /\ h2o_max = Transfer
  BY AudioPathAssumption DEF Init, LatencyMin
<1>2. o2h \in Rings /\ h2o \in Rings /\ Filled(o2h) = 0 /\ Filled(h2o) = 0
  BY <1>1 DEF Empty, Rings, Filled
<1>3. {reading_h2o, reading_o2h} \subseteq BOOLEAN
  BY Zenon DEF Init
<1> QED
  BY <1>1, <1>2, <1>3 DEF Init, TypeInv, TypeOK, MaximaAboveMin, LatencyMin

LEMMA TypeInvariant == Spec => []TypeInv
BY TypeInit, TypeStep, PathInvariant, PTL DEF Spec

(* No ring ever holds more than it can, and every variable keeps its type. *)
THEOREM PathTypes == Spec => []TypeOK
<1>1. TypeInv => TypeOK
  BY DEF TypeInv
<1> QED
  BY <1>1, TypeInvariant, PTL

(* The latency range that JACK is told is never empty. *)
THEOREM RangeIsNotEmpty == Spec => []LatencyRange
<1>1. ASSUME TypeInv PROVE LatencyRange
  <2>1. BufSize \in Nat /\ Transfer \in Nat /\ Ring \in Nat
    BY AudioPathAssumption
  <2> SUFFICES ASSUME NEW max \in {o2h_max, h2o_max}
               PROVE  Reported(max).min <= Reported(max).max
    BY DEF LatencyRange
  <2>2. max \in Nat /\ max >= Transfer
    BY <1>1, <2>1 DEF TypeInv, TypeOK, MaximaAboveMin, LatencyMin
  <2>3. /\ Max({max, BufSize}) >= max /\ Max({max, BufSize}) >= BufSize
        /\ Max({max, BufSize}) \in Nat
    BY <2>1, <2>2, MaxOfTwo
  <2>4. Max({LatencyMin, BufSize}) \in {Transfer, BufSize}
    BY <2>1, MaxOfTwo DEF LatencyMin
  <2> QED
    BY <2>1, <2>2, <2>3, <2>4 DEF Reported
<1> QED
  BY <1>1, TypeInvariant, PTL

=============================================================================
