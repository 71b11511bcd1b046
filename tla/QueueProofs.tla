----------------------------- MODULE QueueProofs -----------------------------
(***************************************************************************)
(* Why the queue of the resampler holds, for every buffer size, every rate *)
(* of JACK, every step of the DLL and every filter of the converter.       *)
(***************************************************************************)
EXTENDS H2OQueue, TLAPS

(* Ahead is the same after a cycle that reads the queue once as after one  *)
(* that does not: both leave the fractions that are in acc.  While it is   *)
(* below two periods but for a frame, the cycle after one that did not     *)
(* read the queue reads it.                                                *)
NeverTwoPeriods ==
  ~strained => ~TooFarAhead /\ queue_len \in {0, 1} /\ ~beyond

QueueInv == QueueTypeOK /\ NeverTwoPeriods

-----------------------------------------------------------------------------
LEMMA DivMod ==
  ASSUME NEW a \in Int, NEW p \in Nat \ {0}
  PROVE  /\ a \div p \in Int
         /\ p * (a \div p) <= a
         /\ a < p * (a \div p) + p
  OBVIOUS

(* trunc leaves less than a frame, with the sign of what it cut (Whole).   *)
LEMMA WholeLeavesFraction ==
  ASSUME NEW x \in Int
  PROVE  /\ Whole(x) \in Int
         /\ x - Unit * Whole(x) \in -(Unit - 1)..Unit - 1
<1>1. Unit \in Nat \ {0}
  BY H2OQueueAssumption
<1>2. CASE x >= 0
  BY <1>1, <1>2, DivMod DEF Whole
<1>3. CASE ~(x >= 0)
  <2> DEFINE q == (-x) \div Unit
  <2>1. q \in Int /\ Unit * q <= -x /\ -x < Unit * q + Unit
    BY <1>1, DivMod
  <2>2. Whole(x) = -q
    BY <1>3 DEF Whole
  <2>3. Unit * (-q) = -(Unit * q)
    BY <1>1, <2>1
  <2> QED
    BY <1>1, <2>1, <2>2, <2>3
<1> QED
  BY <1>2, <1>3

(* What comes of a period is two frames or more. *)
LEMMA OutputBound ==
  ASSUME ratio \in Ratios, bufsize \in BufSizes
  PROVE  Output \in Nat \ {0} /\ Output >= 2 * Unit
<1>1. ratio \in Nat \ {0} /\ bufsize \in Nat \ {0} /\ Unit \in Nat \ {0}
  BY H2OQueueAssumption
<1>2. ratio * bufsize \in Nat /\ ratio * bufsize >= 2 * Unit
  BY <1>1, H2OQueueAssumption
<1> QED
  BY <1>1, <1>2 DEF Output

(* What a cycle asks for is what comes of a period and the fractions that  *)
(* acc loses (resampler.c:369-372).                                        *)
LEMMA NeedIsOutput ==
  ASSUME ratio \in Int, bufsize \in Int, Unit \in Int, acc \in Int, NEW inc \in Int,
         NEW sum, sum = acc + bufsize * (ratio - Unit)
  PROVE  /\ sum \in Int
         /\ Unit * (bufsize + inc) = Output + acc - (sum - Unit * inc)
<1>1. bufsize * (ratio - Unit) = ratio * bufsize - Unit * bufsize
  OBVIOUS
<1>2. Unit * (bufsize + inc) = Unit * bufsize + Unit * inc
  OBVIOUS
<1>3. ratio * bufsize \in Int /\ Unit * bufsize \in Int /\ Unit * inc \in Int
  OBVIOUS
<1> QED
  BY <1>1, <1>2, <1>3 DEF Output

(* A period queued by a cycle that did not read leaves the next one too    *)
(* little to do without: saved s, output o, acc a before and b after.      *)
LEMMA MustRead ==
  ASSUME NEW s \in Int, NEW o \in Int, NEW a \in Int, NEW b \in Int, NEW u \in Int,
         b <= u - 1, s + o - a <= 2 * o - u, s >= o + a - b
  PROVE  FALSE
  OBVIOUS

(* Less than a period saved is less than two on the way.                   *)
LEMMA BelowOne ==
  ASSUME NEW s \in Int, NEW o \in Int, NEW a \in Int, NEW u \in Int,
         o >= 2 * u, 1 - u <= a, s < o
  PROVE  s - a <= 2 * o - u
  OBVIOUS

(* What is queued and held after the calls of the reader: one that empties *)
(* the queue moves it, and one that finds it empty stops at the first      *)
(* period that is enough (Reads).                                          *)
LEMMA ReadsMoveOrSuffice ==
  ASSUME ratio \in Ratios, bufsize \in BufSizes,
         NEW len \in Nat \ {0}, NEW held \in Int, NEW need \in Int,
         NEW r \in Reads(len, held, need)
  PROVE  /\ r.len \in Nat /\ r.held \in Int
         /\ \/ r.len = len /\ r.held = held /\ held >= need
            \/ r.len = 0 /\ r.held = held + len * Output
            \/ r.len = 0 /\ r.held - need < Output
<1>0. Output \in Nat \ {0}
  BY OutputBound
<1> DEFINE first == Read(len, held)
           short == need - first.held
           more  == IF short > 0 THEN (short + Output - 1) \div Output ELSE 0
<1>1. first = [len |-> 0, held |-> held + len * Output]
  BY DEF Read
<1>2. len * Output \in Int /\ short \in Int
  BY <1>0, <1>1
<1>3. CASE held >= need
  <2>1. r = [len |-> len, held |-> held] \/ r = first
    BY <1>3 DEF Reads
  <2> QED
    BY <1>1, <1>2, <1>3, <2>1
<1>4. CASE ~(held >= need)
  <2>1. r = [first EXCEPT !.held = @ + more * Output]
    BY <1>4 DEF Reads
  <2>2. r = [len |-> 0, held |-> first.held + more * Output]
    BY <1>1, <2>1
  <2>3. CASE short > 0
    <3>1. more = (short + Output - 1) \div Output /\ short + Output - 1 \in Int
      BY <1>0, <1>2, <2>3
    <3>2. more \in Int /\ Output * more <= short + Output - 1
      BY ONLY <3>1, <1>0, DivMod
    <3>3. more * Output = Output * more /\ Output * more \in Int
      BY <1>0, <3>2
    <3> QED
      BY <1>0, <1>1, <1>2, <2>2, <3>2, <3>3
  <2>4. CASE ~(short > 0)
    BY <1>0, <1>1, <1>2, <2>2, <2>4
  <2> QED
    BY <2>3, <2>4
<1> QED
  BY <1>3, <1>4

-----------------------------------------------------------------------------
(* The initial state satisfies the invariant. *)
LEMMA InitQueueInv == QueueInit => QueueInv
<1> SUFFICES ASSUME QueueInit PROVE QueueInv
  OBVIOUS
<1>1. Output \in Nat \ {0} /\ Output >= 2 * Unit /\ Unit \in Nat \ {0} /\ LookAhead \in Nat
  BY OutputBound, H2OQueueAssumption DEF QueueInit
<1>2. {beyond, strained} \subseteq BOOLEAN
  BY Zenon DEF QueueInit
<1>3. QueueTypeOK
  BY <1>1, <1>2 DEF QueueInit, QueueTypeOK
<1>4. Ahead = -LookAhead
  BY <1>1 DEF QueueInit, Ahead
<1>5. ~beyond /\ queue_len = 0
  BY DEF QueueInit
<1> QED
  BY <1>1, <1>3, <1>4, <1>5 DEF QueueInv, NeverTwoPeriods, TooFarAhead

(* A cycle keeps what the converter is ahead, or brings it below a period. *)
LEMMA WriteAudioStep == QueueInv /\ ~beyond /\ WriteAudio => QueueInv'
<1> SUFFICES ASSUME QueueInv, ~beyond, WriteAudio PROVE QueueInv'
  OBVIOUS
<1> DEFINE sum  == acc + bufsize * (ratio - Unit)
           inc  == Whole(sum)
           need == Unit * (bufsize + inc)
<1>0. /\ ratio \in Ratios /\ bufsize \in BufSizes
      /\ queue_len \in Nat /\ saved \in Int
      /\ acc \in -(Unit - 1)..Unit - 1
      /\ Unit \in Nat \ {0}
      /\ Output \in Nat \ {0} /\ Output >= 2 * Unit
  BY H2OQueueAssumption, OutputBound DEF QueueInv, QueueTypeOK
<1>1. PICK r \in Reads(queue_len + 1, saved, need) :
        /\ beyond' = (CopiedTo(queue_len) >= QueueBytes)
        /\ acc' = sum - Unit * inc
        /\ queue_len' = r.len
        /\ saved' = r.held - need
        /\ UNCHANGED <<ratio, bufsize, strained>>
  BY DEF WriteAudio
<1>2. ratio \in Int /\ bufsize \in Int /\ Unit \in Int /\ acc \in Int
  BY <1>0, H2OQueueAssumption
<1>3. sum \in Int
  BY <1>2
<1>4. inc \in Int /\ sum - Unit * inc \in -(Unit - 1)..Unit - 1
  BY <1>3, WholeLeavesFraction
<1>5. need = Output + acc - (sum - Unit * inc)
  BY <1>2, <1>4, NeedIsOutput
<1> HIDE DEF sum, inc, need
<1>6. acc' \in -(Unit - 1)..Unit - 1 /\ need = Output + acc - acc' /\ need \in Int
  BY <1>0, <1>1, <1>4, <1>5
<1>7. /\ r.len \in Nat /\ r.held \in Int
      /\ \/ r.len = queue_len + 1 /\ r.held = saved /\ saved >= need
         \/ r.len = 0 /\ r.held = saved + (queue_len + 1) * Output
         \/ r.len = 0 /\ r.held - need < Output
  <2>1. queue_len + 1 \in Nat \ {0}
    BY <1>0
  <2> QED
    BY <1>0, <1>1, <1>6, <2>1, ReadsMoveOrSuffice
<1>8. Output' = Output
  BY <1>1 DEF Output
<1>9. QueueTypeOK'
  <2>1. (CopiedTo(queue_len) >= QueueBytes) \in BOOLEAN
    OBVIOUS
  <2>2. beyond' \in BOOLEAN /\ strained' \in BOOLEAN
    BY <1>1, <2>1, Zenon DEF QueueInv, QueueTypeOK
  <2> QED
    BY <1>0, <1>1, <1>6, <1>7, <2>2 DEF QueueTypeOK
<1>10. ASSUME ~strained
       PROVE  ~TooFarAhead' /\ queue_len' \in {0, 1} /\ ~beyond'
  <2>1. ~TooFarAhead /\ queue_len \in {0, 1}
    BY <1>10 DEF QueueInv, NeverTwoPeriods
  <2>2. Ahead \in Int /\ Ahead <= 2 * Output - Unit
    BY <1>0, <2>1 DEF TooFarAhead, Ahead
  <2>3. ~beyond'
    <3>1. ~(CopiedTo(queue_len) >= QueueBytes)
      BY <2>1 DEF CopiedTo, QueueBytes
    <3> QED
      BY <1>1, <3>1, Zenon
  <2>4. Ahead' = saved' + queue_len' * Output - acc'
    BY <1>8 DEF Ahead
  <2>5. CASE r.len = queue_len + 1 /\ r.held = saved /\ saved >= need
    <3>1. queue_len = 0
      <4> SUFFICES ASSUME queue_len = 1 PROVE FALSE
        BY <2>1
      <4>1. Ahead = saved + Output - acc
        BY <1>0 DEF Ahead
      <4> QED
        <5>1. acc' \in Int /\ acc' <= Unit - 1
          BY <1>0, <1>6
        <5>2. saved >= Output + acc - acc'
          BY <1>6, <2>5
        <5>3. Output \in Int /\ saved \in Int /\ acc \in Int /\ Unit \in Int
          BY <1>0
        <5>4. saved + Output - acc <= 2 * Output - Unit
          BY <2>2, <4>1
        <5> QED
          BY <5>1, <5>2, <5>3, <5>4, MustRead
    <3>2. Ahead' = Ahead
      BY <1>0, <1>1, <1>6, <2>4, <2>5, <3>1 DEF Ahead
    <3>3. queue_len' = 1
      BY <1>1, <2>5, <3>1
    <3> QED
      BY <1>0, <1>8, <2>2, <2>3, <3>2, <3>3 DEF TooFarAhead
  <2>6. CASE r.len = 0 /\ r.held = saved + (queue_len + 1) * Output
    <3>1. Ahead' = Ahead
      BY <1>0, <1>1, <1>6, <2>1, <2>4, <2>6 DEF Ahead
    <3> QED
      BY <1>0, <1>1, <1>8, <2>2, <2>3, <2>6, <3>1 DEF TooFarAhead
  <2>7. CASE r.len = 0 /\ r.held - need < Output
    <3>1. Ahead' = saved' - acc'
      BY <1>0, <1>1, <1>6, <1>7, <2>4, <2>7
    <3>2. saved' < Output /\ saved' \in Int
      BY <1>1, <1>6, <1>7, <2>7
    <3>3. Ahead' <= 2 * Output - Unit
      <4>1. acc' \in Int /\ 1 - Unit <= acc'
        BY <1>0, <1>6
      <4>2. Output \in Int /\ Output >= 2 * Unit /\ Unit \in Int
        BY <1>0
      <4> QED
        BY <3>1, <3>2, <4>1, <4>2, BelowOne
    <3> QED
      BY <1>0, <1>1, <1>6, <1>8, <2>3, <2>7, <3>1, <3>2, <3>3 DEF TooFarAhead
  <2> QED
    BY <1>7, <2>5, <2>6, <2>7
<1> QED
  BY <1>1, <1>9, <1>10 DEF QueueInv, NeverTwoPeriods

(* A disturbance that does not strain the converter leaves it below two    *)
(* periods.                                                                *)
LEMMA Disturbed ==
  ASSUME QueueInv, QueueTypeOK', beyond' = beyond,
         strained' = (strained \/ TooFarAhead'),
         queue_len' = queue_len \/ queue_len' = 0
  PROVE  QueueInv'
<1>1. ~strained' => ~strained /\ ~TooFarAhead'
  BY Zenon
<1>2. ~strained' => queue_len' \in {0, 1} /\ ~beyond'
  BY <1>1 DEF QueueInv, NeverTwoPeriods
<1> QED
  BY <1>1, <1>2 DEF QueueInv, NeverTwoPeriods

(* Every step keeps the invariant. *)
LEMMA StepQueueInv == QueueInv /\ [QueueNext]_qvars => QueueInv'
<1> SUFFICES ASSUME QueueInv, [QueueNext]_qvars PROVE QueueInv'
  OBVIOUS
<1>0. /\ ratio \in Ratios /\ bufsize \in BufSizes
      /\ queue_len \in Nat /\ saved \in Int
      /\ acc \in -(Unit - 1)..Unit - 1
      /\ Unit \in Nat \ {0} /\ Ratios \subseteq Nat \ {0} /\ BufSizes \subseteq Nat
      /\ beyond \in BOOLEAN /\ strained \in BOOLEAN
      /\ Output \in Nat \ {0}
  BY H2OQueueAssumption, OutputBound DEF QueueInv, QueueTypeOK
<1>a. TooFarAhead' \in BOOLEAN
  <2>1. (Ahead' > 2 * Output' - Unit) \in BOOLEAN
    OBVIOUS
  <2> QED
    BY <2>1 DEF TooFarAhead
<1>1. CASE ~beyond /\ WriteAudio
  BY <1>1, WriteAudioStep
<1>2. CASE OtherClient
  <2>1. PICK r \in Ratios, b \in BufSizes :
          LET sum == acc + b * (r - Unit) IN acc' = sum - Unit * Whole(sum)
    BY <1>2 DEF OtherClient
  <2>2. PICK sum \in Int : acc' = sum - Unit * Whole(sum)
    <3>1. acc + b * (r - Unit) \in Int
      BY <1>0
    <3> QED
      BY <2>1, <3>1
  <2>3. acc' \in -(Unit - 1)..Unit - 1
    BY <2>2, WholeLeavesFraction
  <2>4. /\ UNCHANGED <<ratio, bufsize, queue_len, saved, beyond>>
        /\ strained' = (strained \/ TooFarAhead')
    BY <1>2 DEF OtherClient
  <2>5. strained' \in BOOLEAN
    BY <2>4, Zenon
  <2>6. QueueTypeOK'
    BY <1>0, <2>3, <2>4, <2>5 DEF QueueTypeOK
  <2> QED
    BY <2>4, <2>6, Disturbed
<1>3. CASE Tune
  <2>1. /\ ratio' \in Ratios
        /\ saved' = -((-saved * ratio') \div ratio)
        /\ UNCHANGED <<bufsize, queue_len, acc, beyond>>
        /\ ~strained /\ strained' = TooFarAhead'
    BY <1>3 DEF Tune
  <2>2. saved' \in Int
    <3>1. -saved * ratio' \in Int /\ ratio \in Nat \ {0}
      BY <1>0, <2>1
    <3>2. (-saved * ratio') \div ratio \in Int
      BY <3>1, DivMod
    <3> QED
      BY <2>1, <3>2
  <2>3. QueueTypeOK'
    BY <1>0, <1>a, <2>1, <2>2 DEF QueueTypeOK
  <2>4. strained' = (strained \/ TooFarAhead')
    <3>1. PICK far \in BOOLEAN : far = TooFarAhead'
      BY <1>a
    <3> QED
      BY <1>0, <2>1, <3>1
  <2> QED
    BY <2>1, <2>3, <2>4, Disturbed
<1>4. CASE ClearQueue
  <2>1. queue_len' = 0 /\ UNCHANGED <<ratio, bufsize, acc, saved, beyond, strained>>
    BY <1>4 DEF ClearQueue
  <2>2. QueueTypeOK'
    BY <1>0, <2>1 DEF QueueTypeOK
  <2>3. ~TooFarAhead => ~TooFarAhead'
    <3>1. Output' = Output
      BY <2>1 DEF Output
    <3>2. Ahead' \in Int /\ Ahead \in Int /\ Ahead' <= Ahead
      <4>1. Ahead' = saved - acc
        BY <1>0, <2>1, <3>1 DEF Ahead
      <4>2. queue_len * Output \in Nat
        BY <1>0
      <4> QED
        BY <1>0, <4>1, <4>2 DEF Ahead
    <3> QED
      BY <1>0, <2>1, <3>1, <3>2 DEF TooFarAhead
  <2> QED
    BY <2>1, <2>2, <2>3 DEF QueueInv, NeverTwoPeriods
<1>5. CASE ResizeQueue
  <2>1. /\ bufsize' \in BufSizes /\ queue_len' = 0
        /\ UNCHANGED <<ratio, acc, saved, beyond>>
        /\ strained' = (strained \/ TooFarAhead')
    BY <1>5 DEF ResizeQueue
  <2>2. strained' \in BOOLEAN
    BY <2>1, Zenon
  <2>3. QueueTypeOK'
    BY <1>0, <2>1, <2>2 DEF QueueTypeOK
  <2> QED
    BY <2>1, <2>3, Disturbed
<1>6. CASE UNCHANGED qvars
  BY <1>6, Zenon
  DEF qvars, QueueInv, NeverTwoPeriods, QueueTypeOK, TooFarAhead, Ahead, Output
<1> QED
  BY <1>1, <1>2, <1>3, <1>4, <1>5, <1>6 DEF QueueNext

-----------------------------------------------------------------------------
(* The queue of eight periods, indexed as if it were four times as large,  *)
(* is never written beyond its end, at any rate of JACK and any buffer     *)
(* size, however the clocks drift and whenever the converter asks for      *)
(* input, until other clients, changes of the ratio and new buffer sizes   *)
(* have added up to almost two periods on the way.                         *)
THEOREM QueueIsBounded == QueueSpec => []QueueBounded
<1>1. QueueInv => QueueBounded
  BY DEF QueueInv, NeverTwoPeriods, QueueBounded
<1> QED
  BY <1>1, InitQueueInv, StepQueueInv, PTL DEF QueueSpec
=============================================================================
