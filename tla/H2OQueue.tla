------------------------------ MODULE H2OQueue ------------------------------
(***************************************************************************)
(* What JACK sends on its way to the sample rate converter                 *)
(* (ow_resampler_write_audio and resampler_h2o_reader in                   *)
(* src/src/resampler.c).  Every cycle queues one period and asks           *)
(* libsamplerate for as many frames as the ratio says; libsamplerate calls *)
(* the reader when it runs out of input, once, several times or not at     *)
(* all, and the reader gives it all that is queued.  Nothing else bounds   *)
(* the queue, which is allocated for eight periods.                        *)
(*                                                                         *)
(* The ratio is 48 kHz by JACK's rate, as the DLL corrects it from cycle   *)
(* to cycle.  Everything is counted in fractions of a frame of the output, *)
(* Unit of them in a frame: a frame of input is worth ratio of them.  The  *)
(* audio itself is module AudioPath's.                                     *)
(***************************************************************************)
EXTENDS Integers

CONSTANTS
  Unit,       \* fractions in a frame of output
  Ratios,     \* the values of h2o_ratio, in fractions: Unit when JACK is at 48 kHz
  BufSizes,   \* JACK's buffer sizes, in frames
  LookAhead   \* fractions that the converter needs in advance

(* A period gives two frames or more: at the highest rate that             *)
(* resampler.c:190 names, 192 kHz, and with a DLL at its limit of half the *)
(* nominal ratio (dll.c:155), JACK's buffer has 16 frames or more.         *)
ASSUME H2OQueueAssumption ==
  /\ Unit \in Nat \ {0}
  /\ Ratios \subseteq Nat \ {0}
  /\ BufSizes \subseteq Nat \ {0}
  /\ LookAhead \in Nat
  /\ \A r \in Ratios, b \in BufSizes : r * b >= 2 * Unit

VARIABLES
  ratio,     \* resampler->h2o_ratio
  bufsize,   \* resampler->bufsize
  queue_len, \* resampler->h2o_queue_len, in periods
  acc,       \* h2o_acc, a static variable that all clients share
  saved,     \* input that the converter holds beyond what its filter needs
  beyond,    \* a period was copied beyond the end of h2o_queue
  strained   \* history: a disturbance left too much on the way

qvars == <<ratio, bufsize, queue_len, acc, saved, beyond, strained>>

QueueInit ==
  /\ ratio \in Ratios
  /\ bufsize \in BufSizes
  /\ queue_len = 0
  /\ acc = 0
  /\ saved = -LookAhead
  /\ beyond = FALSE
  /\ strained = FALSE

-----------------------------------------------------------------------------
QueueBytes == 8  \* periods allocated for h2o_queue

(* The index counts bytes but h2o_queue is an array of float: the second   *)
(* period is copied to where the fifth should be.                          *)
CopiedTo(len) == 4 * len

Output == ratio * bufsize  \* what comes of a period

(* What the converter is ahead of what it has put out, the queue included. *)
Ahead == saved + queue_len * Output - acc

(* Two periods, but for a frame, are on the way between two cycles.        *)
TooFarAhead == Ahead > 2 * Output - Unit

(* Mutant: frames are added for the fractions, but never left out. *)
WholeOfPositive(x) == IF x >= 0 THEN x \div Unit ELSE 0

(* trunc *)
Whole(x) == IF x >= 0 THEN x \div Unit ELSE -((-x) \div Unit)

(* Mutant: the reader leaves the queue as it is. *)
ReadKeepingLength(len, held) == [len |-> len, held |-> held + len * Output]

(* resampler_h2o_reader: all that is queued, or else a period of what was  *)
(* there before.                                                           *)
Read(len, held) ==
  [len |-> 0, held |-> held + (IF len = 0 THEN 1 ELSE len) * Output]

(* src_callback_read as it looks from the reader: it is called while the   *)
(* converter has too little, and may be called once before that while what *)
(* the converter holds is all in its filter, less than two periods.        *)
Reads(len, held, need) ==
  LET first == Read(len, held)
      short == need - first.held  \* then the queue is empty
      more  == IF short > 0 THEN (short + Output - 1) \div Output ELSE 0
  IN IF held >= need
       THEN {[len |-> len, held |-> held]}
              \union IF held < 2 * Output THEN {first} ELSE {}
       ELSE {[first EXCEPT !.held = @ + more * Output]}

(* ow_resampler_write_audio when the resampler runs. *)
WriteAudio ==
  LET sum  == acc + bufsize * (ratio - Unit)
      inc  == Whole(sum)
      need == Unit * (bufsize + inc)
  IN \E r \in Reads(queue_len + 1, saved, need) :
       /\ beyond' = (CopiedTo(queue_len) >= QueueBytes)
       /\ acc' = sum - Unit * inc
       /\ queue_len' = r.len
       /\ saved' = r.held - need
       /\ UNCHANGED <<ratio, bufsize, strained>>

(* The same in the cycle of another client of the service. *)
OtherClient ==
  \E r \in Ratios, b \in BufSizes :
    LET sum == acc + b * (r - Unit)
    IN /\ acc' = sum - Unit * Whole(sum)
       /\ UNCHANGED <<ratio, bufsize, queue_len, saved, beyond>>
       /\ strained' = (strained \/ TooFarAhead')

(* ow_resampler_set_ratios_from_dll: what is on the way is worth more      *)
(* output, or less; a fraction of a fraction counts as one.  Bound: the    *)
(* ratio changes while the converter was never too far ahead.              *)
Tune ==
  /\ ~strained
  /\ ratio' \in Ratios \ {ratio}
  /\ saved' = -((-saved * ratio') \div ratio)
  /\ UNCHANGED <<bufsize, queue_len, acc, beyond>>
  /\ strained' = TooFarAhead'

(* ow_resampler_clear_buffers *)
ClearQueue ==
  /\ queue_len' = 0
  /\ UNCHANGED <<ratio, bufsize, acc, saved, beyond, strained>>

(* ow_resampler_set_buffer_size: the queue is allocated again, and the     *)
(* converter is not reset.                                                 *)
ResizeQueue ==
  /\ bufsize' \in BufSizes \ {bufsize}
  /\ queue_len' = 0
  /\ UNCHANGED <<ratio, acc, saved, beyond>>
  /\ strained' = (strained \/ TooFarAhead')

(* Once memory that is not the queue's is overwritten anything may happen. *)
QueueNext ==
  \/ ~beyond /\ (WriteAudio \/ OtherClient \/ Tune \/ ClearQueue \/ ResizeQueue)
  \/ beyond /\ UNCHANGED qvars

QueueSpec == QueueInit /\ [][QueueNext]_qvars

-----------------------------------------------------------------------------
QueueTypeOK ==
  /\ ratio \in Ratios
  /\ bufsize \in BufSizes
  /\ queue_len \in Nat
  /\ acc \in -(Unit - 1)..Unit - 1
  /\ saved \in Int
  /\ {beyond, strained} \subseteq BOOLEAN

(* The queue is never written beyond its end, at any rate of JACK, although *)
(* the reader may not be called for a whole cycle: what is queued and what  *)
(* the converter holds only ever differ from a constant by the accumulated  *)
(* fractions, and a cycle that reads the queue several times brings them    *)
(* below a period.  Three things disturb this: a ratio that changes, another *)
(* client that uses h2o_acc, and a new buffer size with a rest of a larger  *)
(* one.  As long as they never add up to two periods on the way, but for a  *)
(* frame, a period is queued where there is room (resampler.c:354-371).     *)
QueueBounded == ~strained => ~beyond

=============================================================================
