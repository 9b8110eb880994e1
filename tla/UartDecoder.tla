----------------------------- MODULE UartDecoder -----------------------------
(***************************************************************************)
(* UARTDecoder of scripts/ad2_live_capture.py: frames in a stream of       *)
(* samples of one line, fed in chunks of any length.  A chunk is scanned   *)
(* run by run of equal levels; a frame in progress is carried over.        *)
(***************************************************************************)
EXTENDS Integers, SequencesExt, FiniteSetsExt

CONSTANTS
  PERIOD2,       \* twice the samples of a bit: a period may be a half
  DATA_BITS,     \* 8 in a real frame
  Idle           \* no frame in progress, None in the code

ASSUME DecoderAssumption ==
  PERIOD2 \in Nat \ {0, 1} /\ DATA_BITS \in Nat \ {0} /\ Idle \notin Nat

STOP == DATA_BITS + 1

Decoder(offset) ==
  [offset |-> offset, previous |-> Idle, high_since |-> 0, start |-> Idle,
   stage |-> 0, value |-> 0, data |-> <<>>, starts |-> <<>>,
   framing_errors |-> 0, false_starts |-> 0]

(* Where the bit of the present stage is sampled, in its middle. *)
sample(d) == d.start + ((2 * d.stage + 1) * PERIOD2) \div 4

(* One turn of the loop within a run that ends before b. *)
SampleBit(d, b, level) ==
  IF d.start = Idle \/ sample(d) >= b THEN d
  ELSE IF d.stage = 0 /\ level = 1 THEN
    [d EXCEPT !.false_starts = @ + 1, !.start = Idle]
  ELSE IF d.stage = STOP THEN
    IF level = 1
    THEN [d EXCEPT !.data = Append(@, d.value), !.starts = Append(@, d.start), !.start = Idle]
    ELSE [d EXCEPT !.framing_errors = @ + 1, !.start = Idle]
  ELSE [d EXCEPT !.stage = @ + 1,
                 !.value = IF d.stage = 0 THEN @ ELSE @ + level * 2^(d.stage - 1)]

(* Mutant: a run that began in the last chunk counts as a new one. *)
ChangeLevelAnew(d, a, level) ==
  IF level = 1 THEN [d EXCEPT !.previous = 1, !.high_since = a]
  ELSE IF d.previous = 1 /\ d.start = Idle /\ a - d.high_since >= PERIOD2 \div 2
    THEN [d EXCEPT !.previous = 0, !.start = a, !.stage = 0, !.value = 0]
  ELSE [d EXCEPT !.previous = 0]

(* A run begins at a.  After a whole bit of high level a fall starts a     *)
(* frame, unless one is in progress.                                       *)
ChangeLevel(d, a, level) ==
  IF level = d.previous THEN d
  ELSE IF level = 1 THEN [d EXCEPT !.previous = 1, !.high_since = a]
  ELSE IF d.previous = 1 /\ d.start = Idle /\ a - d.high_since >= PERIOD2 \div 2
    THEN [d EXCEPT !.previous = 0, !.start = a, !.stage = 0, !.value = 0]
  ELSE [d EXCEPT !.previous = 0]

(* A run of equal levels that ends before b: the bits sampled in it, one   *)
(* turn of the loop each.                                                  *)
drain(d, b, level) ==
  LET turns[n \in 0 .. STOP + 1] ==
        IF n = 0 THEN d ELSE SampleBit(turns[n - 1], b, level)
  IN turns[STOP + 1]

(* The next n samples are a run.  What is wanted may be there already.     *)
Scan(d, n, level, limit) ==
  [(IF Len(d.data) >= limit THEN d
    ELSE drain(ChangeLevel(d, d.offset, level), d.offset + n, level))
   EXCEPT !.offset = d.offset + n]

(* Where the run that holds position e of a chunk begins. *)
First(levels, e) == Min({i \in 1 .. e : \A j \in i .. e : levels[j] = levels[e]})

(* feed, with the limit on the bytes that are wanted: the run that ends    *)
(* the chunk is scanned after those before it.                             *)
Scanned(decoder, levels, limit) ==
  LET after[e \in 0 .. Len(levels)] ==
        IF e = 0 THEN decoder
        ELSE Scan(after[First(levels, e) - 1], e - First(levels, e) + 1, levels[e], limit)
  IN after

feed(decoder, levels, limit) == Scanned(decoder, levels, limit)[Len(levels)]
=============================================================================
