------------------------------- MODULE CtrMask -------------------------------
(***************************************************************************)
(* rtl/ctr/aes128_ctr_mask.sv: the generator of CTR masks.  It loads a key *)
(* into the AES engine, feeds it the blocks <nonce, counter> one after the *)
(* other, and holds at most one mask for its consumer while the engine may *)
(* already be working on the next.                                         *)
(*                                                                         *)
(* A step is a rising edge of clk, at which the environment chooses        *)
(* abort_req, a configuration or mask_ready, or the asynchronous assertion *)
(* of rst.  The AES engine is taken as the service that AesCore provides.  *)
(***************************************************************************)
EXTENDS Naturals

CONSTANTS
  Key, Nonce,
  Value,         \* masks
  Enc,           \* the block cipher, a function on Key \X Block
  COUNTER_MAX,   \* 32'hffffffff
  LATENCY,       \* clock edges of one AES operation
  Clear          \* a data register holding zero

Counter == 0 .. COUNTER_MAX
Block   == Nonce \X Counter

ASSUME MaskAssumption ==
  /\ COUNTER_MAX \in Nat
  /\ LATENCY \in Nat \ {0}
  /\ Enc \in [Key \X Block -> Value]
  /\ Clear \notin Key \cup Nonce \cup Block \cup Value

VARIABLES
  active,                  \* a context is loaded
  nonce, next_counter,     \* the next block to encrypt
  result_valid,            \* mask_data is held for the consumer
  inflight,                \* the engine works on a block of this context
  pending_last,            \* ... which is the one of COUNTER_MAX
  last_issued,             \* the block of COUNTER_MAX has been started
  mask_data, mask_last,    \* the held mask
  state, left, master_key, job, key_valid, key_done, done, ciphertext

maskRegs == <<active, nonce, next_counter, result_valid, inflight, pending_last,
              last_issued, mask_data, mask_last>>

Aes == INSTANCE AesService

vars == <<maskRegs, Aes!vars>>

Init ==
  /\ active = FALSE
  /\ nonce = Clear
  /\ next_counter = 0
  /\ result_valid = FALSE
  /\ inflight = FALSE
  /\ pending_last = FALSE
  /\ last_issued = FALSE
  /\ mask_data = Clear
  /\ mask_last = FALSE
  /\ Aes!Init

(* The state of a context that has issued nothing. *)
NothingIssued ==
  /\ result_valid' = FALSE
  /\ inflight' = FALSE
  /\ pending_last' = FALSE
  /\ last_issued' = FALSE
  /\ mask_data' = Clear
  /\ mask_last' = FALSE

(* rst and abort_req clear every register. *)
Close ==
  /\ NothingIssued
  /\ active' = FALSE
  /\ nonce' = Clear
  /\ next_counter' = 0

(* Start a block only if its mask will have a place: the engine is free,  *)
(* and the holding register is empty or being emptied at this edge.       *)
issue(mask_ready) ==
  /\ active
  /\ ~inflight
  /\ ~last_issued
  /\ ~result_valid \/ mask_ready
  /\ Aes!block_ready

consume(mask_ready) == result_valid /\ mask_ready

capture == done /\ inflight

(* Mutant: ready for a context only once a key is in force. *)
cfg_ready_when_keyed == ~active /\ Aes!block_ready

cfg_ready == ~active /\ Aes!key_ready

cfg_done == active /\ key_done

exhausted == active /\ last_issued /\ ~inflight /\ ~result_valid

Reset == Close /\ Aes!Reset

(* abort_req cancels the context at any point; an operation already in the *)
(* engine runs on and is no longer expected by anyone.                     *)
Abort == Close /\ Aes!Tick

Configure(k, n, c) ==
  /\ cfg_ready
  /\ Aes!LoadKey(k)
  /\ active' = TRUE
  /\ nonce' = n
  /\ next_counter' = c
  /\ NothingIssued

(* Mutants: the counter presented is the one after; it runs past its end;  *)
(* it wraps to zero.                                                       *)
IssueBlockAfterCount(mask_ready) ==
  \/ /\ issue(mask_ready)
     /\ next_counter' = IF next_counter = COUNTER_MAX THEN next_counter
                                                      ELSE next_counter + 1
     /\ Aes!Start(<<nonce, next_counter'>>)
     /\ pending_last' = (next_counter = COUNTER_MAX)
     /\ last_issued' = (next_counter = COUNTER_MAX)
  \/ /\ ~issue(mask_ready)
     /\ Aes!Tick
     /\ UNCHANGED <<pending_last, last_issued, next_counter>>

IssueBlockWrapping(mask_ready) ==
  \/ /\ issue(mask_ready)
     /\ Aes!Start(<<nonce, next_counter>>)
     /\ pending_last' = (next_counter = COUNTER_MAX)
     /\ next_counter' = (next_counter + 1) % (COUNTER_MAX + 1)
     /\ UNCHANGED last_issued
  \/ /\ ~issue(mask_ready)
     /\ Aes!Tick
     /\ UNCHANGED <<pending_last, last_issued, next_counter>>

(* The counter is presented to the engine, then moves on; it saturates at  *)
(* COUNTER_MAX and last_issued takes over.                                 *)
IssueBlock(mask_ready) ==
  \/ /\ issue(mask_ready)
     /\ Aes!Start(<<nonce, next_counter>>)
     /\ pending_last' = (next_counter = COUNTER_MAX)
     /\ last_issued' = (next_counter = COUNTER_MAX)
     /\ next_counter' = IF next_counter = COUNTER_MAX THEN next_counter
                                                      ELSE next_counter + 1
  \/ /\ ~issue(mask_ready)
     /\ Aes!Tick
     /\ UNCHANGED <<pending_last, last_issued, next_counter>>

(* Later assignments of the RTL win: a captured result over a consumed or *)
(* issued one.                                                            *)
HoldMask(mask_ready) ==
  /\ inflight' = (~capture /\ (inflight \/ issue(mask_ready)))
  /\ result_valid' = (capture \/ (result_valid /\ ~mask_ready))
  /\ mask_data' = IF capture THEN ciphertext
                  ELSE IF consume(mask_ready) THEN Clear ELSE mask_data
  /\ mask_last' = IF capture THEN pending_last
                  ELSE IF consume(mask_ready) THEN FALSE ELSE mask_last

Run(mask_ready) ==
  /\ active
  /\ IssueBlock(mask_ready)
  /\ HoldMask(mask_ready)
  /\ UNCHANGED <<active, nonce>>

(* No context and none offered: the engine may still be draining. *)
Idle == ~active /\ Aes!Tick /\ UNCHANGED maskRegs

Clock ==
  \/ Abort
  \/ \E k \in Key, n \in Nonce, c \in Counter : Configure(k, n, c)
  \/ \E mask_ready \in BOOLEAN : Run(mask_ready)
  \/ Idle

Next == Clock \/ Reset

Spec == Init /\ [][Next]_vars

-----------------------------------------------------------------------------
(* Registers in range. *)
TypeOK ==
  /\ active \in BOOLEAN
  /\ nonce \in Nonce \cup {Clear}
  /\ next_counter \in Counter
  /\ result_valid \in BOOLEAN
  /\ inflight \in BOOLEAN
  /\ pending_last \in BOOLEAN
  /\ last_issued \in BOOLEAN
  /\ mask_data \in Value \cup {Clear}
  /\ mask_last \in BOOLEAN
  /\ Aes!TypeOK

(* The counter of the oldest block not yet handed to the consumer:         *)
(* COUNTER_MAX + 1 once all of them have been.                             *)
Unissued == IF last_issued THEN COUNTER_MAX + 1 ELSE next_counter

NextMask == IF inflight \/ result_valid THEN Unissued - 1 ELSE Unissued

(* The mask offered is the encryption, under the key and nonce of the      *)
(* context in force, of the next counter in order, and mask_last marks     *)
(* exactly the last one.  A result left over from an aborted context or a  *)
(* counter that moved between start and completion would break this.       *)
HeldMaskIsNext ==
  result_valid =>
    /\ active
    /\ mask_data = Enc[<<master_key, <<nonce, NextMask>>>>]
    /\ mask_last = (NextMask = COUNTER_MAX)

(* Whatever the engine is expected to deliver belongs to this context: it  *)
(* is running, or has just finished, the block of the next counter.  There *)
(* is never a held mask as well, so the result always finds a free place.  *)
ExpectedResultIsOurs ==
  inflight =>
    /\ active
    /\ ~result_valid
    /\ \/ state = "RUN" /\ ~done /\ job = <<nonce, NextMask>>
       \/ state = "IDLE" /\ done
            /\ ciphertext = Enc[<<master_key, <<nonce, NextMask>>>>]

(* While a context lasts its counter of handed-out masks stays or advances *)
(* by one, and it advances only past a mask that was there to be taken: no *)
(* counter is skipped, repeated or wrapped.                                *)
CounterNeverSkips ==
  [][active /\ active' =>
       \/ NextMask' = NextMask
       \/ NextMask' = NextMask + 1 /\ result_valid]_vars

(* An idle generator accepts a configuration again after it has drained an *)
(* aborted operation; no order of abort, reset and completion wedges it.   *)
AbortDrains == ~active ~> (cfg_ready \/ active)
=============================================================================
