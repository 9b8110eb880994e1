------------------------------ MODULE CtrStream ------------------------------
(***************************************************************************)
(* rtl/ctr/aes128_ctr_stream.sv: takes masks from aes128_ctr_mask, shifts  *)
(* them out a byte at a time and combines each with one payload byte.  The *)
(* XOR is combinational, so a byte transfers in one edge or not at all;    *)
(* what this module keeps is the rest of the current mask.                 *)
(*                                                                         *)
(* A step is a rising edge of clk, at which the environment chooses        *)
(* abort_req, a configuration or a transfer, or the assertion of rst.      *)
(***************************************************************************)
EXTENDS CtrMask

CONSTANTS
  BLOCK_BYTES    \* bytes of a mask, 16

ASSUME StreamAssumption ==
  /\ BLOCK_BYTES \in Nat \ {0}
  /\ Clear \notin Value \X (0 .. BLOCK_BYTES - 1)

VARIABLES
  current_mask,            \* bytes still to be used, the next one at 0
  byte_index,              \* how many of them have been used
  current_valid

streamRegs == <<current_mask, byte_index, current_valid>>

streamVars == <<streamRegs, vars>>

Lane == 0 .. BLOCK_BYTES - 1

Zeros == [i \in Lane |-> Clear]

(* The lanes of a mask, most significant byte first. *)
Lanes(m) == [i \in Lane |-> <<m, i>>]

(* {current_mask[119:0], 8'd0} *)
Shifted(m) == [i \in Lane |-> IF i = BLOCK_BYTES - 1 THEN Clear ELSE m[i + 1]]

StreamInit ==
  /\ current_mask = Zeros
  /\ byte_index = 0
  /\ current_valid = FALSE
  /\ Init

(* The handshake of both byte ports: in_valid and out_ready, while a mask *)
(* byte is there.  A transfer happens on both ports or on neither.        *)
transfer(in_valid, out_ready) == active /\ current_valid /\ in_valid /\ out_ready

(* Mutants: the next mask replaces the last byte of the current one; the   *)
(* next mask is taken only when a byte is used.                            *)
next_ready_early(used) == ~current_valid \/ (used /\ byte_index >= BLOCK_BYTES - 2)

next_ready_on_use(used) == used /\ byte_index = BLOCK_BYTES - 1

(* The next mask is taken when there is none, or at the very edge that     *)
(* uses the last byte of the current one.                                  *)
next_ready(used) == ~current_valid \/ (used /\ byte_index = BLOCK_BYTES - 1)

(* Mutant: exhausted although bytes of the last mask are left. *)
exhausted_before_end == exhausted

stream_exhausted == exhausted /\ ~current_valid

(* The keystream byte a transfer is combined with. *)
mask_byte == current_mask[0]

Discard ==
  /\ current_mask' = Zeros
  /\ current_valid' = FALSE
  /\ byte_index' = 0

StreamReset == Discard /\ Reset

StreamAbort == Discard /\ Abort

StreamConfigure(k, n, c) == Discard /\ Configure(k, n, c)

LoadMask ==
  /\ current_mask' = Lanes(mask_data)
  /\ current_valid' = TRUE
  /\ byte_index' = 0

ShiftMask ==
  /\ current_mask' = Shifted(current_mask)
  /\ current_valid' = (byte_index # BLOCK_BYTES - 1)
  /\ byte_index' = IF byte_index = BLOCK_BYTES - 1 THEN 0 ELSE byte_index + 1

(* An edge of an active context; used says whether a byte transfers. *)
StreamRun(used) ==
  /\ Run(next_ready(used))
  /\ \/ result_valid /\ next_ready(used) /\ LoadMask
     \/ ~(result_valid /\ next_ready(used)) /\ used /\ ShiftMask
     \/ ~(result_valid /\ next_ready(used)) /\ ~used /\ UNCHANGED streamRegs

StreamIdle == Idle /\ UNCHANGED streamRegs

StreamClock ==
  \/ StreamAbort
  \/ \E k \in Key, n \in Nonce, c \in Counter : StreamConfigure(k, n, c)
  \/ \E in_valid, out_ready \in BOOLEAN : StreamRun(transfer(in_valid, out_ready))
  \/ StreamIdle

StreamNext == StreamClock \/ StreamReset

StreamSpec == StreamInit /\ [][StreamNext]_streamVars

(* An edge without abort, configuration or transfer. *)
StreamQuietEdge == StreamRun(FALSE) \/ StreamIdle

(* The clock never stops: the registers do not stay as they are when even  *)
(* an edge without requests would change them.  No request is ever forced. *)
StreamFairSpec ==
  StreamSpec /\ WF_streamVars(StreamClock /\ ENABLED <<StreamQuietEdge>>_streamVars)
-----------------------------------------------------------------------------
(* Registers in range. *)
StreamTypeOK ==
  /\ current_mask \in [Lane -> (Value \X Lane) \cup {Clear}]
  /\ byte_index \in Lane
  /\ current_valid \in BOOLEAN
  /\ TypeOK

(* The counter block the next payload byte will be combined with. *)
Position == IF current_valid THEN NextMask - 1 ELSE NextMask

(* The bytes left in the current mask are those of its counter block, from *)
(* byte_index on, under the context in force; used bytes have been shifted *)
(* out, so none can be used again.                                         *)
MaskBytesInPlace ==
  /\ current_valid =>
       /\ active
       /\ \A i \in Lane :
            current_mask[i] =
              IF i + byte_index \in Lane
              THEN <<Enc[<<master_key, <<nonce, Position>>>>], i + byte_index>>
              ELSE Clear
  /\ ~current_valid => byte_index = 0

(* Seen from its byte port the unit is counter mode itself: every byte of  *)
(* the keystream offered exactly once, in order, with nothing from another *)
(* context and nothing after the last byte of the last counter.            *)
Bytes == INSTANCE Keystream WITH
  open    <- active,
  key     <- IF active THEN master_key ELSE Clear,
  counter <- Position,
  index   <- byte_index,
  offered <- IF current_valid THEN mask_byte ELSE Clear

ImplementsKeystream == Bytes!Spec

(* exhausted is raised only when every byte up to the end of the last      *)
(* counter block has been used, and stays until the context is closed.     *)
ExhaustedAtTheEnd ==
  [][stream_exhausted =>
       /\ Position = COUNTER_MAX + 1
       /\ active' => stream_exhausted']_streamVars

(* An active context always comes to have a keystream byte to offer, or to *)
(* its end, whatever the consumer does.                                    *)
ByteKeepsComing == active ~> (current_valid \/ stream_exhausted \/ ~active)
=============================================================================
