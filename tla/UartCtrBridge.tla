---------------------------- MODULE UartCtrBridge ----------------------------
(***************************************************************************)
(* rtl/bridge/uart_ctr_bridge.sv: receive a byte, queue it, combine it     *)
(* with the next keystream byte, send it.  The bridge composes the         *)
(* receiver (RxPort), the FIFO (BoundedQueue), a one-byte holding register *)
(* in front of the cipher (CtrStream) and the transmitter (TxPort), and    *)
(* adds the session control: configuration, abort and the two faults that  *)
(* end a capture.                                                          *)
(*                                                                         *)
(* A step is a rising edge of clk, at which the environment chooses        *)
(* abort_req, tx_enable and a configuration, or the assertion of rst.      *)
(* datapath_rst is rst || !active: the clock edge that clears active also  *)
(* resets the receiver, FIFO, transmitter and holding register, within the *)
(* same step, because their reset is asynchronous.                         *)
(***************************************************************************)
EXTENDS Naturals, Sequences

CONSTANTS
  BUILDS,                  \* the values of ENABLE_AES that are looked at
  Byte, Key, Nonce, Value, Enc, COUNTER_MAX, LATENCY, BLOCK_BYTES,
  DEPTH,                   \* FIFO_DEPTH
  FRAME, RX_GAP, RX_REARM, \* timing of the two serial ports, in edges
  Clear                    \* a data register holding zero

ASSUME BridgeAssumption ==
  /\ BUILDS \subseteq BOOLEAN
  /\ COUNTER_MAX \in Nat
  /\ {DEPTH, LATENCY, BLOCK_BYTES, FRAME} \subseteq Nat \ {0}
  /\ {RX_GAP, RX_REARM} \subseteq Nat
  /\ Enc \in [Key \X (Nonce \X (0 .. COUNTER_MAX)) -> Value]
  /\ Clear \notin Byte \cup Key \cup Nonce \cup Value
  /\ Clear \notin Nonce \X (0 .. COUNTER_MAX)
  /\ Clear \notin Value \X (0 .. BLOCK_BYTES - 1)
  /\ Clear \notin Byte \X ((Value \X (0 .. BLOCK_BYTES - 1)) \cup {Clear})

VARIABLES
  ENABLE_AES,              \* fixed: TRUE in the secure build, FALSE in the baseline
  active, overflow_sticky, framing_sticky, fifo_high_water,
  held_data, held_valid, read_pending,
  accepted,                                             \* baseline build only
  rx_done, rx_framing_error, rx_data, rx_wait,          \* receiver
  queue, high_water, rd_valid, rd_data, overflow,       \* FIFO
  tx_busy, tx_left, tx_frame, tx_done,                  \* transmitter
  current_mask, byte_index, current_valid,              \* cipher
  cipher_active, nonce, next_counter, result_valid, inflight, pending_last,
  last_issued, mask_data, mask_last,
  state, left, master_key, job, key_valid, key_done, done, ciphertext

Rx     == INSTANCE RxPort
Fifo   == INSTANCE BoundedQueue WITH Data <- Byte, NoData <- Clear
Tx     == INSTANCE TxPort
Cipher == INSTANCE CtrStream WITH active <- cipher_active

control  == <<active, overflow_sticky, framing_sticky, fifo_high_water>>
holding  == <<held_data, held_valid, read_pending>>
rxVars   == <<rx_done, rx_framing_error, rx_data, rx_wait>>
fifoVars == <<queue, high_water, rd_valid, rd_data, overflow>>
txVars   == <<tx_busy, tx_left, tx_frame, tx_done>>
datapath == <<holding, rxVars, fifoVars, txVars>>
cipher   == <<current_mask, byte_index, current_valid, cipher_active, nonce,
              next_counter, result_valid, inflight, pending_last, last_issued,
              mask_data, mask_last, state, left, master_key, job, key_valid,
              key_done, done, ciphertext>>
vars     == <<ENABLE_AES, control, accepted, datapath, cipher>>

Init ==
  /\ ENABLE_AES \in BUILDS
  /\ active = FALSE
  /\ overflow_sticky = FALSE
  /\ framing_sticky = FALSE
  /\ fifo_high_water = 0
  /\ held_data = Clear
  /\ held_valid = FALSE
  /\ read_pending = FALSE
  /\ accepted = FALSE
  /\ Rx!Init
  /\ Fifo!Init
  /\ Tx!Init
  /\ Cipher!StreamInit
-----------------------------------------------------------------------------
(* The combinational signals. *)

faulted == overflow_sticky \/ framing_sticky

(* The holding register is reserved before the FIFO is read. *)
read_request(abort_req) ==
  active /\ ~abort_req /\ ~faulted /\ ~held_valid /\ ~read_pending /\ queue # <<>>

(* Mutant: overflow taken from the FIFO's own flag, one edge later. *)
overflow_now_registered(abort_req) == active /\ overflow

overflow_now(abort_req) ==
  active /\ rx_done /\ Len(queue) = DEPTH /\ ~read_request(abort_req)

framing_now == active /\ rx_framing_error

fault_now(abort_req) == overflow_now(abort_req) \/ framing_now

(* Mutant: the line is taken to be free when a frame has just ended. *)
output_ready_after_done(tx_enable) ==
  active /\ ~faulted /\ tx_enable /\ ~tx_busy /\ tx_done

output_ready(tx_enable) == active /\ ~faulted /\ tx_enable /\ ~tx_busy

(* tx_start: a byte leaves the holding register, through the cipher in the *)
(* secure build, straight in the baseline, into a free transmitter.        *)
tx_start(tx_enable) ==
  IF ENABLE_AES THEN Cipher!transfer(held_valid, output_ready(tx_enable))
                ELSE held_valid /\ output_ready(tx_enable)

output_data == <<held_data, IF ENABLE_AES THEN Cipher!mask_byte ELSE Clear>>

cipher_ready == ENABLE_AES => Cipher!cfg_ready

cfg_ready == ~active /\ ~faulted /\ cipher_ready

cfg_done(abort_req) ==
  /\ active /\ ~abort_req /\ ~fault_now(abort_req)
  /\ IF ENABLE_AES THEN Cipher!cfg_done ELSE accepted

exhausted == ENABLE_AES /\ Cipher!stream_exhausted

(* Mutant: a byte is reported when it leaves the FIFO. *)
rx_event_late(abort_req) == active /\ ~abort_req /\ ~fault_now(abort_req) /\ rd_valid

rx_event(abort_req) == active /\ ~abort_req /\ ~fault_now(abort_req) /\ rx_done
-----------------------------------------------------------------------------
(* The effects. *)

(* datapath_rst, asserted by an edge that may still read the FIFO: of the  *)
(* whole datapath only the FIFO's read register is not reset.              *)
DatapathReset(read) ==
  /\ held_data' = Clear
  /\ held_valid' = FALSE
  /\ read_pending' = FALSE
  /\ Rx!Reset
  /\ Fifo!Forget
  /\ Fifo!ReadPort(read)
  /\ Tx!Reset

(* Mutant: the cipher is not told. *)
CipherNotAborted == accepted' = FALSE /\ UNCHANGED <<ENABLE_AES, cipher>>

(* The cipher at an edge that ends the session, or outside one. *)
CipherAbort ==
  /\ accepted' = FALSE
  /\ IF ENABLE_AES THEN Cipher!StreamAbort ELSE UNCHANGED cipher
  /\ UNCHANGED ENABLE_AES

CipherRun(used) ==
  /\ accepted' = FALSE
  /\ IF ENABLE_AES THEN Cipher!StreamRun(used) ELSE UNCHANGED cipher
  /\ UNCHANGED ENABLE_AES

CipherIdle ==
  /\ accepted' = FALSE
  /\ IF ENABLE_AES THEN Cipher!StreamIdle ELSE UNCHANGED cipher
  /\ UNCHANGED ENABLE_AES

CipherConfigure(k, n, c) ==
  /\ accepted' = TRUE
  /\ IF ENABLE_AES THEN Cipher!StreamConfigure(k, n, c) ELSE UNCHANGED cipher
  /\ UNCHANGED ENABLE_AES

(* Mutant: a fault clears the peak with everything else. *)
PeakLostOnFault ==
  fifo_high_water' = IF fault_now(FALSE) THEN 0
                     ELSE IF active /\ high_water > fifo_high_water
                          THEN high_water ELSE fifo_high_water

(* The occupancy peak is copied out of the FIFO, whose own is reset with  *)
(* the datapath.                                                          *)
KeepHighWater ==
  fifo_high_water' = IF active /\ high_water > fifo_high_water
                     THEN high_water ELSE fifo_high_water

(* Mutant: a held byte is released as soon as its keystream byte is there, *)
(* whether or not the line takes it.                                       *)
HoldUntilMask(tx_enable) ==
  /\ read_pending' = (~rd_valid /\ (read_pending \/ read_request(FALSE)))
  /\ held_valid' = (rd_valid \/ (held_valid /\ ~current_valid))
  /\ held_data' = IF rd_valid THEN rd_data ELSE held_data

Hold(tx_enable) ==
  /\ read_pending' = (~rd_valid /\ (read_pending \/ read_request(FALSE)))
  /\ held_valid' = (rd_valid \/ (held_valid /\ ~tx_start(tx_enable)))
  /\ held_data' = IF rd_valid THEN rd_data ELSE held_data

Transmit(tx_enable) ==
  \/ tx_start(tx_enable) /\ Tx!Start(output_data)
  \/ ~tx_start(tx_enable) /\ Tx!Tick
-----------------------------------------------------------------------------
(* The edges, by priority: abort, fault, configuration, the rest. *)

Abort ==
  /\ active' = FALSE
  /\ overflow_sticky' = FALSE
  /\ framing_sticky' = FALSE
  /\ KeepHighWater
  /\ DatapathReset(FALSE)
  /\ CipherAbort

(* A missing byte would shift every later byte against the keystream, so  *)
(* the capture stops and what is pending is discarded.                    *)
Fault ==
  /\ fault_now(FALSE)
  /\ active' = FALSE
  /\ overflow_sticky' = (overflow_sticky \/ overflow_now(FALSE))
  /\ framing_sticky' = (framing_sticky \/ framing_now)
  /\ KeepHighWater
  /\ DatapathReset(read_request(FALSE))
  /\ CipherAbort

Configure(k, n, c) ==
  /\ cfg_ready
  /\ active' = TRUE
  /\ fifo_high_water' = 0
  /\ CipherConfigure(k, n, c)
  /\ UNCHANGED <<overflow_sticky, framing_sticky, datapath>>

Run(tx_enable) ==
  /\ active
  /\ ~fault_now(FALSE)
  /\ KeepHighWater
  /\ Rx!Clock
  /\ Fifo!Clock(rx_done, rx_data, read_request(FALSE))
  /\ Hold(tx_enable)
  /\ Transmit(tx_enable)
  /\ CipherRun(tx_start(tx_enable))
  /\ UNCHANGED <<active, overflow_sticky, framing_sticky>>

Idle ==
  /\ ~active
  /\ CipherIdle
  /\ UNCHANGED <<control, datapath>>

Reset ==
  /\ active' = FALSE
  /\ overflow_sticky' = FALSE
  /\ framing_sticky' = FALSE
  /\ fifo_high_water' = 0
  /\ accepted' = FALSE
  /\ DatapathReset(FALSE)
  /\ Cipher!StreamReset
  /\ UNCHANGED ENABLE_AES

Clock ==
  \/ Abort
  \/ Fault
  \/ \E k \in Key, n \in Nonce, c \in 0..COUNTER_MAX : Configure(k, n, c)
  \/ \E tx_enable \in BOOLEAN : Run(tx_enable)
  \/ Idle

Next == Clock \/ Reset

Spec == Init /\ [][Next]_vars
-----------------------------------------------------------------------------
(* Registers in range; the composed units keep their own types. *)
TypeOK ==
  /\ active \in BOOLEAN
  /\ overflow_sticky \in BOOLEAN
  /\ framing_sticky \in BOOLEAN
  /\ fifo_high_water \in 0..DEPTH
  /\ held_data \in Byte \cup {Clear}
  /\ held_valid \in BOOLEAN
  /\ read_pending \in BOOLEAN
  /\ accepted \in BOOLEAN
  /\ queue \in Seq(Byte)
  /\ Len(queue) <= DEPTH
  /\ rx_wait \in 0..RX_GAP \cup 0..RX_REARM
  /\ tx_left \in 0..FRAME
  /\ Cipher!StreamTypeOK

(* Control and cipher agree on whether there is a session, and a fault     *)
(* latched is a session ended: nothing is received, queued, held, offered  *)
(* to the line or prepared by the cipher until an abort or a reset.        *)
SessionsAgree ==
  /\ ENABLE_AES => cipher_active = active
  /\ faulted => ~active
  /\ ~active => /\ queue = <<>> /\ ~rd_valid /\ ~held_valid
                /\ ~tx_busy /\ ~rx_done /\ ~rx_framing_error
                /\ ~current_valid /\ ~result_valid /\ ~inflight

(* The FIFO never refuses a byte by itself: the bridge sees the refusal in *)
(* the same cycle, from the same signals, and ends the session instead.    *)
FifoNeverDrops == ~overflow

(* The peak reported after an overflow is a full FIFO, although the FIFO   *)
(* and its own peak are reset by the very edge that latches the fault.     *)
OverflowSeenInPeak == overflow_sticky => fifo_high_water = DEPTH

(* Bytes on their way from the receiver to the line, oldest first. *)
InTransit ==
  (IF held_valid THEN <<held_data>> ELSE <<>>)
    \o (IF rd_valid THEN <<rd_data>> ELSE <<>>) \o queue

Channel == INSTANCE CtrChannel WITH
  CAPACITY <- DEPTH + 1,
  SECURE   <- ENABLE_AES,
  open     <- active,
  key      <- IF active THEN master_key ELSE Clear,
  counter  <- Cipher!Position,
  index    <- byte_index,
  incoming <- IF rx_done THEN <<rx_data>> ELSE <<>>,
  owed     <- InTransit,
  line     <- tx_frame,
  remaining <- tx_left

(* End to end the bridge is the channel: while a session lasts every byte  *)
(* that rx_done reports is owed from the next edge on, and is not lost,    *)
(* duplicated or reordered on its way through FIFO, holding register and   *)
(* cipher, whatever the stalls of the line and of the cipher; byte n is    *)
(* combined with keystream byte n; a frame that has been started is on the *)
(* line for exactly FRAME edges, whatever tx_enable does; and what ends a  *)
(* session ends its frame and discards every byte of it.                   *)
ImplementsChannel == Channel!Spec
=============================================================================
