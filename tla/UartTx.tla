-------------------------------- MODULE UartTx --------------------------------
(***************************************************************************)
(* rtl/uart/uart_tx.sv: the 8N1 transmitter, least significant bit first.  *)
(* A step is a rising edge of clk, or the assertion of rst.  A byte is the *)
(* sequence of its bits, element 1 the least significant.                  *)
(***************************************************************************)
EXTENDS Naturals, Sequences

CONSTANTS
  CLKS_PER_BIT,  \* at least 8
  DATA_BITS,     \* 8
  Data           \* the bytes that are offered

VARIABLES
  tx,                    \* the line
  tx_busy, tx_done,
  bit_timer, bit_index,
  frame,                 \* data bits still to be sent and the stop bit
  tx_frame               \* auxiliary: the byte being sent, <<>> if none

vars == <<tx, tx_busy, tx_done, bit_timer, bit_index, frame, tx_frame>>

BIT_LAST == CLKS_PER_BIT - 1

(* A register of all ones: the line at rest. *)
Ones == [i \in 1..DATA_BITS + 1 |-> 1]

Init ==
  /\ tx = 1
  /\ tx_busy = FALSE
  /\ tx_done = FALSE
  /\ bit_timer = 0
  /\ bit_index = 0
  /\ frame = Ones
  /\ tx_frame = <<>>

Start(data) ==
  /\ ~tx_busy
  /\ tx' = 0
  /\ tx_busy' = TRUE
  /\ tx_done' = FALSE
  /\ bit_timer' = BIT_LAST
  /\ bit_index' = 0
  /\ frame' = Append(data, 1)
  /\ tx_frame' = data

Rest ==
  /\ ~tx_busy
  /\ tx' = 1
  /\ tx_done' = FALSE
  /\ UNCHANGED <<tx_busy, bit_timer, bit_index, frame, tx_frame>>

HoldBit ==
  /\ tx_busy
  /\ bit_timer # 0
  /\ bit_timer' = bit_timer - 1
  /\ tx_done' = FALSE
  /\ UNCHANGED <<tx, tx_busy, bit_index, frame, tx_frame>>

NextBit ==
  /\ tx_busy
  /\ bit_timer = 0
  /\ bit_index # DATA_BITS + 1
  /\ tx' = Head(frame)
  /\ frame' = Append(Tail(frame), 1)
  /\ bit_index' = bit_index + 1
  /\ bit_timer' = BIT_LAST
  /\ tx_done' = FALSE
  /\ UNCHANGED <<tx_busy, tx_frame>>

(* Mutant: the stop bit ends at its midpoint. *)
EndFrameEarly ==
  /\ tx_busy
  /\ bit_index = DATA_BITS + 1
  /\ bit_timer <= CLKS_PER_BIT \div 2
  /\ tx' = 1
  /\ tx_busy' = FALSE
  /\ tx_done' = TRUE
  /\ tx_frame' = <<>>
  /\ UNCHANGED <<bit_timer, bit_index, frame>>

(* The complete stop bit has elapsed. *)
EndFrame ==
  /\ tx_busy
  /\ bit_timer = 0
  /\ bit_index = DATA_BITS + 1
  /\ tx' = 1
  /\ tx_busy' = FALSE
  /\ tx_done' = TRUE
  /\ tx_frame' = <<>>
  /\ UNCHANGED <<bit_timer, bit_index, frame>>

(* An edge at which no byte is offered, or none can be taken. *)
Tick == Rest \/ HoldBit \/ NextBit \/ EndFrame

Reset ==
  /\ tx' = 1
  /\ tx_busy' = FALSE
  /\ tx_done' = FALSE
  /\ bit_timer' = 0
  /\ bit_index' = 0
  /\ frame' = Ones
  /\ tx_frame' = <<>>
-----------------------------------------------------------------------------
TypeOK ==
  /\ tx \in {0, 1}
  /\ tx_busy \in BOOLEAN
  /\ tx_done \in BOOLEAN
  /\ bit_timer \in 0..BIT_LAST
  /\ bit_index \in 0..DATA_BITS + 1
  /\ frame \in [1..DATA_BITS + 1 -> {0, 1}]
  /\ tx_frame \in Data \cup {<<>>}

(* The byte side of the transmitter, with the frame time it really has. *)
Port == INSTANCE TxPort WITH
  FRAME   <- (DATA_BITS + 2) * CLKS_PER_BIT,
  Clear   <- <<>>,
  tx_left <- IF tx_busy
             THEN (DATA_BITS + 1 - bit_index) * CLKS_PER_BIT + bit_timer + 1
             ELSE 0
=============================================================================
