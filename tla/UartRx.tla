-------------------------------- MODULE UartRx --------------------------------
(***************************************************************************)
(* rtl/uart/uart_rx.sv: the 8N1 receiver.  The line passes two flip-flops, *)
(* a falling edge starts a frame, and every bit is sampled once, half a    *)
(* bit time after its nominal beginning.  A step is a rising edge of clk   *)
(* with the level of the line at it, or the assertion of rst.              *)
(***************************************************************************)
EXTENDS Naturals, Sequences

CONSTANTS
  CLKS_PER_BIT,
  DATA_BITS      \* 8

(* The RTL refuses CLKS_PER_BIT < 8. *)
ASSUME RxAssumption ==
  /\ CLKS_PER_BIT \in Nat /\ CLKS_PER_BIT >= 8
  /\ DATA_BITS \in Nat \ {0}

VARIABLES
  rx_meta, rx_sync,            \* the synchroniser
  rx_state,                    \* WAIT_IDLE, IDLE, START, DATA or STOP
  bit_timer, bit_index,
  data_shift,                  \* the bits sampled so far, the last one last
  rx_data, rx_done, rx_framing_error

vars == <<rx_meta, rx_sync, rx_state, bit_timer, bit_index, data_shift,
          rx_data, rx_done, rx_framing_error>>

BIT_LAST == CLKS_PER_BIT - 1

(* Mutant: the start bit is checked at its end. *)
HALF_LAST_full == CLKS_PER_BIT - 1

HALF_LAST == CLKS_PER_BIT \div 2 - 1

Zeros == [i \in 1..DATA_BITS |-> 0]

Init ==
  /\ rx_meta = 1
  /\ rx_sync = 1
  /\ rx_state = "WAIT_IDLE"
  /\ bit_timer = 0
  /\ bit_index = 0
  /\ data_shift = Zeros
  /\ rx_data = Zeros
  /\ rx_done = FALSE
  /\ rx_framing_error = FALSE

Synchronise(rx) == rx_meta' = rx /\ rx_sync' = rx_meta

(* The two pulses are cleared at every edge that does not set them. *)
NoPulse == rx_done' = FALSE /\ rx_framing_error' = FALSE

(* Mutant: idle time is added up over several idle periods. *)
WaitIdleAccumulating ==
  /\ rx_state = "WAIT_IDLE"
  /\ \/ rx_sync = 0 /\ UNCHANGED <<bit_timer, rx_state>>
     \/ rx_sync = 1 /\ bit_timer = BIT_LAST /\ bit_timer' = 0 /\ rx_state' = "IDLE"
     \/ rx_sync = 1 /\ bit_timer # BIT_LAST /\ bit_timer' = bit_timer + 1
          /\ UNCHANGED rx_state
  /\ NoPulse
  /\ UNCHANGED <<bit_index, data_shift, rx_data>>

(* After reset or an error: a whole idle bit before rearming. *)
WaitIdle ==
  /\ rx_state = "WAIT_IDLE"
  /\ \/ rx_sync = 0 /\ bit_timer' = 0 /\ UNCHANGED rx_state
     \/ rx_sync = 1 /\ bit_timer = BIT_LAST /\ bit_timer' = 0 /\ rx_state' = "IDLE"
     \/ rx_sync = 1 /\ bit_timer # BIT_LAST /\ bit_timer' = bit_timer + 1
          /\ UNCHANGED rx_state
  /\ NoPulse
  /\ UNCHANGED <<bit_index, data_shift, rx_data>>

AwaitStart ==
  /\ rx_state = "IDLE"
  /\ \/ rx_sync = 0 /\ bit_timer' = HALF_LAST /\ rx_state' = "START"
     \/ rx_sync = 1 /\ UNCHANGED <<bit_timer, rx_state>>
  /\ NoPulse
  /\ UNCHANGED <<bit_index, data_shift, rx_data>>

(* Between two samples. *)
CountDown ==
  /\ rx_state \in {"START", "DATA", "STOP"}
  /\ bit_timer # 0
  /\ bit_timer' = bit_timer - 1
  /\ NoPulse
  /\ UNCHANGED <<rx_state, bit_index, data_shift, rx_data>>

(* The middle of the start bit: a pulse that did not last is ignored. *)
SampleStart ==
  /\ rx_state = "START"
  /\ bit_timer = 0
  /\ \/ rx_sync = 1 /\ rx_state' = "IDLE" /\ UNCHANGED <<bit_timer, bit_index>>
     \/ rx_sync = 0 /\ rx_state' = "DATA" /\ bit_timer' = BIT_LAST /\ bit_index' = 0
  /\ NoPulse
  /\ UNCHANGED <<data_shift, rx_data>>

(* Mutant: one data bit too few. *)
SampleDataShort ==
  /\ rx_state = "DATA"
  /\ bit_timer = 0
  /\ data_shift' = Append(Tail(data_shift), rx_sync)
  /\ bit_timer' = BIT_LAST
  /\ IF bit_index + 2 >= DATA_BITS
     THEN rx_state' = "STOP" /\ UNCHANGED bit_index
     ELSE bit_index' = bit_index + 1 /\ UNCHANGED rx_state
  /\ NoPulse
  /\ UNCHANGED rx_data

SampleData ==
  /\ rx_state = "DATA"
  /\ bit_timer = 0
  /\ data_shift' = Append(Tail(data_shift), rx_sync)
  /\ bit_timer' = BIT_LAST
  /\ \/ bit_index = DATA_BITS - 1 /\ rx_state' = "STOP" /\ UNCHANGED bit_index
     \/ bit_index # DATA_BITS - 1 /\ bit_index' = bit_index + 1 /\ UNCHANGED rx_state
  /\ NoPulse
  /\ UNCHANGED rx_data

(* Mutant: after a byte the receiver wants a whole idle bit too. *)
SampleStopThenWait ==
  /\ rx_state = "STOP"
  /\ bit_timer = 0
  /\ rx_done' = (rx_sync = 1)
  /\ rx_framing_error' = (rx_sync = 0)
  /\ rx_data' = IF rx_sync = 1 THEN data_shift ELSE rx_data
  /\ rx_state' = "WAIT_IDLE"
  /\ UNCHANGED <<bit_timer, bit_index, data_shift>>

(* A high stop bit delivers the byte, a low one reports the error once. *)
SampleStop ==
  /\ rx_state = "STOP"
  /\ bit_timer = 0
  /\ rx_done' = (rx_sync = 1)
  /\ rx_framing_error' = (rx_sync = 0)
  /\ rx_data' = IF rx_sync = 1 THEN data_shift ELSE rx_data
  /\ rx_state' = IF rx_sync = 1 THEN "IDLE" ELSE "WAIT_IDLE"
  /\ UNCHANGED <<bit_timer, bit_index, data_shift>>

Edge(rx) ==
  /\ Synchronise(rx)
  /\ \/ WaitIdle
     \/ AwaitStart
     \/ CountDown
     \/ SampleStart
     \/ SampleData
     \/ SampleStop

Reset ==
  /\ rx_meta' = 1
  /\ rx_sync' = 1
  /\ rx_state' = "WAIT_IDLE"
  /\ bit_timer' = 0
  /\ bit_index' = 0
  /\ data_shift' = Zeros
  /\ rx_data' = Zeros
  /\ NoPulse
-----------------------------------------------------------------------------
TypeOK ==
  /\ rx_meta \in {0, 1}
  /\ rx_sync \in {0, 1}
  /\ rx_state \in {"WAIT_IDLE", "IDLE", "START", "DATA", "STOP"}
  /\ bit_timer \in 0..BIT_LAST
  /\ bit_index \in 0..DATA_BITS - 1
  /\ data_shift \in [1..DATA_BITS -> {0, 1}]
  /\ rx_data \in [1..DATA_BITS -> {0, 1}]
  /\ rx_done \in BOOLEAN
  /\ rx_framing_error \in BOOLEAN
  /\ ~(rx_done /\ rx_framing_error)
=============================================================================
