------------------------------- MODULE TxPort -------------------------------
(***************************************************************************)
(* The byte side of rtl/uart/uart_tx.sv: a byte offered while the          *)
(* transmitter is free is taken whole and occupies the line for FRAME      *)
(* clock edges, ten bit times of CLKS_PER_BIT, after which tx_done pulses. *)
(* The levels of the line are abstracted to the byte being sent.           *)
(***************************************************************************)
EXTENDS Naturals

CONSTANTS
  FRAME,         \* 10 * CLKS_PER_BIT
  Clear          \* the line at rest

VARIABLES
  tx_busy,
  tx_left,       \* edges until the end of the stop bit, 0 when free
  tx_frame,      \* what is being sent
  tx_done

vars == <<tx_busy, tx_left, tx_frame, tx_done>>

Init ==
  /\ tx_busy = FALSE
  /\ tx_left = 0
  /\ tx_frame = Clear
  /\ tx_done = FALSE

(* Mutant: a stop bit one clock cycle too long. *)
StartLonger(data) ==
  /\ ~tx_busy
  /\ tx_busy' = TRUE
  /\ tx_left' = FRAME + 1
  /\ tx_frame' = data
  /\ tx_done' = FALSE

Start(data) ==
  /\ ~tx_busy
  /\ tx_busy' = TRUE
  /\ tx_left' = FRAME
  /\ tx_frame' = data
  /\ tx_done' = FALSE

Send ==
  /\ tx_busy
  /\ tx_left > 1
  /\ tx_left' = tx_left - 1
  /\ tx_done' = FALSE
  /\ UNCHANGED <<tx_busy, tx_frame>>

EndFrame ==
  /\ tx_busy
  /\ tx_left = 1
  /\ tx_busy' = FALSE
  /\ tx_left' = 0
  /\ tx_frame' = Clear
  /\ tx_done' = TRUE

Rest ==
  /\ ~tx_busy
  /\ tx_done' = FALSE
  /\ UNCHANGED <<tx_busy, tx_left, tx_frame>>

(* An edge at which no byte is offered, or none can be taken. *)
Tick == Send \/ EndFrame \/ Rest

Reset ==
  /\ tx_busy' = FALSE
  /\ tx_left' = 0
  /\ tx_frame' = Clear
  /\ tx_done' = FALSE
=============================================================================
