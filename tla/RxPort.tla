------------------------------- MODULE RxPort -------------------------------
(***************************************************************************)
(* The byte side of rtl/uart/uart_rx.sv: at any time, but never more often *)
(* than the frame length allows, it pulses rx_done with a byte or          *)
(* rx_framing_error; it never pulses both, and after a reset or an error   *)
(* it is silent until the line has been idle.  What arrives is chosen by   *)
(* the far end, which is not under the bridge's control.                   *)
(***************************************************************************)
EXTENDS Naturals

CONSTANTS
  Byte,
  RX_GAP,        \* fewest edges between two pulses
  RX_REARM,      \* fewest edges between reset or an error and a pulse
  Clear

VARIABLES
  rx_done, rx_framing_error, rx_data,
  rx_wait        \* edges before the next pulse is possible

vars == <<rx_done, rx_framing_error, rx_data, rx_wait>>

Init ==
  /\ rx_done = FALSE
  /\ rx_framing_error = FALSE
  /\ rx_data = Clear
  /\ rx_wait = RX_REARM

(* A valid stop bit: the byte is presented for one cycle. *)
Receive(b) ==
  /\ rx_wait = 0
  /\ rx_done' = TRUE
  /\ rx_framing_error' = FALSE
  /\ rx_data' = b
  /\ rx_wait' = RX_GAP

(* A low stop bit: the error is reported once, then the line must be idle. *)
FramingError ==
  /\ rx_wait = 0
  /\ rx_done' = FALSE
  /\ rx_framing_error' = TRUE
  /\ rx_wait' = RX_REARM
  /\ UNCHANGED rx_data

Quiet ==
  /\ rx_done' = FALSE
  /\ rx_framing_error' = FALSE
  /\ rx_wait' = IF rx_wait = 0 THEN 0 ELSE rx_wait - 1
  /\ UNCHANGED rx_data

Clock ==
  \/ \E b \in Byte : Receive(b)
  \/ FramingError
  \/ Quiet

Reset ==
  /\ rx_done' = FALSE
  /\ rx_framing_error' = FALSE
  /\ rx_data' = Clear
  /\ rx_wait' = RX_REARM
=============================================================================
