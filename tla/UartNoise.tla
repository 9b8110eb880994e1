------------------------------- MODULE UartNoise -------------------------------
(***************************************************************************)
(* The receiver of rtl/uart/uart_rx.sv on a line that may do anything:     *)
(* noise, glitches, breaks, frames at any speed, with resets at any time.  *)
(* What it still promises is what the bridge relies on (RxPort).           *)
(***************************************************************************)
EXTENDS UartRx

VARIABLES
  rx_wait,   \* auxiliary: edges before the next pulse is possible
  idle       \* auxiliary: consecutive high samples since reset or the last
             \* framing error; stays at CLKS_PER_BIT once it gets there

noiseVars == <<vars, rx_wait, idle>>

(* From a start bit to the sample of the stop bit; with an idle bit first. *)
GAP   == CLKS_PER_BIT \div 2 + (DATA_BITS + 1) * CLKS_PER_BIT
REARM == CLKS_PER_BIT + GAP

NoiseInit ==
  /\ Init
  /\ rx_wait = REARM
  /\ idle = 0

NoiseEdge ==
  /\ \E rx \in {0, 1} : Edge(rx)
  /\ rx_wait' = CASE rx_done'          -> GAP
                  [] rx_framing_error' -> REARM
                  [] OTHER             -> IF rx_wait = 0 THEN 0 ELSE rx_wait - 1
  /\ idle' = IF rx_framing_error' THEN 0
             ELSE IF idle = CLKS_PER_BIT THEN idle
             ELSE IF rx_sync = 1 THEN idle + 1 ELSE 0

NoiseReset ==
  /\ Reset
  /\ rx_wait' = REARM
  /\ idle' = 0

NoiseNext == NoiseEdge \/ NoiseReset

NoiseSpec == NoiseInit /\ [][NoiseNext]_noiseVars
-----------------------------------------------------------------------------
(* Whatever the line does, two bytes are never closer than nine and a half *)
(* bit times, an error or a reset is followed by at least ten and a half   *)
(* bit times of silence, and the byte register changes only with a byte.   *)
Port == INSTANCE RxPort WITH
  Byte     <- [1..DATA_BITS -> {0, 1}],
  RX_GAP   <- GAP,
  RX_REARM <- REARM,
  Clear    <- Zeros

ImplementsPort == Port!Init /\ [][Port!Clock \/ Port!Reset]_(Port!vars)

(* A continuous break is one framing error, not a series of phantom        *)
(* frames: after an error, or a reset, nothing is reported until the line  *)
(* has been high for a whole bit time without interruption.                *)
SilentUntilIdle ==
  [][rx_done' \/ rx_framing_error' => idle = CLKS_PER_BIT]_noiseVars
=============================================================================
