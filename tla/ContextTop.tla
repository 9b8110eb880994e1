----------------------------- MODULE ContextTop -----------------------------
(***************************************************************************)
(* fpga/de10_lite/common/de10_lite_uart_ctr_top.sv with its reset_sync:    *)
(* the board wrapper of both builds.  The key, nonce and counter are part  *)
(* of the bitstream, so KEY0 could start the same keystream again; the     *)
(* wrapper lets it do so only while no byte has been received.             *)
(*                                                                         *)
(* A step is a rising edge of the board clock, or KEY0 going down or up    *)
(* between two edges.  The wrapper ties tx_enable to 1 and abort_req to 0. *)
(* A behaviour is the life of one configuration of the FPGA, from power-up *)
(* on: context_used survives KEY0 but not reprogramming.                   *)
(***************************************************************************)
EXTENDS UartCtrBridge

CONSTANTS CONTEXT_KEY, CONTEXT_NONCE, CONTEXT_COUNTER

ASSUME ContextAssumption ==
  /\ CONTEXT_KEY \in Key
  /\ CONTEXT_NONCE \in Nonce
  /\ CONTEXT_COUNTER \in 0..COUNTER_MAX

(* Under one key AES-128 encrypts no two blocks to the same mask. *)
ASSUME CipherIsOneToOne ==
  \A c, d \in 0..COUNTER_MAX :
    Enc[<<CONTEXT_KEY, <<CONTEXT_NONCE, c>>>>] = Enc[<<CONTEXT_KEY, <<CONTEXT_NONCE, d>>>>]
      => c = d

VARIABLES
  pressed,        \* KEY0 is down
  release_pipe,   \* the two flip-flops of reset_sync, <<[0], [1]>>
  context_used,   \* a byte was received; not reset by KEY0
  cfg_pending,    \* the context has yet to be loaded
  cfg_done_seen,  \* LED 5
  spent           \* auxiliary: the keystream bytes used since power-up

boardRegs == <<pressed, release_pipe, context_used, cfg_pending, cfg_done_seen>>
topVars   == <<boardRegs, spent, vars>>

rst == release_pipe[2]

cfg_valid == cfg_pending /\ ~context_used

TopInit ==
  /\ Init
  /\ pressed = FALSE
  /\ release_pipe = <<TRUE, TRUE>>
  /\ context_used = FALSE
  /\ cfg_pending = TRUE
  /\ cfg_done_seen = FALSE
  /\ spent = {}

(* Mutants: KEY0 resets context_used too; KEY0 does not ask for the        *)
(* context again.                                                          *)
PressForgetsUse ==
  /\ ~pressed
  /\ pressed' = TRUE
  /\ release_pipe' = <<TRUE, TRUE>>
  /\ cfg_pending' = TRUE
  /\ cfg_done_seen' = FALSE
  /\ context_used' = FALSE
  /\ Reset
  /\ UNCHANGED spent

PressKeepsPending ==
  /\ ~pressed
  /\ pressed' = TRUE
  /\ release_pipe' = <<TRUE, TRUE>>
  /\ cfg_done_seen' = FALSE
  /\ Reset
  /\ UNCHANGED <<context_used, cfg_pending, spent>>

(* KEY0 resets everything but context_used at once. *)
Press ==
  /\ ~pressed
  /\ pressed' = TRUE
  /\ release_pipe' = <<TRUE, TRUE>>
  /\ cfg_pending' = TRUE
  /\ cfg_done_seen' = FALSE
  /\ Reset
  /\ UNCHANGED <<context_used, spent>>

Release ==
  /\ pressed
  /\ pressed' = FALSE
  /\ UNCHANGED <<release_pipe, context_used, cfg_pending, cfg_done_seen, spent, vars>>

(* The reset is released two edges after KEY0. *)
SyncRelease ==
  release_pipe' = IF pressed THEN <<TRUE, TRUE>> ELSE <<FALSE, release_pipe[1]>>

EdgeInReset ==
  /\ rst
  /\ SyncRelease
  /\ UNCHANGED <<pressed, context_used, cfg_pending, cfg_done_seen, spent, vars>>

BridgeEdge ==
  \/ Fault
  \/ Run(TRUE)
  \/ cfg_valid /\ Configure(CONTEXT_KEY, CONTEXT_NONCE, CONTEXT_COUNTER)
  \/ ~(cfg_valid /\ cfg_ready) /\ Idle

LatchDone == cfg_done_seen' = (cfg_done_seen \/ cfg_done(FALSE))

Edge ==
  /\ ~rst
  /\ SyncRelease
  /\ context_used' = (context_used \/ rx_event(FALSE))
  /\ cfg_pending' = (cfg_pending /\ ~(cfg_ready /\ ~context_used))
  /\ LatchDone
  /\ BridgeEdge
  /\ spent' = IF tx_frame = Clear /\ tx_frame' # Clear
              THEN spent \cup {tx_frame'[2]} ELSE spent
  /\ UNCHANGED pressed

TopNext == Press \/ Release \/ EdgeInReset \/ Edge

TopSpec == TopInit /\ [][TopNext]_topVars

(* An edge at which the receiver delivers nothing. *)
QuietEdge == EdgeInReset \/ (Edge /\ ~rx_done' /\ ~rx_framing_error')

(* The board clock never stops: the registers do not stay as they are when *)
(* even an edge without an arrival would change them.  Neither arrivals    *)
(* nor KEY0 are ever forced.                                               *)
TopFairSpec ==
  TopSpec /\ WF_topVars((EdgeInReset \/ Edge) /\ ENABLED <<QuietEdge>>_topVars)
-----------------------------------------------------------------------------
(* From the moment a byte can be anywhere in the datapath the context is  *)
(* marked as used, so a reset at any point of a transfer finds the mark.   *)
BytesMarkContext ==
  (InTransit # <<>> \/ tx_busy \/ spent # {}) => context_used

(* Over the whole life of the bitstream, with KEY0 pressed at any time, no *)
(* keystream byte is combined with a second payload byte.                  *)
KeystreamUsedOnce ==
  [][tx_frame = Clear /\ tx_frame' # Clear => tx_frame'[2] \notin spent]_topVars

(* A reset before the first byte is harmless: once KEY0 is left alone the  *)
(* context is loaded again, unless it was used or the line is in error.    *)
RearmsUnlessUsed ==
  <>[]~pressed => <>[](active \/ context_used \/ faulted)

(* A byte in the holding register moves on to the line whatever else       *)
(* happens, unless the keystream of the context is exhausted.              *)
HeldByteLeaves == held_valid ~> (~held_valid \/ exhausted)

(* A transmission takes one edge more than the frame, so a source that     *)
(* leaves one spare edge per byte (RX_GAP >= FRAME) can go on for ever:    *)
(* only the end of the keystream stops the line and lets the FIFO fill up. *)
KeepsUpWithSource ==
  [][~overflow_sticky /\ overflow_sticky' => exhausted]_topVars
=============================================================================
