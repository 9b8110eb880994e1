------------------------------- MODULE UartLink -------------------------------
(***************************************************************************)
(* A transmitter (UartTx) and a receiver (UartRx) at the two ends of one   *)
(* line, each on its own clock: the bridge's receiver fed by an 8N1 source *)
(* or a far receiver listening to the bridge.  The clocks have the same    *)
(* nominal rate and differ by at most TOLERANCE edges per frame.  The far  *)
(* end starts on an idle line, as the protocol demands.                    *)
(***************************************************************************)
EXTENDS UartRx, Integers

CONSTANTS
  Data,          \* the bytes that are sent
  TOLERANCE      \* edges one clock may gain on the other within a frame

ASSUME LinkAssumption ==
  /\ Data \subseteq [1..DATA_BITS -> {0, 1}]
  /\ TOLERANCE \in Nat

VARIABLES
  tx, tx_busy, tx_done, tx_timer, tx_index, frame, tx_frame,
  drift,      \* transmitter's edges minus receiver's in this frame
  crossing    \* auxiliary: bytes taken by the one and not yet given by the other

Tx == INSTANCE UartTx WITH bit_timer <- tx_timer, bit_index <- tx_index

txVars   == <<tx, tx_busy, tx_done, tx_timer, tx_index, frame, tx_frame>>
linkVars == <<txVars, vars, drift, crossing>>

(* Both ends are out of reset and the line has been idle for a bit time. *)
LinkInit ==
  /\ Tx!Init
  /\ rx_meta = 1
  /\ rx_sync = 1
  /\ rx_state = "IDLE"
  /\ bit_timer = 0
  /\ bit_index = 0
  /\ data_shift = Zeros
  /\ rx_data = Zeros
  /\ rx_done = FALSE
  /\ rx_framing_error = FALSE
  /\ drift = 0
  /\ crossing = <<>>

(* The clocks: both tick, or one of them gains an edge on the other. *)
Drift(d) == d \in -TOLERANCE..TOLERANCE /\ drift' = d

Gained(n) == IF tx_busy' /\ ~tx_busy THEN Drift(0) ELSE Drift(drift + n)

TxEdge == (\E data \in Data : Tx!Start(data)) \/ Tx!Tick

Taken == IF tx_busy' /\ ~tx_busy THEN <<tx_frame'>> ELSE <<>>

Arrives == rx_done' /\ ~rx_done

Cross ==
  crossing' = (IF Arrives /\ crossing # <<>> THEN Tail(crossing) ELSE crossing) \o Taken

BothTick == TxEdge /\ Edge(tx) /\ Gained(0) /\ Cross

TxTicks == TxEdge /\ UNCHANGED vars /\ Gained(1) /\ Cross

RxTicks == Edge(tx) /\ UNCHANGED txVars /\ Gained(-1) /\ Cross

LinkNext == BothTick \/ TxTicks \/ RxTicks

LinkSpec == LinkInit /\ [][LinkNext]_linkVars

(* Neither clock stops; no byte is ever forced on the transmitter. *)
QuietEdge == Tx!Tick /\ Edge(tx) /\ Gained(0) /\ Cross

FairSpec ==
  /\ LinkSpec
  /\ WF_linkVars((BothTick \/ TxTicks) /\ ENABLED <<QuietEdge>>_linkVars)
  /\ WF_linkVars((BothTick \/ RxTicks) /\ ENABLED <<QuietEdge>>_linkVars)
-----------------------------------------------------------------------------
(* Registers in range; at most two bytes are on their way, the second one *)
(* started while the stop bit of the first is being sampled.              *)
LinkTypeOK ==
  /\ Tx!TypeOK
  /\ TypeOK
  /\ drift \in -TOLERANCE..TOLERANCE
  /\ Len(crossing) <= 2

(* The transmitter is the byte port the bridge was modelled with: a frame  *)
(* takes ten bit times and one more edge, whatever the byte.               *)
TxImplementsPort ==
  /\ Tx!Port!Init
  /\ [][\/ \E data \in Data : Tx!Port!Start(data)
        \/ Tx!Port!Tick]_(Tx!Port!vars)

(* Every byte crosses the line intact, once and in order, back to back or  *)
(* with pauses, and no framing error is reported, as long as the clocks    *)
(* stay within the tolerance.                                              *)
CrossesIntact ==
  [][/\ Arrives => crossing # <<>> /\ rx_data' = Head(crossing)
     /\ ~rx_framing_error']_linkVars

(* Every byte taken by the transmitter comes out of the receiver. *)
ByteArrives == crossing # <<>> ~> rx_done
=============================================================================
