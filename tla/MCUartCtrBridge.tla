--------------------------- MODULE MCUartCtrBridge ---------------------------
(* One key and nonce, three counter values, three mask bytes, a FIFO of   *)
(* four bytes; the timing constants come from the configuration.           *)
EXTENDS UartCtrBridge

CONSTANTS b1, b2, k1, n1

MCByte  == {b1, b2}
MCKey   == {k1}
MCNonce == {n1}
MCValue == {k1} \X ({n1} \X (0 .. COUNTER_MAX))
MCEnc   == [p \in {k1} \X ({n1} \X (0 .. COUNTER_MAX)) |-> p]
=============================================================================
