---------------------------- MODULE MCContextTop ----------------------------
(* The wrapper around a small bridge: a context of three counter blocks of *)
(* three bytes, a FIFO of four bytes, one payload value.                   *)
EXTENDS ContextTop

CONSTANTS b1, k1, n1

MCByte  == {b1}
MCKey   == {k1}
MCNonce == {n1}
MCValue == {k1} \X ({n1} \X (0 .. COUNTER_MAX))
MCEnc   == [p \in {k1} \X ({n1} \X (0 .. COUNTER_MAX)) |-> p]
=============================================================================
