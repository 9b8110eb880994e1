----------------------------- MODULE MCCtrStream -----------------------------
(* Masks of three bytes, four counter values, two keys and two nonces.    *)
EXTENDS CtrStream

CONSTANTS k1, k2, n1, n2

MCKey   == {k1, k2}
MCNonce == {n1, n2}
MCValue == {k1, k2} \X ({n1, n2} \X (0 .. COUNTER_MAX))
MCEnc   == [p \in {k1, k2} \X ({n1, n2} \X (0 .. COUNTER_MAX)) |-> p]
=============================================================================
