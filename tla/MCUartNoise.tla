------------------------------ MODULE MCUartNoise ------------------------------
(* Bytes of two bits at the smallest bit time the RTL accepts: the state   *)
(* machine passes first and last data bit; the data play no part in it.    *)
EXTENDS UartNoise
=============================================================================
