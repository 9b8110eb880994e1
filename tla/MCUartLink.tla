------------------------------ MODULE MCUartLink ------------------------------
(* The smallest bit time the RTL accepts, bytes of eight bits; the values  *)
(* have the longest run of each level, and an edge at every bit.           *)
EXTENDS UartLink

MCData == { <<0,0,0,0,0,0,0,0>>, <<1,1,1,1,1,1,1,1>>, <<1,0,1,0,1,0,1,1>> }
=============================================================================
