---------------------------- MODULE MCSerialBench ----------------------------
(* A stimulus of two bytes, two transactions, a context of two bytes for   *)
(* the recorders, and one fault of the line at a time.                     *)
EXTENDS SerialBench

CONSTANTS a, b

MCReference == <<a, b>>
=============================================================================
