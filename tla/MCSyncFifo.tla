----------------------------- MODULE MCSyncFifo -----------------------------
(* SyncFifo on a small ring: two byte values are enough to tell every order *)
(* of the stored bytes apart, and DEPTH 4 lets the pointers wrap.           *)
EXTENDS SyncFifo

CONSTANTS b1, b2

MCData == {b1, b2}
=============================================================================
