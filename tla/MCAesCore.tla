------------------------------ MODULE MCAesCore ------------------------------
(* The engine with its real number of rounds, two keys and two blocks. *)
EXTENDS AesCore

CONSTANTS k1, k2, p1, p2

MCKey   == {k1, k2}
MCBlock == {p1, p2}
=============================================================================
