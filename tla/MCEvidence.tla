----------------------------- MODULE MCEvidence -----------------------------
(* A byte of one data bit, two and a half samples to a bit.  c1 and c2 are *)
(* registered, c3 is c1 with another key, b1 is for the baseline build.    *)
EXTENDS Evidence

Secure(id, body) == [id |-> id, mode |-> "aes-128-ctr", body |-> body]
c1 == Secure(1, 1)
c2 == Secure(2, 2)
c3 == Secure(1, 3)
b1 == [id |-> 4, mode |-> "baseline", body |-> 4]

MCContext == {c1, c2, c3, b1}
MCRegistered == {c1, c2}

(* Of the registered contexts, the one that has an altered copy. *)
MCPlanned == {c1, b1}

(* The level of a line with one frame: start, value, stop, from sample at. *)
Frame(at, value, stop_level) == <<at, value, stop_level>>
Level(f, i) ==
  LET bit == IF i < f[1] THEN 9 ELSE (2 * (i - f[1])) \div PERIOD2 IN
  CASE bit = 0 -> 0 [] bit = 1 -> f[2] [] bit = 2 -> f[3] [] OTHER -> 1

Wave(reference, cipher, length) ==
  [i \in 1 .. length |-> <<Level(reference, i), Level(cipher, i)>>]

Source(reference, cipher, cp2102, other) ==
  [samples |-> Wave(reference, cipher, 13), cp2102 |-> cp2102, board |-> other]

(* The byte 1 and the byte 0 well received, the second with a byte too     *)
(* many heard while the bitstream of an altered copy runs; an echo that    *)
(* differs; a broken stop bit and nothing heard; activity in the warm-up   *)
(* and in the idle time; the bitstream of a registered context, which may  *)
(* be another than the one that was compiled.                              *)
MCStreams ==
  {Source(Frame(7, 1, 1), Frame(7, 1, 1), <<1>>, None),
   Source(Frame(6, 0, 1), Frame(7, 0, 1), <<0, 1>>, c3),
   Source(Frame(7, 1, 1), Frame(7, 0, 1), <<0>>, None),
   Source(Frame(6, 0, 0), Frame(7, 0, 1), <<>>, None),
   Source(Frame(2, 0, 1), Frame(7, 0, 1), <<0>>, None),
   Source(Frame(4, 0, 1), Frame(6, 0, 1), <<0>>, None),
   Source(Frame(6, 1, 1), Frame(7, 1, 1), <<1>>, c1)}

MCWindow == {<<1>>, <<0>>}
=============================================================================
