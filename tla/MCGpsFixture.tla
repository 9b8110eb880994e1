---------------------------- MODULE MCGpsFixture ----------------------------
(* Three sentences of one and two fields bytes, with line ends as they are *)
(* in the repository, converted, mixed or broken; a checksum that is wrong *)
(* and a last line without an end.  One byte of a capture may be lost or   *)
(* altered to a byte of each kind.                                         *)
EXTENDS GpsFixture

Sentence(body) ==
  <<Dollar>> \o body \o <<Star, Digits(FoldLeft(LAMBDA x, byte : x ^^ byte, 0, body))>>

a == Sentence(<<1>>)
b == Sentence(<<2, 3>>)
wrong == <<Dollar, 1, Star, Digits(2)>>
crlf == <<CR, LF>>

MCFiles == {
  a \o <<LF>> \o b \o <<LF>> \o a \o <<LF>>,
  b \o crlf \o a \o <<LF>> \o b,
  a \o <<CR>> \o b \o <<LF>>,
  wrong \o <<LF>>,
  a \o <<LF, LF>> \o b,
  <<>>}
MCAltered == {1, Digits(1), Dollar, Star, CR, LF, Unprintable}
MCLimits == <<7, 6>>
MCSizes == {5, 6, 16}
=============================================================================
