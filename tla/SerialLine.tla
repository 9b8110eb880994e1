------------------------------ MODULE SerialLine ------------------------------
(***************************************************************************)
(* What the serial tools talk to, as far as they can tell: a board that    *)
(* answers each byte it receives with one byte, in order, and the queues   *)
(* of the operating system, in which bytes wait until they are read.  The  *)
(* board may lose a byte, the line may add one.                            *)
(*                                                                         *)
(* A byte of the board is <<value, k>>: the byte it answers and the        *)
(* position of the keystream byte it was combined with; the baseline build *)
(* counts too, but no one looks.  Noise answers nothing, and noise of two  *)
(* ports is never the same; a stale byte was in the queue of a port before *)
(* it was flushed.                                                         *)
(***************************************************************************)
EXTENDS Naturals, Sequences

CONSTANTS
  Reference,     \* the bytes that are to be sent, in order
  MAX_NOISE,     \* how many bytes are added or lost, at most
  None

Port  == {"reference", "received"}
Noise(q) == <<q, 0>>
Stale    == <<None, 0>>

(* Noise and stale bytes can be told from what is sent. *)
ASSUME ReferenceAssumption ==
  LET values == {Reference[i] : i \in DOMAIN Reference} IN
  /\ Reference \in Seq(values)
  /\ values \cap (Port \cup {None}) = {} /\ None \notin Port

VARIABLES
  inbox,         \* bytes on their way to the board
  answered,      \* how many the board has answered since it was programmed
  line,          \* what has arrived at each port since it was last flushed
  faults

lineVars == <<inbox, answered, line, faults>>

LineInit ==
  /\ inbox = <<>>
  /\ answered = 0
  /\ line \in [Port -> {<<>>, <<Stale>>}]
  /\ faults = 0

Answer ==
  /\ inbox # <<>>
  /\ inbox' = Tail(inbox)
  /\ answered' = answered + 1
  /\ line' = [line EXCEPT !["received"] = Append(@, <<Head(inbox), answered'>>)]
  /\ UNCHANGED faults

Disturb ==
  /\ faults < MAX_NOISE
  /\ faults' = faults + 1
  /\ \/ inbox # <<>> /\ inbox' = Tail(inbox) /\ UNCHANGED line
     \/ \E q \in Port : line' = [line EXCEPT ![q] = Append(@, Noise(q))] /\ UNCHANGED inbox
  /\ UNCHANGED answered

LineNext == Answer \/ Disturb
=============================================================================
