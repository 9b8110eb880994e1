----------------------------- MODULE CtrChannel -----------------------------
(***************************************************************************)
(* What uart_ctr_bridge promises end to end.  While a session is open,     *)
(* every byte the receiver shows is owed to the far side from the next     *)
(* edge on, and is sent once, in the order of arrival, byte n of the       *)
(* session combined with byte n of the session's keystream, in a frame     *)
(* that holds the line for exactly FRAME edges.  A session may close at    *)
(* any edge, and nothing of it survives: the bytes still owed are          *)
(* discarded together with the frame on the line.                          *)
(***************************************************************************)
EXTENDS Naturals, Sequences

CONSTANTS
  Byte, Key, Nonce, Enc, COUNTER_MAX, BLOCK_BYTES, Clear,
  CAPACITY,      \* most bytes owed at a time
  FRAME          \* edges a frame holds the line

Counter == 0 .. COUNTER_MAX

VARIABLES
  SECURE,        \* FALSE: the baseline build, which sends bytes as they are
  open,          \* a session is open
  key, nonce, counter, index,  \* its context, and its keystream position
  incoming,      \* what the receiver shows in this cycle: a byte, or nothing
  owed,          \* received and not yet sent, oldest first
  line,          \* the frame being sent, Clear between frames
  remaining      \* edges to the end of that frame

vars == <<SECURE, open, key, nonce, counter, index, incoming, owed, line, remaining>>

position == <<counter, index>>

Init ==
  /\ SECURE \in BOOLEAN
  /\ open = FALSE
  /\ key = Clear
  /\ nonce = Clear
  /\ counter = 0
  /\ index = 0
  /\ incoming = <<>>
  /\ owed = <<>>
  /\ line = Clear
  /\ remaining = 0

Open(k, n, c) ==
  /\ ~open
  /\ open' = TRUE
  /\ \/ SECURE /\ key' = k /\ nonce' = n /\ counter' = c
     \/ ~SECURE /\ UNCHANGED <<key, nonce, counter>>
  /\ UNCHANGED <<index, incoming, owed, line, remaining>>

Close ==
  /\ open' = FALSE
  /\ key' = Clear
  /\ nonce' = Clear
  /\ counter' = 0
  /\ index' = 0
  /\ incoming' = <<>>
  /\ owed' = <<>>
  /\ line' = Clear
  /\ remaining' = 0

(* The pad byte at the present position, and the move to the next. *)
Pad == IF SECURE THEN <<Enc[<<key, <<nonce, counter>>>>], index>> ELSE Clear

Advance ==
  \/ ~SECURE /\ UNCHANGED <<counter, index>>
  \/ SECURE /\ index < BLOCK_BYTES - 1 /\ index' = index + 1 /\ UNCHANGED counter
  \/ SECURE /\ index = BLOCK_BYTES - 1 /\ index' = 0 /\ counter' = counter + 1

(* At most one byte arrives in a cycle; it is taken at the edge that ends  *)
(* the cycle, and none is left behind.                                     *)
Arrival == {<<>>} \cup {<<b>> : b \in Byte}

Take(rest) ==
  /\ owed' = rest \o incoming
  /\ Len(owed') <= CAPACITY
  /\ incoming' \in Arrival

(* The oldest byte owed goes out, if the line is free and there is a pad. *)
Send ==
  /\ open
  /\ line = Clear
  /\ owed # <<>>
  /\ SECURE => counter <= COUNTER_MAX
  /\ line' = <<Head(owed), Pad>>
  /\ remaining' = FRAME
  /\ Advance
  /\ Take(Tail(owed))
  /\ UNCHANGED <<open, key, nonce>>

(* Nothing is started: a frame on the line goes on, until its last edge. *)
Wait ==
  /\ open
  /\ \/ remaining = 0 /\ UNCHANGED <<line, remaining>>
     \/ remaining = 1 /\ line' = Clear /\ remaining' = 0
     \/ remaining > 1 /\ remaining' = remaining - 1 /\ UNCHANGED line
  /\ Take(owed)
  /\ UNCHANGED <<open, key, nonce, counter, index>>

Next ==
  /\ \/ \E k \in Key, n \in Nonce, c \in Counter : Open(k, n, c)
     \/ Close
     \/ Send
     \/ Wait
  /\ UNCHANGED SECURE

Spec == Init /\ [][Next]_vars
=============================================================================
