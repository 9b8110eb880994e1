------------------------------ MODULE Keystream ------------------------------
(***************************************************************************)
(* What aes128_ctr_stream promises: once a context is open, the keystream  *)
(* bytes of counter mode, each offered once and in order, from byte 0 of   *)
(* the initial counter block to the last byte of the COUNTER_MAX block,    *)
(* and nothing after it.  How many masks are prepared ahead, and how long  *)
(* they take, is not visible here.                                         *)
(***************************************************************************)
EXTENDS Naturals

CONSTANTS
  Key, Nonce,
  Enc,           \* the block cipher, a function on Key \X (Nonce \X Counter)
  COUNTER_MAX,
  BLOCK_BYTES,   \* 16
  Clear          \* no context, no byte

Counter == 0 .. COUNTER_MAX

VARIABLES
  open,          \* a context is in force
  key, nonce,
  counter, index,\* position of the next keystream byte not yet used
  offered        \* that byte, once it is ready, else Clear

vars == <<open, key, nonce, counter, index, offered>>

(* Byte i of the mask of counter block c. *)
PadByte(k, n, c, i) == <<Enc[<<k, <<n, c>>>>], i>>

Init ==
  /\ open = FALSE
  /\ key = Clear
  /\ nonce = Clear
  /\ counter = 0
  /\ index = 0
  /\ offered = Clear

Open(k, n, c) ==
  /\ ~open
  /\ open' = TRUE
  /\ key' = k
  /\ nonce' = n
  /\ counter' = c
  /\ index' = 0
  /\ offered' = Clear

Close ==
  /\ open' = FALSE
  /\ key' = Clear
  /\ nonce' = Clear
  /\ counter' = 0
  /\ index' = 0
  /\ offered' = Clear

(* The byte at the current position becomes available. *)
Offer ==
  /\ open
  /\ counter <= COUNTER_MAX
  /\ offered = Clear
  /\ offered' = PadByte(key, nonce, counter, index)
  /\ UNCHANGED <<open, key, nonce, counter, index>>

(* The consumer takes it; the following byte may be ready already. *)
Use ==
  /\ open
  /\ offered # Clear
  /\ \/ /\ index < BLOCK_BYTES - 1
        /\ index' = index + 1
        /\ UNCHANGED counter
     \/ /\ index = BLOCK_BYTES - 1
        /\ index' = 0
        /\ counter' = counter + 1
  /\ \/ offered' = Clear
     \/ /\ counter' <= COUNTER_MAX
        /\ offered' = PadByte(key, nonce, counter', index')
  /\ UNCHANGED <<open, key, nonce>>

Next ==
  \/ \E k \in Key, n \in Nonce, c \in Counter : Open(k, n, c)
  \/ Close
  \/ Offer
  \/ Use

Spec == Init /\ [][Next]_vars
=============================================================================
