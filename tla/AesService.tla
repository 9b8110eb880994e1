----------------------------- MODULE AesService -----------------------------
(***************************************************************************)
(* What aes128_core promises to aes128_ctr_mask: one key, one block at a   *)
(* time, the encryption of that block LATENCY edges after it is accepted.  *)
(* The rounds and the key schedule do not appear here; AesCore implements  *)
(* this specification.                                                     *)
(*                                                                         *)
(* Enc[<<k, b>>] stands for the AES-128 encryption of block b under key k. *)
(***************************************************************************)
EXTENDS Naturals

CONSTANTS
  Key, Block,    \* keys and 128-bit blocks
  Value,         \* ciphertexts
  Enc,           \* the block cipher, a function on Key \X Block
  LATENCY,       \* clock edges from accepting a block to its result
  Clear          \* a register holding zero instead of key, block or result

VARIABLES
  state,         \* IDLE, KEY_READY or RUN
  left,          \* edges until the result, 0 unless running
  master_key,
  job,           \* the block being encrypted, Clear unless running
  key_valid, key_done, done,
  ciphertext

vars == <<state, left, master_key, job, key_valid, key_done, done, ciphertext>>

Init ==
  /\ state = "IDLE"
  /\ left = 0
  /\ master_key = Clear
  /\ job = Clear
  /\ key_valid = FALSE
  /\ key_done = FALSE
  /\ done = FALSE
  /\ ciphertext = Clear

busy        == state # "IDLE"
key_ready   == ~busy
block_ready == ~busy /\ key_valid

(* A key load wins over a block offered at the same edge. *)
LoadKey(k) ==
  /\ key_ready
  /\ state' = "KEY_READY"
  /\ master_key' = k
  /\ key_valid' = FALSE
  /\ ciphertext' = Clear
  /\ key_done' = FALSE
  /\ done' = FALSE
  /\ UNCHANGED <<left, job>>

FinishKey ==
  /\ state = "KEY_READY"
  /\ state' = "IDLE"
  /\ key_valid' = TRUE
  /\ key_done' = TRUE
  /\ done' = FALSE
  /\ UNCHANGED <<left, master_key, job, ciphertext>>

Start(b) ==
  /\ block_ready
  /\ state' = "RUN"
  /\ left' = LATENCY
  /\ job' = b
  /\ key_done' = FALSE
  /\ done' = FALSE
  /\ UNCHANGED <<master_key, key_valid, ciphertext>>

Work ==
  /\ state = "RUN"
  /\ left > 1
  /\ left' = left - 1
  /\ key_done' = FALSE
  /\ done' = FALSE
  /\ UNCHANGED <<state, master_key, job, key_valid, ciphertext>>

Finish ==
  /\ state = "RUN"
  /\ left = 1
  /\ state' = "IDLE"
  /\ left' = 0
  /\ job' = Clear
  /\ ciphertext' = Enc[<<master_key, job>>]
  /\ done' = TRUE
  /\ key_done' = FALSE
  /\ UNCHANGED <<master_key, key_valid>>

(* Idle with no request: the completion pulses last one cycle. *)
Rest ==
  /\ ~busy
  /\ key_done' = FALSE
  /\ done' = FALSE
  /\ UNCHANGED <<state, left, master_key, job, key_valid, ciphertext>>

(* An edge at which no request is accepted. *)
Tick == FinishKey \/ Work \/ Finish \/ Rest

Reset ==
  /\ state' = "IDLE"
  /\ left' = 0
  /\ master_key' = Clear
  /\ job' = Clear
  /\ key_valid' = FALSE
  /\ key_done' = FALSE
  /\ done' = FALSE
  /\ ciphertext' = Clear

Clock ==
  \/ \E k \in Key : LoadKey(k)
  \/ \E b \in Block : Start(b)
  \/ Tick

Next == Clock \/ Reset

Spec == Init /\ [][Next]_vars
-----------------------------------------------------------------------------
TypeOK ==
  /\ state \in {"IDLE", "KEY_READY", "RUN"}
  /\ left \in 0..LATENCY
  /\ master_key \in Key \cup {Clear}
  /\ job \in Block \cup {Clear}
  /\ key_valid \in BOOLEAN
  /\ key_done \in BOOLEAN
  /\ done \in BOOLEAN
  /\ ciphertext \in Value \cup {Clear}
=============================================================================
