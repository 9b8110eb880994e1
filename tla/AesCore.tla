------------------------------- MODULE AesCore -------------------------------
(***************************************************************************)
(* rtl/aes/aes128_core.sv: the iterative AES-128 engine, two edges per     *)
(* round, with the round keys expanded on the fly beside the data path.    *)
(*                                                                         *)
(* The data are symbolic.  A data block is the sequence of operations that *)
(* produced it, starting with the plaintext block; a round key is the      *)
(* sequence of round constants that produced it, starting with the key.    *)
(* Whether the engine computes AES is then a question about the order of   *)
(* its steps, which is what can go wrong in the control: a round too many, *)
(* a MixColumns in the last round, a round key from the wrong round.       *)
(***************************************************************************)
EXTENDS Naturals, Sequences

CONSTANTS Key, Block, ROUNDS, Clear

ASSUME CoreAssumption ==
  /\ ROUNDS \in Nat
  /\ ROUNDS >= 2
  /\ Clear \notin Key \cup Block

VARIABLES
  state, round_index,
  master_key, schedule_work, block_state, rcon,
  key_valid, key_done, done, ciphertext

vars == <<state, round_index, master_key, schedule_work, block_state, rcon,
          key_valid, key_done, done, ciphertext>>

SubBytesShiftRows == "SubBytes; ShiftRows"
MixColumns        == "MixColumns"
AddRoundKey(rk)   == <<"AddRoundKey", rk>>

(* Round key i of key k: the expansion applied with round constants 1..i. *)
RoundKey(k, i) == <<k>> \o [j \in 1..i |-> j]

(* FIPS-197, the standard's order of the operations: an initial key       *)
(* addition, ROUNDS rounds of three operations, the last of two.          *)
CipherStep(k, j) ==
  CASE j = 1                            -> AddRoundKey(RoundKey(k, 0))
    [] j = 3 * ROUNDS                   -> AddRoundKey(RoundKey(k, ROUNDS))
    [] j \in 2..3*ROUNDS-1 /\ j % 3 = 2 -> SubBytesShiftRows
    [] j \in 2..3*ROUNDS-1 /\ j % 3 = 0 -> MixColumns
    [] j \in 2..3*ROUNDS-1 /\ j % 3 = 1 -> AddRoundKey(RoundKey(k, j \div 3))

Cipher(k, b) == <<b>> \o [j \in 1..3*ROUNDS |-> CipherStep(k, j)]

(* aes128_next_key, aes_sub_shift and aes_mix_columns. *)
expanded_key     == Append(schedule_work, rcon)
sub_shift_result == Append(block_state, SubBytesShiftRows)
mix_result       == Append(block_state, MixColumns)

Init ==
  /\ state = "IDLE"
  /\ round_index = 0
  /\ master_key = Clear
  /\ schedule_work = Clear
  /\ block_state = Clear
  /\ rcon = 0
  /\ key_valid = FALSE
  /\ key_done = FALSE
  /\ done = FALSE
  /\ ciphertext = Clear

busy        == state # "IDLE"
key_ready   == ~busy
block_ready == ~busy /\ key_valid

(* Completion pulses are cleared at every edge that does not set them. *)
NoPulse == key_done' = FALSE /\ done' = FALSE

(* IDLE: a key load wins over a block offered at the same edge. *)
LoadKey(k) ==
  /\ key_ready
  /\ state' = "KEY_READY"
  /\ master_key' = k
  /\ schedule_work' = Clear
  /\ round_index' = 0
  /\ rcon' = 0
  /\ key_valid' = FALSE
  /\ ciphertext' = Clear
  /\ block_state' = Clear
  /\ NoPulse

Start(b) ==
  /\ block_ready
  /\ state' = "SUB_SHIFT"
  /\ block_state' = <<b, AddRoundKey(<<master_key>>)>>
  /\ schedule_work' = <<master_key>>
  /\ round_index' = 1
  /\ rcon' = 1
  /\ NoPulse
  /\ UNCHANGED <<master_key, key_valid, ciphertext>>

Rest ==
  /\ ~busy
  /\ NoPulse
  /\ UNCHANGED <<state, round_index, master_key, schedule_work, block_state,
                 rcon, key_valid, ciphertext>>

FinishKey ==
  /\ state = "KEY_READY"
  /\ state' = "IDLE"
  /\ key_valid' = TRUE
  /\ key_done' = TRUE
  /\ done' = FALSE
  /\ UNCHANGED <<round_index, master_key, schedule_work, block_state, rcon, ciphertext>>

(* The data substitution and the expansion of the next round key happen at *)
(* the same edge; rcon doubles in GF(2^8), that is, moves to the next      *)
(* round constant.                                                         *)
SubShift ==
  /\ state = "SUB_SHIFT"
  /\ state' = "MIX_ADD"
  /\ block_state' = sub_shift_result
  /\ schedule_work' = expanded_key
  /\ rcon' = rcon + 1
  /\ NoPulse
  /\ UNCHANGED <<round_index, master_key, key_valid, ciphertext>>

MixAdd ==
  /\ state = "MIX_ADD"
  /\ round_index # ROUNDS
  /\ state' = "SUB_SHIFT"
  /\ block_state' = Append(mix_result, AddRoundKey(schedule_work))
  /\ round_index' = round_index + 1
  /\ NoPulse
  /\ UNCHANGED <<master_key, schedule_work, rcon, key_valid, ciphertext>>

(* Mutant: MixColumns in the last round too. *)
LastAddMixes ==
  /\ state = "MIX_ADD"
  /\ round_index = ROUNDS
  /\ state' = "IDLE"
  /\ ciphertext' = Append(mix_result, AddRoundKey(schedule_work))
  /\ block_state' = Clear
  /\ schedule_work' = Clear
  /\ done' = TRUE
  /\ key_done' = FALSE
  /\ UNCHANGED <<round_index, master_key, rcon, key_valid>>

(* The last round omits MixColumns and clears the working registers. *)
LastAdd ==
  /\ state = "MIX_ADD"
  /\ round_index = ROUNDS
  /\ state' = "IDLE"
  /\ ciphertext' = Append(block_state, AddRoundKey(schedule_work))
  /\ block_state' = Clear
  /\ schedule_work' = Clear
  /\ done' = TRUE
  /\ key_done' = FALSE
  /\ UNCHANGED <<round_index, master_key, rcon, key_valid>>

Reset ==
  /\ state' = "IDLE"
  /\ round_index' = 0
  /\ master_key' = Clear
  /\ schedule_work' = Clear
  /\ block_state' = Clear
  /\ rcon' = 0
  /\ key_valid' = FALSE
  /\ ciphertext' = Clear
  /\ NoPulse

Clock ==
  \/ \E k \in Key : LoadKey(k)
  \/ \E b \in Block : Start(b)
  \/ Rest
  \/ FinishKey
  \/ SubShift
  \/ MixAdd
  \/ LastAdd

Next == Clock \/ Reset

Spec == Init /\ [][Next]_vars
-----------------------------------------------------------------------------
(* Control registers in range, symbolic data cleared or well formed. *)
TypeOK ==
  /\ state \in {"IDLE", "KEY_READY", "SUB_SHIFT", "MIX_ADD"}
  /\ round_index \in 0..ROUNDS
  /\ rcon \in 0..ROUNDS + 1
  /\ master_key \in Key \cup {Clear}
  /\ (schedule_work = Clear) = (state \in {"IDLE", "KEY_READY"})
  /\ (block_state = Clear) = (state \in {"IDLE", "KEY_READY"})
  /\ key_valid \in BOOLEAN
  /\ key_done \in BOOLEAN
  /\ done \in BOOLEAN

(* The engine is the atomic encryption service its user sees: the key in  *)
(* force and the accepted block determine the result, which appears       *)
(* exactly 2 * ROUNDS edges after the block is accepted, with one pulse.  *)
Service == INSTANCE AesService WITH
  Value      <- {Cipher(k, b) : k \in Key, b \in Block},
  Enc        <- [p \in Key \X Block |-> Cipher(p[1], p[2])],
  LATENCY    <- 2 * ROUNDS,
  state      <- IF state \in {"SUB_SHIFT", "MIX_ADD"} THEN "RUN" ELSE state,
  left       <- CASE state = "SUB_SHIFT" -> 2 * (ROUNDS - round_index) + 2
                  [] state = "MIX_ADD"   -> 2 * (ROUNDS - round_index) + 1
                  [] OTHER               -> 0,
  job        <- IF state \in {"SUB_SHIFT", "MIX_ADD"} THEN block_state[1] ELSE Clear

ImplementsService == Service!Spec
=============================================================================
