--------------------------- MODULE AesCore_proofs ---------------------------
(***************************************************************************)
(* The iterative engine implements the encryption service, for every       *)
(* number of rounds from two, every set of keys and of blocks; the board's *)
(* has ten rounds.  The invariant says how far into the standard's order   *)
(* of operations the data register is in each round, and which round key   *)
(* has been expanded beside it.                                            *)
(***************************************************************************)
EXTENDS AesCore, Integers, SequenceTheorems, TLAPS

(* The first n operations of the cipher, applied to b. *)
Progress(k, b, n) == <<b>> \o [j \in 1..n |-> CipherStep(k, j)]

KeyInForce ==
  /\ state # "IDLE" \/ key_valid => master_key \in Key
  /\ state \in {"SUB_SHIFT", "MIX_ADD"} => key_valid

(* Round r begins with 3r - 2 operations done and round key r - 1 at hand. *)
RoundInv ==
  /\ state \in {"SUB_SHIFT", "MIX_ADD"} => round_index \in 1..ROUNDS
  /\ state = "SUB_SHIFT" =>
       /\ rcon = round_index
       /\ schedule_work = RoundKey(master_key, round_index - 1)
       /\ \E b \in Block : block_state = Progress(master_key, b, 3 * round_index - 2)
  /\ state = "MIX_ADD" =>
       /\ rcon = round_index + 1
       /\ schedule_work = RoundKey(master_key, round_index)
       /\ \E b \in Block : block_state = Progress(master_key, b, 3 * round_index - 1)

CoreInv ==
  /\ state \in {"IDLE", "KEY_READY", "SUB_SHIFT", "MIX_ADD"}
  /\ KeyInForce
  /\ RoundInv
-----------------------------------------------------------------------------
LEMMA Rounds == ROUNDS \in Nat /\ ROUNDS >= 2 /\ Clear \notin Key \cup Block
  BY CoreAssumption

(* The standard's operations, by their place in a round. *)
LEMMA StepsOfRound ==
  ASSUME NEW k, NEW r \in 1..ROUNDS
  PROVE  /\ CipherStep(k, 1) = AddRoundKey(RoundKey(k, 0))
         /\ CipherStep(k, 3 * r - 1) = SubBytesShiftRows
         /\ r # ROUNDS => CipherStep(k, 3 * r) = MixColumns
                          /\ CipherStep(k, 3 * r + 1) = AddRoundKey(RoundKey(k, r))
         /\ CipherStep(k, 3 * ROUNDS) = AddRoundKey(RoundKey(k, ROUNDS))
<1>1. /\ 3 * r - 1 # 1 /\ 3 * r - 1 # 3 * ROUNDS /\ 3 * r - 1 \in 2..3*ROUNDS-1
      /\ (3 * r - 1) % 3 = 2
  BY Rounds
<1>2. CipherStep(k, 3 * r - 1) = SubBytesShiftRows
  BY <1>1 DEF CipherStep
<1>3. ASSUME r # ROUNDS
      PROVE  /\ CipherStep(k, 3 * r) = MixColumns
             /\ CipherStep(k, 3 * r + 1) = AddRoundKey(RoundKey(k, r))
  <2>1. /\ 3 * r # 1 /\ 3 * r # 3 * ROUNDS /\ 3 * r \in 2..3*ROUNDS-1 /\ (3 * r) % 3 = 0
        /\ 3 * r + 1 # 1 /\ 3 * r + 1 # 3 * ROUNDS /\ 3 * r + 1 \in 2..3*ROUNDS-1
        /\ (3 * r + 1) % 3 = 1 /\ (3 * r + 1) \div 3 = r
    BY <1>3, Rounds
  <2>2. CipherStep(k, 3 * r) = MixColumns
    BY <2>1 DEF CipherStep
  <2>3. CipherStep(k, 3 * r + 1) = AddRoundKey(RoundKey(k, (3 * r + 1) \div 3))
    BY <2>1 DEF CipherStep
  <2> QED  BY <2>1, <2>2, <2>3
<1>4. CipherStep(k, 1) = AddRoundKey(RoundKey(k, 0))
  <2>1. 1 # 3 * ROUNDS /\ 1 \notin 2..3*ROUNDS-1
    BY Rounds
  <2> QED  BY <2>1 DEF CipherStep
<1>5. CipherStep(k, 3 * ROUNDS) = AddRoundKey(RoundKey(k, ROUNDS))
  <2>1. 3 * ROUNDS # 1 /\ 3 * ROUNDS \notin 2..3*ROUNDS-1
    BY Rounds
  <2> QED  BY <2>1 DEF CipherStep
<1> QED  BY <1>2, <1>3, <1>4, <1>5

(* One operation more, one round constant more. *)
LEMMA ProgressGrows ==
  ASSUME NEW k, NEW b, NEW n \in Nat
  PROVE  /\ Append(Progress(k, b, n), CipherStep(k, n + 1)) = Progress(k, b, n + 1)
         /\ Progress(k, b, n)[1] = b
BY DEF Progress

(* Whatever is done to the data, its block stays known. *)
LEMMA BlockStays ==
  ASSUME NEW k, NEW b, NEW n \in Nat, NEW x, NEW y
  PROVE  /\ Progress(k, b, n)[1] = b
         /\ Append(Progress(k, b, n), x)[1] = b
         /\ Append(Append(Progress(k, b, n), x), y)[1] = b
BY DEF Progress

LEMMA RoundKeyGrows ==
  ASSUME NEW k, NEW i \in Nat
  PROVE  Append(RoundKey(k, i), i + 1) = RoundKey(k, i + 1)
BY DEF RoundKey

LEMMA FirstRoundKey == ASSUME NEW k PROVE RoundKey(k, 0) = <<k>>
BY DEF RoundKey

LEMMA FirstStep ==
  ASSUME NEW k, NEW b
  PROVE  Progress(k, b, 1) = <<b, AddRoundKey(<<k>>)>> /\ Progress(k, b, 3 * ROUNDS) = Cipher(k, b)
<1>1. CipherStep(k, 1) = AddRoundKey(<<k>>)
  <2>1. 1 \in 1..ROUNDS
    BY Rounds
  <2> QED  BY <2>1, StepsOfRound, FirstRoundKey
<1>2. <<b>> \o [j \in 1..1 |-> CipherStep(k, j)] = <<b, CipherStep(k, 1)>>
  <2>1. [j \in 1..1 |-> CipherStep(k, j)] = <<CipherStep(k, 1)>>
    OBVIOUS
  <2>2. <<b>> \o <<CipherStep(k, 1)>> = <<b, CipherStep(k, 1)>>
    <3> DEFINE c == CipherStep(k, 1)
               S == {b, c}
    <3>1. <<b>> \in Seq(S) /\ <<c>> \in Seq(S) /\ <<b, c>> \in Seq(S)
      OBVIOUS
    <3> HIDE DEF c
    <3>2. <<b>> \o <<c>> \in Seq(S) /\ Len(<<b>> \o <<c>>) = 2
          /\ (<<b>> \o <<c>>)[1] = b /\ (<<b>> \o <<c>>)[2] = c
      BY <3>1
    <3>3. Len(<<b, c>>) = 2 /\ <<b, c>>[1] = b /\ <<b, c>>[2] = c /\ \A i \in 1..2 : i = 1 \/ i = 2
      OBVIOUS
    <3>4. \A i \in 1..2 : (<<b>> \o <<c>>)[i] = <<b, c>>[i]
      BY <3>2, <3>3
    <3>5. <<b>> \o <<c>> = <<b, c>>
      BY <3>1, <3>2, <3>3, <3>4, SeqEqual
    <3> QED  BY <3>5 DEF c
  <2> QED  BY <2>1, <2>2
<1>3. Progress(k, b, 1) = <<b, AddRoundKey(<<k>>)>>
  BY <1>1, <1>2 DEF Progress
<1>4. Progress(k, b, 3 * ROUNDS) = Cipher(k, b)
  BY DEF Progress, Cipher
<1> QED  BY <1>3, <1>4
-----------------------------------------------------------------------------
LEMMA InitCore == Init => CoreInv
BY DEF Init, CoreInv, KeyInForce, RoundInv

LEMMA StartCore == ASSUME CoreInv, NEW b \in Block, Start(b) PROVE CoreInv'
<1>1. /\ state = "IDLE" /\ state' = "SUB_SHIFT" /\ key_valid /\ key_valid' /\ master_key' = master_key
      /\ round_index' = 1 /\ rcon' = 1 /\ schedule_work' = <<master_key>> /\ master_key \in Key
      /\ block_state' = <<b, AddRoundKey(<<master_key>>)>>
  BY DEF Start, block_ready, busy, CoreInv, KeyInForce
<1>2. round_index' \in 1..ROUNDS /\ 3 * round_index' - 2 = 1 /\ round_index' - 1 = 0
  BY <1>1, Rounds
<1>3. block_state' = Progress(master_key, b, 1) /\ schedule_work' = RoundKey(master_key, 0)
  BY <1>1, FirstStep, FirstRoundKey
<1> QED  BY <1>1, <1>2, <1>3 DEF CoreInv, KeyInForce, RoundInv

LEMMA SubShiftCore == CoreInv /\ SubShift => CoreInv'
<1> SUFFICES ASSUME CoreInv, SubShift PROVE CoreInv'
  OBVIOUS
<1>1. /\ state = "SUB_SHIFT" /\ state' = "MIX_ADD" /\ UNCHANGED <<round_index, master_key, key_valid>>
      /\ block_state' = Append(block_state, SubBytesShiftRows)
      /\ schedule_work' = Append(schedule_work, rcon) /\ rcon' = rcon + 1
  BY DEF SubShift, sub_shift_result, expanded_key
<1>2. /\ round_index \in 1..ROUNDS /\ rcon = round_index
      /\ schedule_work = RoundKey(master_key, round_index - 1)
  BY <1>1 DEF CoreInv, RoundInv
<1>3. PICK b \in Block : block_state = Progress(master_key, b, 3 * round_index - 2)
  BY <1>1 DEF CoreInv, RoundInv
<1> DEFINE m == 3 * round_index - 2
           i == round_index - 1
<1>4. m \in Nat /\ m + 1 = 3 * round_index - 1 /\ i \in Nat /\ i + 1 = round_index
  BY <1>2, Rounds
<1>5. CipherStep(master_key, m + 1) = SubBytesShiftRows
  BY <1>2, <1>4, StepsOfRound
<1> HIDE DEF m, i
<1>6. Append(Progress(master_key, b, m), SubBytesShiftRows) = Progress(master_key, b, m + 1)
  BY <1>4, <1>5, ProgressGrows
<1>7. Append(RoundKey(master_key, i), i + 1) = RoundKey(master_key, i + 1)
  BY <1>4, RoundKeyGrows
<1>8. block_state' = Progress(master_key, b, 3 * round_index - 1)
  BY <1>1, <1>3, <1>4, <1>6 DEF m
<1>9. schedule_work' = RoundKey(master_key, round_index)
  BY <1>1, <1>2, <1>4, <1>7 DEF i
<1> QED  BY <1>1, <1>2, <1>8, <1>9 DEF CoreInv, KeyInForce, RoundInv

LEMMA MixAddCore == CoreInv /\ MixAdd => CoreInv'
<1> SUFFICES ASSUME CoreInv, MixAdd PROVE CoreInv'
  OBVIOUS
<1>1. /\ state = "MIX_ADD" /\ state' = "SUB_SHIFT" /\ round_index # ROUNDS
      /\ UNCHANGED <<master_key, key_valid, schedule_work, rcon>> /\ round_index' = round_index + 1
      /\ block_state' = Append(Append(block_state, MixColumns), AddRoundKey(schedule_work))
  BY DEF MixAdd, mix_result
<1>2. /\ round_index \in 1..ROUNDS /\ rcon = round_index + 1
      /\ schedule_work = RoundKey(master_key, round_index)
  BY <1>1 DEF CoreInv, RoundInv
<1>3. PICK b \in Block : block_state = Progress(master_key, b, 3 * round_index - 1)
  BY <1>1 DEF CoreInv, RoundInv
<1> DEFINE m == 3 * round_index - 1
<1>4. /\ m \in Nat /\ m + 1 = 3 * round_index /\ m + 2 = 3 * round_index + 1
      /\ m + 2 = (m + 1) + 1 /\ m + 1 \in Nat
      /\ round_index' \in 1..ROUNDS /\ round_index' - 1 = round_index /\ m + 2 = 3 * round_index' - 2
  BY <1>1, <1>2, Rounds
<1>5. /\ CipherStep(master_key, m + 1) = MixColumns
      /\ CipherStep(master_key, m + 2) = AddRoundKey(schedule_work)
  BY <1>1, <1>2, <1>4, StepsOfRound
<1> HIDE DEF m
<1>6. Append(Progress(master_key, b, m), MixColumns) = Progress(master_key, b, m + 1)
  BY <1>4, <1>5, ProgressGrows
<1>7. Append(Progress(master_key, b, m + 1), AddRoundKey(schedule_work)) = Progress(master_key, b, m + 2)
  <2> DEFINE p == m + 1
  <2>1. p \in Nat /\ m + 2 = p + 1
    BY <1>4
  <2> HIDE DEF p
  <2>2. Append(Progress(master_key, b, p), AddRoundKey(schedule_work)) = Progress(master_key, b, m + 2)
    BY <1>5, <2>1, ProgressGrows
  <2> QED  BY <2>2 DEF p
<1>8. block_state' = Progress(master_key', b, 3 * round_index' - 2)
  BY <1>1, <1>3, <1>4, <1>6, <1>7 DEF m
<1>9. schedule_work' = RoundKey(master_key', round_index' - 1) /\ rcon' = round_index'
  BY <1>1, <1>2, <1>4
<1> QED  BY <1>1, <1>4, <1>8, <1>9 DEF CoreInv, KeyInForce, RoundInv

LEMMA NextCore == CoreInv /\ [Next]_vars => CoreInv'
<1> SUFFICES ASSUME CoreInv, [Next]_vars PROVE CoreInv'
  OBVIOUS
<1>1. ASSUME NEW k \in Key, LoadKey(k) PROVE CoreInv'
  BY <1>1 DEF LoadKey, CoreInv, KeyInForce, RoundInv
<1>2. CASE Rest \/ FinishKey \/ LastAdd \/ Reset
  BY <1>2 DEF Rest, busy, FinishKey, LastAdd, Reset, CoreInv, KeyInForce, RoundInv
<1>3. CASE UNCHANGED vars
  BY <1>3 DEF vars, CoreInv, KeyInForce, RoundInv
<1> QED  BY <1>1, <1>2, <1>3, StartCore, SubShiftCore, MixAddCore DEF Next, Clock
-----------------------------------------------------------------------------
(* The refinement. *)
LEMMA ServiceInit == Init => Service!Init
BY DEF Init, Service!Init

LEMMA ServiceStep == CoreInv /\ [Next]_vars => [Service!Next]_(Service!vars)
<1> SUFFICES ASSUME CoreInv, [Next]_vars PROVE [Service!Next]_(Service!vars)
  OBVIOUS
<1> USE DEF Service!Next, Service!Clock, Service!Tick
<1>1. ASSUME NEW k \in Key, LoadKey(k) PROVE Service!Next
  <2>1. Service!LoadKey(k)
    BY <1>1 DEF LoadKey, NoPulse, key_ready, busy, Service!LoadKey, Service!key_ready, Service!busy
  <2> QED  BY <2>1
<1>2. ASSUME NEW b \in Block, Start(b) PROVE Service!Next
  <2>1. /\ state = "IDLE" /\ key_valid /\ state' = "SUB_SHIFT" /\ round_index' = 1
        /\ block_state'[1] = b
    BY <1>2 DEF Start, block_ready, busy
  <2>2. 2 * (ROUNDS - round_index') + 2 = 2 * ROUNDS
    BY <2>1, Rounds
  <2>3. Service!Start(b)
    BY <1>2, <2>1, <2>2 DEF Start, NoPulse, Service!Start, Service!block_ready, Service!busy
  <2> QED  BY <2>3
<1>3. CASE Rest
  <2>1. Service!Rest
    BY <1>3 DEF Rest, busy, NoPulse, Service!Rest, Service!busy, CoreInv
  <2> QED  BY <2>1
<1>4. CASE FinishKey
  <2>1. Service!FinishKey
    BY <1>4 DEF FinishKey, Service!FinishKey
  <2> QED  BY <2>1
<1>5. CASE SubShift
  <2>1. /\ state = "SUB_SHIFT" /\ state' = "MIX_ADD" /\ round_index' = round_index
        /\ block_state' = Append(block_state, SubBytesShiftRows)
    BY <1>5 DEF SubShift, sub_shift_result
  <2>2. block_state[1] = block_state'[1]
    <3> DEFINE n == 3 * round_index - 2
    <3>1. PICK b \in Block : block_state = Progress(master_key, b, n)
      BY <2>1 DEF CoreInv, RoundInv
    <3>2. n \in Nat
      BY <2>1, Rounds DEF CoreInv, RoundInv
    <3> HIDE DEF n
    <3>3. block_state[1] = b
      BY <3>1, <3>2, BlockStays
    <3>4. block_state'[1] = b
      BY <2>1, <3>1, <3>2, BlockStays
    <3> QED  BY <3>3, <3>4
  <2>3. /\ 2 * (ROUNDS - round_index) + 2 > 1
        /\ 2 * (ROUNDS - round_index') + 1 = (2 * (ROUNDS - round_index) + 2) - 1
    BY <2>1, Rounds DEF CoreInv, RoundInv
  <2>4. Service!Work
    BY <1>5, <2>1, <2>2, <2>3 DEF SubShift, NoPulse, Service!Work
  <2> QED  BY <2>4
<1>6. CASE MixAdd
  <2>1. /\ state = "MIX_ADD" /\ state' = "SUB_SHIFT" /\ round_index # ROUNDS
        /\ round_index' = round_index + 1
        /\ block_state' = Append(Append(block_state, MixColumns), AddRoundKey(schedule_work))
    BY <1>6 DEF MixAdd, mix_result
  <2>2. block_state[1] = block_state'[1]
    <3> DEFINE n == 3 * round_index - 1
    <3>1. PICK b \in Block : block_state = Progress(master_key, b, n)
      BY <2>1 DEF CoreInv, RoundInv
    <3>2. n \in Nat
      BY <2>1, Rounds DEF CoreInv, RoundInv
    <3> HIDE DEF n
    <3>3. block_state[1] = b
      BY <3>1, <3>2, BlockStays
    <3>4. block_state'[1] = b
      BY <2>1, <3>1, <3>2, BlockStays
    <3> QED  BY <3>3, <3>4
  <2>3. /\ 2 * (ROUNDS - round_index) + 1 > 1
        /\ 2 * (ROUNDS - round_index') + 2 = (2 * (ROUNDS - round_index) + 1) - 1
    <3>1. round_index \in 1..ROUNDS
      BY <2>1 DEF CoreInv, RoundInv
    <3> QED  BY <2>1, <3>1, Rounds
  <2>4. Service!Work
    BY <1>6, <2>1, <2>2, <2>3 DEF MixAdd, NoPulse, Service!Work
  <2> QED  BY <2>4
<1>7. CASE LastAdd
  <2>1. /\ state = "MIX_ADD" /\ state' = "IDLE" /\ round_index = ROUNDS
        /\ ciphertext' = Append(block_state, AddRoundKey(schedule_work))
    BY <1>7 DEF LastAdd
  <2>2. PICK b \in Block : block_state = Progress(master_key, b, 3 * round_index - 1)
    BY <2>1 DEF CoreInv, RoundInv
  <2>3. master_key \in Key /\ schedule_work = RoundKey(master_key, ROUNDS) /\ ROUNDS \in 1..ROUNDS
    BY <2>1, Rounds DEF CoreInv, KeyInForce, RoundInv
  <2> DEFINE m == 3 * ROUNDS - 1
  <2>4. m \in Nat /\ m + 1 = 3 * ROUNDS /\ 2 * (ROUNDS - round_index) + 1 = 1
    BY <2>1, Rounds
  <2>5. CipherStep(master_key, m + 1) = AddRoundKey(schedule_work)
    BY <2>3, <2>4, StepsOfRound
  <2>6. block_state = Progress(master_key, b, m)
    BY <2>1, <2>2
  <2> HIDE DEF m
  <2>7. block_state[1] = b /\ ciphertext' = Progress(master_key, b, m + 1)
    <3>1. block_state[1] = b
      BY <2>4, <2>6, BlockStays
    <3>2. Append(Progress(master_key, b, m), AddRoundKey(schedule_work)) = Progress(master_key, b, m + 1)
      BY <2>4, <2>5, ProgressGrows
    <3> QED  BY <2>1, <2>6, <3>1, <3>2
  <2>8. ciphertext' = Cipher(master_key, block_state[1])
    BY <2>4, <2>7, FirstStep
  <2>9. [p \in Key \X Block |-> Cipher(p[1], p[2])][<<master_key, block_state[1]>>]
          = Cipher(master_key, block_state[1])
    BY <2>3, <2>7
  <2>10. Service!Finish
    BY <1>7, <2>1, <2>4, <2>8, <2>9 DEF LastAdd, Service!Finish
  <2> QED  BY <2>10
<1>8. CASE Reset
  <2>1. Service!Reset
    BY <1>8 DEF Reset, NoPulse, Service!Reset
  <2> QED  BY <2>1
<1>9. CASE UNCHANGED vars
  BY <1>9 DEF vars, Service!vars
<1> QED
  BY <1>1, <1>2, <1>3, <1>4, <1>5, <1>6, <1>7, <1>8, <1>9 DEF Next, Clock

THEOREM CoreInvariant == Spec => []CoreInv
<1> QED  BY InitCore, NextCore, PTL DEF Spec

(* Key schedule, round order and latency: for every number of rounds the   *)
(* engine is the atomic encryption its user counts on.                     *)
THEOREM CoreImplementsService == Spec => ImplementsService
<1> QED  BY CoreInvariant, ServiceInit, ServiceStep, PTL DEF Spec, ImplementsService, Service!Spec
=============================================================================
