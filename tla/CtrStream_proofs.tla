-------------------------- MODULE CtrStream_proofs --------------------------
(***************************************************************************)
(* The safety of mask generator and byte stream for every set of keys and  *)
(* nonces, every counter width, mask length and engine latency, and every  *)
(* cipher; on the board COUNTER_MAX is 2^32 - 1 and LATENCY is 20.  First  *)
(* the generator: the held mask is the next, the counter moves in order.   *)
(* Then the stream: bytes in place, the end at the end, and the            *)
(* implementation of the keystream.  Last the two waits, counted in edges: *)
(* for a keystream byte, and for the engine after the end of a context.    *)
(***************************************************************************)
EXTENDS CtrStream, Integers, TLAPS

(* What the engine holds while it has work: a key that was loaded and a    *)
(* block that was offered, so its result is a mask.                        *)
EngineLoaded ==
  /\ active => master_key \in Key /\ nonce \in Nonce
  /\ key_valid => master_key \in Key
  /\ state = "KEY_READY" => master_key \in Key
  /\ state = "RUN" => master_key \in Key /\ job \in Block /\ left > 0

(* The flags of a context against its counter. *)
FlagsAgree ==
  /\ ~active => ~inflight /\ ~result_valid /\ ~last_issued
  /\ last_issued => next_counter = COUNTER_MAX
  /\ inflight \/ result_valid => Unissued > 0
  /\ inflight => pending_last = (NextMask = COUNTER_MAX)

IInv ==
  /\ TypeOK
  /\ EngineLoaded
  /\ FlagsAgree
  /\ HeldMaskIsNext
  /\ ExpectedResultIsOurs

LEMMA MaskFacts ==
  /\ COUNTER_MAX \in Nat
  /\ LATENCY \in Nat /\ LATENCY > 0
  /\ \A k \in Key, b \in Block : Enc[<<k, b>>] \in Value
  /\ \A n \in Nonce, c \in Counter : <<n, c>> \in Block
  /\ \A c : c \in Counter <=> c \in Nat /\ c <= COUNTER_MAX
<1>1. \A k \in Key, b \in Block : Enc[<<k, b>>] \in Value
  BY MaskAssumption
<1> QED  BY <1>1, MaskAssumption DEF Block, Counter

LEMMA InitIInv == Init => IInv
<1> SUFFICES ASSUME Init PROVE IInv
  OBVIOUS
<1> USE MaskFacts DEF Init, Aes!Init
<1>1. Aes!TypeOK
  <2>1. left \in 0..LATENCY  OBVIOUS
  <2> QED  BY <2>1 DEF Aes!TypeOK
<1>2. TypeOK
  <2>1. next_counter \in Counter  OBVIOUS
  <2> QED  BY <1>1, <2>1 DEF TypeOK
<1>3. EngineLoaded /\ FlagsAgree  BY DEF EngineLoaded, FlagsAgree
<1>4. HeldMaskIsNext /\ ExpectedResultIsOurs
  BY DEF HeldMaskIsNext, ExpectedResultIsOurs
<1> QED  BY <1>2, <1>3, <1>4 DEF IInv

LEMMA ResetIInv == Reset => IInv'
<1> SUFFICES ASSUME Reset PROVE IInv'
  OBVIOUS
<1> USE MaskFacts DEF Reset, Close, NothingIssued, Aes!Reset
<1>1. Aes!TypeOK'
  <2>1. left' \in 0..LATENCY  OBVIOUS
  <2> QED  BY <2>1 DEF Aes!TypeOK
<1>2. TypeOK'
  <2>1. next_counter' \in Counter  OBVIOUS
  <2> QED  BY <1>1, <2>1 DEF TypeOK
<1>3. EngineLoaded' /\ FlagsAgree'  BY DEF EngineLoaded, FlagsAgree
<1>4. HeldMaskIsNext' /\ ExpectedResultIsOurs'
  BY DEF HeldMaskIsNext, ExpectedResultIsOurs
<1> QED  BY <1>2, <1>3, <1>4 DEF IInv

(* What an edge without a request does to the engine. *)
LEMMA TickEngine ==
  ASSUME TypeOK, EngineLoaded, Aes!Tick
  PROVE  /\ Aes!TypeOK'
         /\ master_key' = master_key
         /\ key_valid' => master_key \in Key
         /\ state' = "KEY_READY" => master_key \in Key
         /\ state' = "RUN" => master_key \in Key /\ job' = job /\ job \in Block /\ left' > 0
         /\ done' => state' = "IDLE"
         /\ state = "RUN" => \/ state' = "RUN" /\ ~done'
                             \/ /\ state' = "IDLE" /\ done'
                                /\ ciphertext' = Enc[<<master_key, job>>]
<1> USE MaskFacts
<1>1. CASE Aes!FinishKey
  BY <1>1 DEF Aes!FinishKey, TypeOK, Aes!TypeOK, EngineLoaded
<1>2. CASE Aes!Work
  <2>1. left' \in 0..LATENCY /\ left' > 0
    BY <1>2 DEF Aes!Work, TypeOK, Aes!TypeOK
  <2> QED  BY <1>2, <2>1 DEF Aes!Work, TypeOK, Aes!TypeOK, EngineLoaded
<1>3. CASE Aes!Finish
  <2>1. state' = "IDLE" /\ done' = TRUE /\ master_key' = master_key
        /\ key_valid' = key_valid /\ state = "RUN"
        /\ ciphertext' = Enc[<<master_key, job>>]
    BY <1>3 DEF Aes!Finish
  <2>2. master_key \in Key /\ job \in Block /\ ciphertext' \in Value
    BY <2>1 DEF EngineLoaded
  <2>3. Aes!TypeOK'
    <3>1. left' \in 0..LATENCY
      BY <1>3 DEF Aes!Finish
    <3> QED  BY <1>3, <2>2, <3>1 DEF Aes!Finish, TypeOK, Aes!TypeOK
  <2> QED  BY <2>1, <2>2, <2>3
<1>4. CASE Aes!Rest
  BY <1>4 DEF Aes!Rest, Aes!busy, TypeOK, Aes!TypeOK, EngineLoaded
<1> QED  BY <1>1, <1>2, <1>3, <1>4 DEF Aes!Tick

LEMMA AbortIInv == IInv /\ Abort => IInv'
<1> SUFFICES ASSUME IInv, Abort PROVE IInv'
  OBVIOUS
<1> USE MaskFacts DEF Abort, Close, NothingIssued
<1>1. TypeOK /\ EngineLoaded  BY DEF IInv
<1>2. TypeOK'
  <2>1. next_counter' \in Counter  OBVIOUS
  <2> QED  BY <1>1, <2>1, TickEngine DEF TypeOK
<1>3. EngineLoaded'  BY <1>1, TickEngine DEF EngineLoaded
<1>4. FlagsAgree' /\ HeldMaskIsNext' /\ ExpectedResultIsOurs'
  BY DEF FlagsAgree, HeldMaskIsNext, ExpectedResultIsOurs
<1> QED  BY <1>2, <1>3, <1>4 DEF IInv

LEMMA ConfigureIInv ==
  ASSUME IInv, NEW k \in Key, NEW n \in Nonce, NEW c \in Counter, Configure(k, n, c)
  PROVE  IInv'
  BY MaskFacts
  DEF Configure, cfg_ready, NothingIssued, Aes!LoadKey, Aes!key_ready, Aes!busy,
      IInv, TypeOK, Aes!TypeOK, EngineLoaded, FlagsAgree, HeldMaskIsNext,
      ExpectedResultIsOurs

LEMMA IdleIInv == IInv /\ Idle => IInv'
<1> SUFFICES ASSUME IInv, Idle PROVE IInv'
  OBVIOUS
<1> QED
  BY TickEngine
  DEF Idle, maskRegs, IInv, TypeOK, EngineLoaded, FlagsAgree, HeldMaskIsNext,
      ExpectedResultIsOurs, NextMask, Unissued

(* The edge that starts a block: the engine was free, so there is nothing  *)
(* to capture, and a mask held until now is consumed at this edge.         *)
LEMMA IssueIInv ==
  ASSUME IInv, NEW mask_ready \in BOOLEAN, Run(mask_ready), issue(mask_ready)
  PROVE  IInv' /\ NextMask' = NextMask + (IF result_valid THEN 1 ELSE 0)
<1> USE MaskFacts
<1>1. /\ TypeOK /\ EngineLoaded /\ FlagsAgree /\ active /\ ~inflight /\ ~last_issued
      /\ ~result_valid \/ mask_ready
      /\ Aes!block_ready
  BY DEF IInv, issue
<1>2. /\ Aes!Start(<<nonce, next_counter>>)
      /\ pending_last' = (next_counter = COUNTER_MAX)
      /\ last_issued' = (next_counter = COUNTER_MAX)
      /\ next_counter' = IF next_counter = COUNTER_MAX THEN next_counter
                                                       ELSE next_counter + 1
      /\ active' = active /\ nonce' = nonce
  BY DEF Run, IssueBlock
<1>3. /\ inflight' /\ ~result_valid'
      /\ mask_data' \in {mask_data, Clear} /\ mask_last' \in {mask_last, FALSE}
  BY <1>1 DEF Run, HoldMask, capture, consume
<1>4. /\ state' = "RUN" /\ left' = LATENCY /\ job' = <<nonce, next_counter>>
      /\ key_done' = FALSE /\ done' = FALSE /\ master_key' = master_key
      /\ key_valid' = key_valid /\ ciphertext' = ciphertext /\ key_valid
  BY <1>2 DEF Aes!Start, Aes!block_ready
<1>5. next_counter \in Counter /\ nonce \in Nonce /\ <<nonce, next_counter>> \in Block
  BY <1>1 DEF TypeOK, EngineLoaded
<1>6. Unissued = next_counter /\ Unissued' = next_counter + 1
  BY <1>1, <1>2, <1>5 DEF Unissued
<1>7. NextMask' = next_counter
  BY <1>3, <1>5, <1>6 DEF NextMask
<1>8. next_counter = NextMask + (IF result_valid THEN 1 ELSE 0)
  BY <1>1, <1>5, <1>6 DEF NextMask
<1>9. TypeOK'
  <2>1. Aes!TypeOK'
    <3>1. left' \in 0..LATENCY
      BY <1>4
    <3> QED  BY <1>1, <1>4, <1>5, <3>1 DEF TypeOK, Aes!TypeOK
  <2>2. next_counter' \in Counter
    BY <1>2, <1>5
  <2>3. /\ inflight' \in BOOLEAN /\ result_valid' \in BOOLEAN
        /\ pending_last' \in BOOLEAN /\ last_issued' \in BOOLEAN
    BY <1>2 DEF Run, HoldMask, capture
  <2>4. mask_data' \in Value \cup {Clear} /\ mask_last' \in BOOLEAN
    BY <1>1, <1>3 DEF TypeOK
  <2> QED  BY <1>1, <1>2, <2>1, <2>2, <2>3, <2>4 DEF TypeOK
<1>10. EngineLoaded'
  BY <1>1, <1>2, <1>4, <1>5 DEF EngineLoaded
<1>11. FlagsAgree'
  <2>1. Unissued' > 0
    BY <1>5, <1>6
  <2> QED  BY <1>1, <1>2, <1>3, <1>5, <1>7, <2>1 DEF FlagsAgree
<1>12. HeldMaskIsNext' /\ ExpectedResultIsOurs'
  BY <1>1, <1>2, <1>3, <1>4, <1>7 DEF HeldMaskIsNext, ExpectedResultIsOurs
<1> QED  BY <1>7, <1>8, <1>9, <1>10, <1>11, <1>12 DEF IInv

(* The edges between: the engine works on, or delivers the mask. *)
LEMMA RunIInv ==
  ASSUME IInv, NEW mask_ready \in BOOLEAN, Run(mask_ready), ~issue(mask_ready)
  PROVE  IInv' /\ NextMask' = NextMask + (IF consume(mask_ready) THEN 1 ELSE 0)
<1> USE MaskFacts
<1>1. /\ TypeOK /\ EngineLoaded /\ FlagsAgree /\ HeldMaskIsNext /\ ExpectedResultIsOurs
      /\ active
  BY DEF IInv, Run
<1>2. /\ Aes!Tick
      /\ pending_last' = pending_last /\ last_issued' = last_issued
      /\ next_counter' = next_counter /\ active' = active /\ nonce' = nonce
  BY DEF Run, IssueBlock
<1>3. /\ inflight' = (inflight /\ ~done)
      /\ result_valid' = ((done /\ inflight) \/ (result_valid /\ ~mask_ready))
      /\ mask_data' = IF done /\ inflight THEN ciphertext
                      ELSE IF consume(mask_ready) THEN Clear ELSE mask_data
      /\ mask_last' = IF done /\ inflight THEN pending_last
                      ELSE IF consume(mask_ready) THEN FALSE ELSE mask_last
  BY <1>1 DEF Run, HoldMask, capture, TypeOK, Aes!TypeOK
<1>4. Unissued' = Unissued /\ Unissued \in Nat
  BY <1>1, <1>2 DEF Unissued, TypeOK
<1>5. consume(mask_ready) = (result_valid /\ mask_ready)
  BY DEF consume
<1>6. NextMask' = NextMask + (IF consume(mask_ready) THEN 1 ELSE 0)
  BY <1>1, <1>3, <1>4, <1>5 DEF NextMask, FlagsAgree, ExpectedResultIsOurs, TypeOK
<1>7. inflight \/ result_valid' => NextMask' = NextMask
  BY <1>1, <1>3, <1>5, <1>6, <1>4 DEF ExpectedResultIsOurs, TypeOK, NextMask
<1>8. Aes!TypeOK' /\ master_key' = master_key
  BY <1>1, <1>2, TickEngine
<1>9. TypeOK'
  BY <1>1, <1>2, <1>3, <1>8 DEF TypeOK, Aes!TypeOK
<1>10. EngineLoaded'
  BY <1>1, <1>2, TickEngine DEF EngineLoaded
<1>11. FlagsAgree'
  BY <1>1, <1>2, <1>3, <1>4, <1>7 DEF FlagsAgree, TypeOK
<1>12. HeldMaskIsNext'
  BY <1>1, <1>2, <1>3, <1>5, <1>7, <1>8
  DEF HeldMaskIsNext, ExpectedResultIsOurs, FlagsAgree, TypeOK
<1>13. ExpectedResultIsOurs'
  BY <1>1, <1>2, <1>3, <1>7, <1>8, TickEngine DEF ExpectedResultIsOurs, TypeOK
<1> QED  BY <1>6, <1>9, <1>10, <1>11, <1>12, <1>13 DEF IInv

LEMMA NextIInv == IInv /\ [Next]_vars => IInv'
<1> SUFFICES ASSUME IInv, [Next]_vars PROVE IInv'
  OBVIOUS
<1>1. CASE Abort  BY <1>1, AbortIInv
<1>2. CASE \E k \in Key, n \in Nonce, c \in Counter : Configure(k, n, c)
  BY <1>2, ConfigureIInv
<1>3. CASE \E mask_ready \in BOOLEAN : Run(mask_ready)
  BY <1>3, IssueIInv, RunIInv
<1>4. CASE Idle  BY <1>4, IdleIInv
<1>5. CASE Reset  BY <1>5, ResetIInv
<1>6. CASE UNCHANGED vars
  BY <1>6 DEF vars, maskRegs, Aes!vars, IInv, TypeOK, Aes!TypeOK, EngineLoaded, FlagsAgree,
     HeldMaskIsNext, ExpectedResultIsOurs, NextMask, Unissued
<1> QED  BY <1>1, <1>2, <1>3, <1>4, <1>5, <1>6 DEF Next, Clock

(* For every cipher, latency and counter width: registers in range, the    *)
(* mask offered is that of the next counter under the loaded key and nonce *)
(* and marked last exactly at COUNTER_MAX, and the result expected from    *)
(* the engine is that of this context.                                     *)
THEOREM MaskInvariant ==
  Spec => [](TypeOK /\ HeldMaskIsNext /\ ExpectedResultIsOurs)
<1>1. Spec => []IInv
  BY InitIInv, NextIInv, PTL DEF Spec
<1>2. IInv => TypeOK /\ HeldMaskIsNext /\ ExpectedResultIsOurs
  BY DEF IInv
<1> QED  BY <1>1, <1>2, PTL

LEMMA StepNeverSkips ==
  IInv /\ [Next]_vars =>
    [active /\ active' => \/ NextMask' = NextMask
                          \/ NextMask' = NextMask + 1 /\ result_valid]_vars
<1> SUFFICES ASSUME IInv, Next, active, active'
             PROVE  NextMask' = NextMask \/ (NextMask' = NextMask + 1 /\ result_valid)
  BY DEF vars
<1>1. NextMask \in Int
  BY MaskFacts DEF IInv, TypeOK, NextMask, Unissued
<1>2. CASE \E mask_ready \in BOOLEAN : Run(mask_ready)
  BY <1>1, <1>2, IssueIInv, RunIInv DEF consume
<1>3. ~Abort /\ ~Idle /\ ~Reset
  BY DEF Abort, Reset, Close, Idle
<1>4. \A k \in Key, n \in Nonce, c \in Counter : ~Configure(k, n, c)
  BY DEF Configure, cfg_ready
<1> QED  BY <1>2, <1>3, <1>4 DEF Next, Clock

(* For every instance: while a context lasts no counter is skipped,        *)
(* repeated or wrapped, and none is passed before its mask was offered.    *)
THEOREM CounterInOrder == Spec => CounterNeverSkips
<1>1. Spec => []IInv
  BY InitIInv, NextIInv, PTL DEF Spec
<1> QED  BY <1>1, StepNeverSkips, PTL DEF Spec, CounterNeverSkips

-----------------------------------------------------------------------------
(* The registers of the stream in range, and its bytes those of a counter *)
(* that exists.                                                           *)
LanesOK ==
  /\ byte_index \in Lane
  /\ current_valid \in BOOLEAN
  /\ current_mask \in [Lane -> (Value \X Lane) \cup {Clear}]
  /\ current_valid => Position \in Counter

StreamIInv ==
  /\ IInv
  /\ LanesOK
  /\ MaskBytesInPlace

LEMMA LaneFacts ==
  /\ BLOCK_BYTES \in Nat /\ BLOCK_BYTES > 0
  /\ \A i : i \in Lane <=> i \in Nat /\ i < BLOCK_BYTES
  /\ \A v \in Value, i \in Lane : <<v, i>> \in Value \X Lane /\ <<v, i>> # Clear
<1> QED  BY StreamAssumption DEF Lane

(* A mask the generator offers is the cipher's, of a counter in range. *)
LEMMA OfferedMask ==
  ASSUME IInv, result_valid
  PROVE  /\ active /\ master_key \in Key /\ nonce \in Nonce
         /\ mask_data = Enc[<<master_key, <<nonce, NextMask>>>>]
         /\ mask_data \in Value
         /\ NextMask \in Counter
<1>1. /\ TypeOK /\ EngineLoaded /\ FlagsAgree /\ active
      /\ mask_data = Enc[<<master_key, <<nonce, NextMask>>>>]
  BY DEF IInv, HeldMaskIsNext
<1>2. master_key \in Key /\ nonce \in Nonce
  BY <1>1 DEF EngineLoaded
<1>3. NextMask \in Counter
  <2>1. next_counter \in Nat /\ next_counter <= COUNTER_MAX /\ COUNTER_MAX \in Nat
    BY <1>1, MaskFacts DEF TypeOK
  <2>2. NextMask = Unissued - 1 /\ Unissued > 0
    BY <1>1 DEF NextMask, FlagsAgree
  <2>3. NextMask \in Nat /\ NextMask <= COUNTER_MAX
    BY <2>1, <2>2 DEF Unissued
  <2> QED  BY <2>3, MaskFacts
<1>4. mask_data \in Value
  BY <1>1, <1>2, <1>3, MaskFacts
<1> QED  BY <1>1, <1>2, <1>3, <1>4

LEMMA NextMaskIsInt == IInv => NextMask \in Int
  BY MaskFacts DEF IInv, TypeOK, NextMask, Unissued

(* The generator under the stream: an edge of an active context keeps key  *)
(* and nonce, and moves the counter on exactly if a mask is taken.         *)
LEMMA GeneratorRun ==
  ASSUME IInv, NEW mask_ready \in BOOLEAN, Run(mask_ready)
  PROVE  /\ IInv'
         /\ active /\ active' = active /\ nonce' = nonce /\ master_key' = master_key
         /\ NextMask' = NextMask + (IF consume(mask_ready) THEN 1 ELSE 0)
<1>1. TypeOK /\ EngineLoaded /\ active /\ active' = active /\ nonce' = nonce
  BY DEF IInv, Run
<1>2. CASE issue(mask_ready)
  <2>1. master_key' = master_key
    BY <1>2 DEF Run, IssueBlock, Aes!Start
  <2>2. result_valid => mask_ready
    BY <1>2 DEF issue
  <2> QED  BY <1>1, <1>2, <2>1, <2>2, IssueIInv DEF consume
<1>3. CASE ~issue(mask_ready)
  <2>1. master_key' = master_key
    BY <1>1, <1>3, TickEngine DEF Run, IssueBlock
  <2> QED  BY <1>1, <1>3, <2>1, RunIInv
<1> QED  BY <1>2, <1>3

LEMMA DiscardInPlace == Discard => LanesOK' /\ MaskBytesInPlace'
<1> SUFFICES ASSUME Discard PROVE LanesOK' /\ MaskBytesInPlace'
  OBVIOUS
<1> QED  BY LaneFacts DEF Discard, Zeros, LanesOK, MaskBytesInPlace

(* The three things an edge of an active context can do to the bytes. *)
LEMMA LoadInPlace ==
  ASSUME StreamIInv, NEW used \in BOOLEAN, Run(next_ready(used)),
         result_valid, next_ready(used), LoadMask
  PROVE  /\ LanesOK' /\ MaskBytesInPlace'
         /\ NextMask' = NextMask + 1
         /\ Position' = NextMask
<1>1. IInv  BY DEF StreamIInv
<1>2. next_ready(used) \in BOOLEAN /\ consume(next_ready(used))
  BY DEF consume, next_ready
<1>3. /\ active' /\ nonce' = nonce /\ master_key' = master_key
      /\ NextMask' = NextMask + 1
  <2> DEFINE ready == next_ready(used)
  <2>1. /\ ready \in BOOLEAN /\ Run(ready) /\ consume(ready)
    BY <1>2
  <2> HIDE DEF ready
  <2> QED  BY <1>1, <2>1, GeneratorRun
<1>4. /\ mask_data = Enc[<<master_key, <<nonce, NextMask>>>>]
      /\ mask_data \in Value /\ NextMask \in Counter
  BY <1>1, OfferedMask
<1>5. current_mask' = Lanes(mask_data) /\ current_valid' = TRUE /\ byte_index' = 0
  BY DEF LoadMask
<1>6. Position' = NextMask
  BY <1>1, <1>3, <1>5, NextMaskIsInt DEF Position
<1>7. LanesOK'
  <2>1. byte_index' \in Lane
    BY <1>5, LaneFacts
  <2>2. current_mask' \in [Lane -> (Value \X Lane) \cup {Clear}]
    <3>1. \A i \in Lane : <<mask_data, i>> \in (Value \X Lane) \cup {Clear}
      BY <1>4
    <3>2. current_mask' = [i \in Lane |-> <<mask_data, i>>]
      BY <1>5 DEF Lanes
    <3> QED  BY <3>1, <3>2, Zenon
  <2> QED  BY <1>4, <1>5, <1>6, <2>1, <2>2 DEF LanesOK
<1>8. \A i \in Lane : current_mask'[i] = <<mask_data, i>> /\ i + byte_index' = i
  BY <1>5, LaneFacts DEF Lanes
<1>9. MaskBytesInPlace'
  BY <1>3, <1>4, <1>5, <1>6, <1>8 DEF MaskBytesInPlace
<1> QED  BY <1>3, <1>6, <1>7, <1>9

LEMMA ShiftInPlace ==
  ASSUME StreamIInv, NEW used \in BOOLEAN, Run(next_ready(used)), current_valid,
         ~(result_valid /\ next_ready(used)), used, ShiftMask
  PROVE  /\ LanesOK' /\ MaskBytesInPlace'
         /\ NextMask' = NextMask
         /\ current_valid' => Position' = Position
<1>1. IInv /\ LanesOK /\ MaskBytesInPlace  BY DEF StreamIInv
<1>2. next_ready(used) \in BOOLEAN /\ ~consume(next_ready(used))
  BY DEF consume, next_ready
<1>3. /\ active' /\ nonce' = nonce /\ master_key' = master_key
      /\ NextMask' = NextMask
  <2> DEFINE ready == next_ready(used)
  <2>1. /\ ready \in BOOLEAN /\ Run(ready) /\ ~consume(ready)
    BY <1>2
  <2> HIDE DEF ready
  <2> QED  BY <1>1, <2>1, GeneratorRun, NextMaskIsInt
<1>4. /\ current_mask' = Shifted(current_mask)
      /\ current_valid' = (byte_index # BLOCK_BYTES - 1)
      /\ byte_index' = IF byte_index = BLOCK_BYTES - 1 THEN 0 ELSE byte_index + 1
  BY DEF ShiftMask
<1>5. byte_index \in Nat /\ byte_index < BLOCK_BYTES /\ BLOCK_BYTES \in Nat
  BY <1>1, LaneFacts DEF LanesOK
<1>6. byte_index' \in Lane
  BY <1>4, <1>5, LaneFacts
<1>7. current_valid' => Position' = Position
  BY <1>3 DEF Position
<1>8. LanesOK'
  <2>1. \A i \in Lane : i # BLOCK_BYTES - 1 => i + 1 \in Lane
    BY LaneFacts
  <2>2. current_mask' \in [Lane -> (Value \X Lane) \cup {Clear}]
    <3> DEFINE byte(i) == IF i = BLOCK_BYTES - 1 THEN Clear ELSE current_mask[i + 1]
    <3>1. \A i \in Lane : byte(i) \in (Value \X Lane) \cup {Clear}
      BY <1>1, <2>1 DEF LanesOK
    <3>2. current_mask' = [i \in Lane |-> byte(i)]
      BY <1>4 DEF Shifted
    <3>3. current_mask' \in [Lane -> (Value \X Lane) \cup {Clear}]
      <4> HIDE DEF byte
      <4> QED  BY <3>1, <3>2, Zenon
    <3> QED  BY <3>3
  <2> QED  BY <1>1, <1>4, <1>6, <1>7, <2>2 DEF LanesOK
<1>9. ASSUME current_valid', NEW i \in Lane
      PROVE  current_mask'[i] =
               IF i + byte_index' \in Lane
               THEN <<Enc[<<master_key, <<nonce, Position>>>>], i + byte_index'>>
               ELSE Clear
  <2>1. byte_index' = byte_index + 1
    BY <1>4, <1>9
  <2>2. i \in Nat /\ i < BLOCK_BYTES
    BY LaneFacts
  <2>3. CASE i = BLOCK_BYTES - 1
    <3>1. i + byte_index' \notin Lane
      BY <1>5, <2>1, <2>3, LaneFacts
    <3> QED  BY <1>4, <2>3, <3>1 DEF Shifted
  <2>4. CASE i # BLOCK_BYTES - 1
    <3>1. i + 1 \in Lane
      BY <2>2, <2>4, LaneFacts
    <3>2. current_mask'[i] = current_mask[i + 1]
      BY <1>4, <2>4 DEF Shifted
    <3>3. (i + 1) + byte_index = i + byte_index'
      BY <1>5, <2>1, <2>2
    <3> QED  BY <1>1, <3>1, <3>2, <3>3 DEF MaskBytesInPlace
  <2> QED  BY <2>3, <2>4
<1>10. MaskBytesInPlace'
  <2>1. ~current_valid' => byte_index' = 0
    BY <1>4, <1>5
  <2> QED  BY <1>3, <1>7, <1>9, <2>1 DEF MaskBytesInPlace
<1> QED  BY <1>3, <1>7, <1>8, <1>10

LEMMA KeepInPlace ==
  ASSUME StreamIInv, NEW used \in BOOLEAN, Run(next_ready(used)),
         ~(result_valid /\ next_ready(used)), UNCHANGED streamRegs
  PROVE  /\ LanesOK' /\ MaskBytesInPlace'
         /\ NextMask' = NextMask /\ Position' = Position
<1>1. IInv /\ LanesOK /\ MaskBytesInPlace  BY DEF StreamIInv
<1>2. next_ready(used) \in BOOLEAN /\ ~consume(next_ready(used))
  BY DEF consume, next_ready
<1>3. /\ active' /\ nonce' = nonce /\ master_key' = master_key
      /\ NextMask' = NextMask
  <2> DEFINE ready == next_ready(used)
  <2>1. /\ ready \in BOOLEAN /\ Run(ready) /\ ~consume(ready)
    BY <1>2
  <2> HIDE DEF ready
  <2> QED  BY <1>1, <2>1, GeneratorRun, NextMaskIsInt
<1>4. current_mask' = current_mask /\ current_valid' = current_valid
      /\ byte_index' = byte_index
  BY DEF streamRegs
<1>5. Position' = Position
  BY <1>3, <1>4 DEF Position
<1> QED  BY <1>1, <1>3, <1>4, <1>5 DEF LanesOK, MaskBytesInPlace

LEMMA InitStreamIInv == StreamInit => StreamIInv
<1> SUFFICES ASSUME StreamInit PROVE StreamIInv
  OBVIOUS
<1>1. IInv  BY InitIInv DEF StreamInit
<1>2. LanesOK /\ MaskBytesInPlace
  BY LaneFacts DEF StreamInit, Zeros, LanesOK, MaskBytesInPlace
<1> QED  BY <1>1, <1>2 DEF StreamIInv

LEMMA NextStreamIInv == StreamIInv /\ [StreamNext]_streamVars => StreamIInv'
<1> SUFFICES ASSUME StreamIInv, [StreamNext]_streamVars PROVE StreamIInv'
  OBVIOUS
<1>1. IInv /\ LanesOK /\ MaskBytesInPlace  BY DEF StreamIInv
<1>2. CASE StreamAbort
  <2>1. IInv'  BY <1>1, <1>2, AbortIInv DEF StreamAbort
  <2> QED  BY <1>2, <2>1, DiscardInPlace DEF StreamAbort, StreamIInv
<1>3. CASE StreamReset
  <2>1. IInv'  BY <1>3, ResetIInv DEF StreamReset
  <2> QED  BY <1>3, <2>1, DiscardInPlace DEF StreamReset, StreamIInv
<1>4. ASSUME NEW k \in Key, NEW n \in Nonce, NEW c \in Counter, StreamConfigure(k, n, c)
      PROVE  StreamIInv'
  <2>1. IInv'  BY <1>1, <1>4, ConfigureIInv DEF StreamConfigure
  <2> QED  BY <1>4, <2>1, DiscardInPlace DEF StreamConfigure, StreamIInv
<1>5. ASSUME NEW in_valid \in BOOLEAN, NEW out_ready \in BOOLEAN,
             StreamRun(transfer(in_valid, out_ready))
      PROVE  StreamIInv'
  <2> DEFINE used == transfer(in_valid, out_ready)
  <2>1. used \in BOOLEAN /\ (used => current_valid) /\ next_ready(used) \in BOOLEAN
    BY DEF transfer, next_ready
  <2>2. StreamRun(used)
    BY <1>5
  <2> HIDE DEF used
  <2>3. Run(next_ready(used))
    BY <2>2 DEF StreamRun
  <2>4. IInv'
    BY <1>1, <2>1, <2>3, GeneratorRun
  <2>5. LanesOK' /\ MaskBytesInPlace'
    BY <2>1, <2>2, <2>3, LoadInPlace, ShiftInPlace, KeepInPlace DEF StreamRun
  <2> QED  BY <2>4, <2>5 DEF StreamIInv
<1>6. CASE StreamIdle
  <2>1. IInv'  BY <1>1, <1>6, IdleIInv DEF StreamIdle
  <2>2. ~active /\ active' = active /\ UNCHANGED streamRegs
    BY <1>6 DEF StreamIdle, Idle, maskRegs
  <2> QED
    BY <1>1, <2>1, <2>2 DEF StreamIInv, LanesOK, MaskBytesInPlace, streamRegs
<1>7. CASE UNCHANGED streamVars
  <2>1. UNCHANGED vars /\ UNCHANGED streamRegs  BY <1>7 DEF streamVars
  <2>2. IInv'  BY <1>1, <2>1, NextIInv
  <2>3. /\ active' = active /\ nonce' = nonce /\ master_key' = master_key
        /\ Position' = Position
    BY <2>1 DEF vars, maskRegs, streamRegs, Aes!vars, Position, NextMask, Unissued
  <2> QED
    BY <1>1, <2>1, <2>2, <2>3 DEF StreamIInv, LanesOK, MaskBytesInPlace, streamRegs
<1> QED
  BY <1>2, <1>3, <1>4, <1>5, <1>6, <1>7 DEF StreamNext, StreamClock

(* For every mask length, counter width, latency and cipher: the bytes in  *)
(* the mask register are those of the present counter block not yet used,  *)
(* each in its place, under the context in force.                          *)
THEOREM StreamInvariant == StreamSpec => [](StreamTypeOK /\ MaskBytesInPlace)
<1>1. StreamSpec => []StreamIInv
  BY InitStreamIInv, NextStreamIInv, PTL DEF StreamSpec
<1>2. StreamIInv => StreamTypeOK /\ MaskBytesInPlace
  BY DEF StreamIInv, IInv, LanesOK, StreamTypeOK
<1> QED  BY <1>1, <1>2, PTL

LEMMA StepExhausted ==
  StreamIInv /\ [StreamNext]_streamVars =>
    [stream_exhausted =>
       /\ Position = COUNTER_MAX + 1
       /\ active' => stream_exhausted']_streamVars
<1> SUFFICES ASSUME StreamIInv, StreamNext, stream_exhausted
             PROVE  Position = COUNTER_MAX + 1 /\ (active' => stream_exhausted')
  BY DEF streamVars
<1>1. /\ active /\ last_issued /\ ~inflight /\ ~result_valid /\ ~current_valid
      /\ TypeOK /\ COUNTER_MAX \in Nat
  BY MaskFacts DEF stream_exhausted, exhausted, StreamIInv, IInv
<1>2. Position = COUNTER_MAX + 1
  BY <1>1 DEF Position, NextMask, Unissued
<1>3. ~StreamIdle /\ (StreamAbort \/ StreamReset => ~active')
  BY <1>1 DEF StreamIdle, Idle, StreamAbort, Abort, StreamReset, Reset, Close
<1>4. \A k \in Key, n \in Nonce, c \in Counter : ~StreamConfigure(k, n, c)
  BY <1>1 DEF StreamConfigure, Configure, cfg_ready
<1>5. ASSUME NEW in_valid \in BOOLEAN, NEW out_ready \in BOOLEAN,
             StreamRun(transfer(in_valid, out_ready))
      PROVE  stream_exhausted'
  <2> DEFINE used == transfer(in_valid, out_ready)
             ready == next_ready(used)
  <2>1. used = FALSE /\ ready \in BOOLEAN
    BY <1>1 DEF transfer, next_ready
  <2>2. StreamRun(used) /\ Run(ready)
    BY <1>5 DEF StreamRun
  <2>3. UNCHANGED streamRegs
    BY <1>1, <2>1, <2>2 DEF StreamRun
  <2> HIDE DEF used, ready
  <2>4. ~issue(ready)
    BY <1>1 DEF issue
  <2>5. active' = active /\ last_issued' = last_issued
    BY <2>2, <2>4 DEF Run, IssueBlock
  <2>6. ~inflight' /\ ~result_valid'
    BY <1>1, <2>2, <2>4 DEF Run, HoldMask, capture
  <2> QED
    BY <1>1, <2>3, <2>5, <2>6 DEF streamRegs, stream_exhausted, exhausted
<1> QED  BY <1>2, <1>3, <1>4, <1>5 DEF StreamNext, StreamClock

(* For every instance: exhausted means that the last byte of the last      *)
(* counter block has been used, and is not withdrawn before the context is *)
(* closed.                                                                 *)
THEOREM StreamEndsAtTheEnd == StreamSpec => ExhaustedAtTheEnd
<1>1. StreamSpec => []StreamIInv
  BY InitStreamIInv, NextStreamIInv, PTL DEF StreamSpec
<1> QED  BY <1>1, StepExhausted, PTL DEF StreamSpec, ExhaustedAtTheEnd

(* The byte offered, while there is one, is that of its position. *)
LEMMA OfferedByte ==
  ASSUME StreamIInv, current_valid
  PROVE  /\ active /\ Position \in Counter
         /\ mask_byte = Bytes!PadByte(master_key, nonce, Position, byte_index)
         /\ mask_byte # Clear
<1>1. LanesOK /\ MaskBytesInPlace /\ IInv
  BY DEF StreamIInv
<1>2. byte_index \in Lane /\ 0 \in Lane /\ 0 + byte_index = byte_index
  BY <1>1, LaneFacts DEF LanesOK
<1>3. active /\ Position \in Counter
  BY <1>1 DEF LanesOK, MaskBytesInPlace
<1>4. mask_byte = <<Enc[<<master_key, <<nonce, Position>>>>], byte_index>>
  BY <1>1, <1>2 DEF MaskBytesInPlace, mask_byte
<1>5. Enc[<<master_key, <<nonce, Position>>>>] \in Value
  BY <1>1, <1>3, MaskFacts DEF IInv, EngineLoaded
<1>6. mask_byte # Clear
  BY <1>2, <1>4, <1>5, LaneFacts
<1> QED  BY <1>3, <1>4, <1>6 DEF Bytes!PadByte

(* What one edge of an active context does to the place in the keystream:  *)
(* a byte used moves it on by one, over the end of the block or within it; *)
(* an edge without a transfer leaves it, a mask fetched meanwhile or not.  *)
LEMMA PositionMoves ==
  ASSUME StreamIInv, NEW used \in BOOLEAN, used => current_valid, StreamRun(used)
  PROVE  /\ active /\ active' = active /\ nonce' = nonce /\ master_key' = master_key
         /\ ~used => Position' = Position /\ byte_index' = byte_index
         /\ used => \/ /\ byte_index < BLOCK_BYTES - 1
                       /\ byte_index' = byte_index + 1 /\ Position' = Position
                    \/ /\ byte_index = BLOCK_BYTES - 1
                       /\ byte_index' = 0 /\ Position' = Position + 1
<1>1. IInv /\ LanesOK /\ MaskBytesInPlace  BY DEF StreamIInv
<1>2. Run(next_ready(used))  BY DEF StreamRun
<1>3. active /\ active' = active /\ nonce' = nonce /\ master_key' = master_key
  <2> DEFINE ready == next_ready(used)
  <2>1. ready \in BOOLEAN /\ Run(ready)
    BY <1>2 DEF next_ready
  <2> HIDE DEF ready
  <2> QED  BY <1>1, <2>1, GeneratorRun
<1>4. CASE result_valid /\ next_ready(used) /\ LoadMask
  <2>1. Position' = NextMask /\ byte_index' = 0
    BY <1>2, <1>4, LoadInPlace DEF LoadMask
  <2>2. CASE used
    <3>1. byte_index = BLOCK_BYTES - 1 /\ Position = NextMask - 1
      BY <1>4, <2>2 DEF next_ready, Position
    <3> QED  BY <1>1, <1>3, <2>1, <2>2, <3>1, NextMaskIsInt
  <2>3. CASE ~used
    <3>1. ~current_valid
      BY <1>4, <2>3 DEF next_ready
    <3> QED  BY <1>1, <1>3, <2>1, <2>3, <3>1 DEF Position, MaskBytesInPlace
  <2> QED  BY <2>2, <2>3
<1>5. CASE ~(result_valid /\ next_ready(used)) /\ used /\ ShiftMask
  <2>1. NextMask' = NextMask /\ (current_valid' => Position' = Position)
    BY <1>2, <1>5, ShiftInPlace
  <2>2. /\ current_valid' = (byte_index # BLOCK_BYTES - 1)
        /\ byte_index' = IF byte_index = BLOCK_BYTES - 1 THEN 0 ELSE byte_index + 1
    BY <1>5 DEF ShiftMask
  <2>3. byte_index \in Nat /\ byte_index < BLOCK_BYTES /\ BLOCK_BYTES \in Nat
    BY <1>1, LaneFacts DEF LanesOK
  <2>4. CASE byte_index = BLOCK_BYTES - 1
    <3>1. Position = NextMask - 1 /\ Position' = NextMask
      BY <1>5, <2>1, <2>2, <2>4 DEF Position
    <3> QED  BY <1>1, <1>3, <1>5, <2>2, <2>4, <3>1, NextMaskIsInt
  <2>5. CASE byte_index # BLOCK_BYTES - 1
    <3>1. current_valid' /\ byte_index' = byte_index + 1
      BY <2>2, <2>5
    <3>2. byte_index < BLOCK_BYTES - 1
      BY <2>3, <2>5
    <3> QED  BY <1>3, <1>5, <2>1, <3>1, <3>2
  <2> QED  BY <2>4, <2>5
<1>6. CASE ~(result_valid /\ next_ready(used)) /\ ~used /\ UNCHANGED streamRegs
  BY <1>2, <1>3, <1>6, KeepInPlace DEF streamRegs
<1> QED  BY <1>4, <1>5, <1>6 DEF StreamRun

(* Taking a mask makes a byte available: the first of the block, after the *)
(* last of the block before has been used, if there was one.               *)
LEMMA LoadMaps ==
  ASSUME StreamIInv, NEW used \in BOOLEAN, Run(next_ready(used)),
         result_valid, next_ready(used), LoadMask
  PROVE  Bytes!Offer \/ Bytes!Use
<1>1. IInv /\ LanesOK /\ MaskBytesInPlace  BY DEF StreamIInv
<1>2. /\ active /\ active' = active /\ nonce' = nonce /\ master_key' = master_key
  <2> DEFINE ready == next_ready(used)
  <2>1. ready \in BOOLEAN /\ Run(ready)
    BY DEF next_ready
  <2> HIDE DEF ready
  <2> QED  BY <1>1, <2>1, GeneratorRun
<1>3. Position' = NextMask /\ NextMask \in Counter
  BY <1>1, LoadInPlace, OfferedMask
<1>4. /\ current_valid' = TRUE /\ byte_index' = 0
      /\ mask_byte' = Bytes!PadByte(master_key, nonce, NextMask, 0)
  <2>1. mask_data = Enc[<<master_key, <<nonce, NextMask>>>>]
    BY <1>1, OfferedMask
  <2>2. 0 \in Lane
    BY LaneFacts
  <2> QED  BY <2>1, <2>2 DEF LoadMask, Lanes, mask_byte, Bytes!PadByte
<1>5. NextMask <= COUNTER_MAX
  BY <1>3, MaskFacts
<1>6. CASE ~current_valid
  <2>1. Position = NextMask /\ byte_index = 0
    BY <1>1, <1>6 DEF Position, MaskBytesInPlace
  <2> QED  BY <1>2, <1>3, <1>4, <1>5, <1>6, <2>1 DEF Bytes!Offer
<1>7. CASE current_valid
  <2>1. byte_index = BLOCK_BYTES - 1
    BY <1>7 DEF next_ready
  <2>2. Position' = Position + 1
    BY <1>1, <1>3, <1>7, NextMaskIsInt DEF Position
  <2> QED
    BY <1>2, <1>3, <1>4, <1>5, <1>7, <2>1, <2>2, OfferedByte DEF Bytes!Use
<1> QED  BY <1>6, <1>7

(* Shifting is the use of a byte with no new mask: the next byte of the    *)
(* block is there at once, and after the last byte of it nothing is.       *)
LEMMA ShiftMaps ==
  ASSUME StreamIInv, NEW used \in BOOLEAN, Run(next_ready(used)), current_valid,
         ~(result_valid /\ next_ready(used)), used, ShiftMask
  PROVE  Bytes!Use
<1>1. IInv /\ LanesOK /\ MaskBytesInPlace  BY DEF StreamIInv
<1>2. active /\ active' = active /\ nonce' = nonce /\ master_key' = master_key
  <2> DEFINE ready == next_ready(used)
  <2>1. ready \in BOOLEAN /\ Run(ready)
    BY DEF next_ready
  <2> HIDE DEF ready
  <2> QED  BY <1>1, <2>1, GeneratorRun
<1>3. /\ LanesOK' /\ MaskBytesInPlace' /\ NextMask' = NextMask
      /\ current_valid' => Position' = Position
  BY ShiftInPlace
<1>4. /\ current_valid' = (byte_index # BLOCK_BYTES - 1)
      /\ byte_index' = IF byte_index = BLOCK_BYTES - 1 THEN 0 ELSE byte_index + 1
  BY DEF ShiftMask
<1>5. byte_index \in Nat /\ byte_index < BLOCK_BYTES /\ BLOCK_BYTES \in Nat
  BY <1>1, LaneFacts DEF LanesOK
<1>6. mask_byte # Clear /\ Position \in Counter
  BY OfferedByte
<1>7. CASE byte_index = BLOCK_BYTES - 1
  <2>1. ~current_valid' /\ byte_index' = 0
    BY <1>4, <1>7
  <2>2. Position' = Position + 1
    BY <1>1, <1>3, <2>1, NextMaskIsInt DEF Position
  <2> QED  BY <1>2, <1>6, <1>7, <2>1, <2>2 DEF Bytes!Use
<1>8. CASE byte_index # BLOCK_BYTES - 1
  <2>1. current_valid' /\ byte_index' = byte_index + 1 /\ byte_index < BLOCK_BYTES - 1
    <3>1. current_valid' /\ byte_index' = byte_index + 1
      BY <1>4, <1>8
    <3>2. byte_index < BLOCK_BYTES - 1
      BY <1>5, <1>8
    <3> QED  BY <3>1, <3>2
  <2>2. Position' = Position /\ Position' <= COUNTER_MAX
    BY <1>3, <1>6, <2>1, MaskFacts
  <2>3. mask_byte' = Bytes!PadByte(master_key, nonce, Position', byte_index')
    <3>1. 0 \in Lane /\ byte_index' \in Lane /\ 0 + byte_index' = byte_index'
      BY <1>3, LaneFacts DEF LanesOK
    <3>2. current_mask'[0] = <<Enc[<<master_key', <<nonce', Position'>>>>], byte_index'>>
      BY <1>3, <2>1, <3>1 DEF MaskBytesInPlace
    <3> QED  BY <1>2, <3>2 DEF mask_byte, Bytes!PadByte
  <2> QED  BY <1>2, <1>6, <2>1, <2>2, <2>3 DEF Bytes!Use
<1> QED  BY <1>7, <1>8

LEMMA InitMaps == StreamInit => Bytes!Init
  BY DEF StreamInit, Init, Bytes!Init, Position, NextMask, Unissued

LEMMA StepMaps == StreamIInv /\ [StreamNext]_streamVars => [Bytes!Next]_(Bytes!vars)
<1> SUFFICES ASSUME StreamIInv, [StreamNext]_streamVars
             PROVE  [Bytes!Next]_(Bytes!vars)
  OBVIOUS
<1>1. CASE StreamAbort \/ StreamReset
  <2>1. Bytes!Close
    BY <1>1
    DEF StreamAbort, StreamReset, Abort, Reset, Discard, Close, NothingIssued,
        Bytes!Close, Position, NextMask, Unissued
  <2> QED  BY <2>1 DEF Bytes!Next
<1>2. ASSUME NEW k \in Key, NEW n \in Nonce, NEW c \in Counter, StreamConfigure(k, n, c)
      PROVE  Bytes!Next
  <2>1. Bytes!Open(k, n, c)
    BY <1>2
    DEF StreamConfigure, Configure, cfg_ready, Discard, NothingIssued, Aes!LoadKey,
        Bytes!Open, Position, NextMask, Unissued
  <2> QED  BY <2>1 DEF Bytes!Next, Bytes!Counter, Counter
<1>3. ASSUME NEW in_valid \in BOOLEAN, NEW out_ready \in BOOLEAN,
             StreamRun(transfer(in_valid, out_ready))
      PROVE  [Bytes!Next]_(Bytes!vars)
  <2> DEFINE used == transfer(in_valid, out_ready)
  <2>1. used \in BOOLEAN /\ (used => current_valid)
    BY DEF transfer
  <2>2. StreamRun(used)
    BY <1>3
  <2> HIDE DEF used
  <2>3. Run(next_ready(used))
    BY <2>2 DEF StreamRun
  <2>4. CASE result_valid /\ next_ready(used) /\ LoadMask
    BY <2>1, <2>3, <2>4, LoadMaps DEF Bytes!Next
  <2>5. CASE ~(result_valid /\ next_ready(used)) /\ used /\ ShiftMask
    BY <2>1, <2>3, <2>5, ShiftMaps DEF Bytes!Next
  <2>6. CASE ~(result_valid /\ next_ready(used)) /\ ~used /\ UNCHANGED streamRegs
    <3>1. Position' = Position
      BY <2>1, <2>3, <2>6, KeepInPlace
    <3>2. active' = active /\ nonce' = nonce /\ master_key' = master_key
      <4> DEFINE ready == next_ready(used)
      <4>1. IInv /\ ready \in BOOLEAN /\ Run(ready)
        BY <2>3 DEF next_ready, StreamIInv
      <4> HIDE DEF ready
      <4> QED  BY <4>1, GeneratorRun
    <3> QED  BY <2>6, <3>1, <3>2 DEF Bytes!vars, streamRegs, mask_byte
  <2> QED  BY <2>2, <2>4, <2>5, <2>6 DEF StreamRun
<1>4. CASE StreamIdle
  <2>1. ~active /\ UNCHANGED <<active, nonce>> /\ UNCHANGED streamRegs /\ Position' = Position
    BY <1>4 DEF StreamIdle, Idle, maskRegs, streamRegs, Position, NextMask, Unissued
  <2> QED  BY <2>1 DEF Bytes!vars, streamRegs, mask_byte
<1>5. CASE UNCHANGED streamVars
  BY <1>5 DEF streamVars, streamRegs, vars, maskRegs, Aes!vars, Bytes!vars, mask_byte,
     Position, NextMask, Unissued
<1> QED  BY <1>1, <1>2, <1>3, <1>4, <1>5 DEF StreamNext, StreamClock

(* For every instance: what the byte port shows is counter mode, every     *)
(* byte offered once and in order under the context it was opened with,    *)
(* and nothing after the last.                                             *)
THEOREM StreamImplementsKeystream == StreamSpec => ImplementsKeystream
<1>1. StreamSpec => []StreamIInv
  BY InitStreamIInv, NextStreamIInv, PTL DEF StreamSpec
<1> QED  BY <1>1, InitMaps, StepMaps, PTL DEF StreamSpec, ImplementsKeystream, Bytes!Spec
-----------------------------------------------------------------------------
(* While a context lasts the engine runs for the block that is expected,   *)
(* and has a key before it is asked for one.                               *)
EngineOK ==
  /\ state \in {"IDLE", "KEY_READY", "RUN"}
  /\ inflight \in BOOLEAN /\ result_valid \in BOOLEAN
  /\ inflight => /\ ~result_valid
                 /\ \/ state = "RUN" /\ left \in 1..LATENCY /\ ~done
                    \/ state = "IDLE" /\ done
  /\ ~inflight => state # "RUN"
  /\ state # "KEY_READY" => key_valid
  /\ state = "KEY_READY" => ~inflight /\ ~result_valid

(* Edges until a mask is held: none if it is, or if none is to come. *)
MaskIn ==
  CASE result_valid -> 0
    [] ~result_valid /\ inflight -> IF state = "RUN" THEN left + 1 ELSE 1
    [] ~result_valid /\ ~inflight /\ last_issued -> 0
    [] OTHER -> IF state = "IDLE" THEN LATENCY + 2 ELSE LATENCY + 3

LEMMA MaskInFacts ==
  ASSUME EngineOK
  PROVE  /\ MaskIn \in Nat /\ MaskIn <= LATENCY + 3
         /\ result_valid => MaskIn = 0
         /\ inflight => MaskIn = IF state = "RUN" THEN left + 1 ELSE 1
         /\ ~result_valid /\ ~inflight /\ last_issued => MaskIn = 0
         /\ ~result_valid /\ ~inflight /\ ~last_issued =>
              MaskIn = IF state = "IDLE" THEN LATENCY + 2 ELSE LATENCY + 3
<1> QED  BY MaskFacts DEF EngineOK, MaskIn

LEMMA MaskInFactsNext ==
  EngineOK' =>
    /\ result_valid' => MaskIn' = 0
    /\ inflight' => MaskIn' = IF state' = "RUN" THEN left' + 1 ELSE 1
    /\ ~result_valid' /\ ~inflight' /\ last_issued' => MaskIn' = 0
    /\ ~result_valid' /\ ~inflight' /\ ~last_issued' =>
         MaskIn' = IF state' = "IDLE" THEN LATENCY + 2 ELSE LATENCY + 3
<1> DEFINE Facts0 ==
      /\ result_valid => MaskIn = 0
      /\ inflight => MaskIn = IF state = "RUN" THEN left + 1 ELSE 1
      /\ ~result_valid /\ ~inflight /\ last_issued => MaskIn = 0
      /\ ~result_valid /\ ~inflight /\ ~last_issued =>
           MaskIn = IF state = "IDLE" THEN LATENCY + 2 ELSE LATENCY + 3
<1>1. EngineOK => Facts0
  BY MaskInFacts
<1> HIDE DEF Facts0
<1>2. EngineOK' => Facts0'
  BY <1>1, PTL
<1> QED  BY <1>2 DEF Facts0

(* An edge of the engine brings the next mask one edge nearer; a mask that *)
(* is taken is followed, unless it was the last, by one more block.        *)
LEMMA EngineRuns ==
  ASSUME EngineOK, NEW ready \in BOOLEAN, Run(ready)
  PROVE  /\ EngineOK'
         /\ MaskIn > 0 => MaskIn' = MaskIn - 1 /\ ~result_valid
         /\ MaskIn = 0 /\ ~(result_valid /\ ready) =>
              MaskIn' = 0 /\ (result_valid' <=> result_valid) /\ ~inflight'
         /\ result_valid /\ ready => MaskIn' = LATENCY + 1 \/ MaskIn' = 0
         /\ ~result_valid /\ ~inflight /\ last_issued =>
              ~result_valid' /\ ~inflight' /\ last_issued'
<1> USE MaskFacts
<1>1. CASE inflight
  <2>1. ~issue(ready) /\ ~result_valid
    BY <1>1 DEF issue, EngineOK
  <2>2. Aes!Tick /\ last_issued' = last_issued
    BY <2>1 DEF Run, IssueBlock
  <2>3. /\ inflight' \in BOOLEAN /\ (inflight' <=> ~done)
        /\ result_valid' \in BOOLEAN /\ (result_valid' <=> done)
    BY <1>1, <2>1, Zenon DEF Run, HoldMask, capture, EngineOK
  <2>4. CASE state = "RUN" /\ left > 1
    <3>1. left \in 1..LATENCY /\ ~done
      BY <1>1, <2>4 DEF EngineOK
    <3>2. Aes!Work
      BY <2>2, <2>4 DEF Aes!Tick, Aes!FinishKey,
         Aes!Work, Aes!Finish, Aes!Rest, Aes!busy
    <3>3. state' = "RUN" /\ left' = left - 1 /\ ~done' /\ key_valid' = key_valid
      BY ONLY <3>2 DEF Aes!Work
    <3>4. /\ inflight' \in BOOLEAN /\ inflight'
          /\ result_valid' \in BOOLEAN /\ ~result_valid'
      BY <2>3, <3>1
    <3>5. left' \in 1..LATENCY /\ key_valid'
      BY <2>4, <3>1, <3>3 DEF EngineOK
    <3>6. EngineOK'
      BY ONLY <3>3, <3>4, <3>5 DEF EngineOK
    <3>7. MaskIn' = left' + 1 /\ MaskIn = left + 1
      BY <1>1, <2>4, <3>3, <3>4, <3>6, MaskInFacts, MaskInFactsNext
    <3> QED  BY <1>1, <2>1, <3>1, <3>3, <3>6, <3>7
  <2>5. CASE state = "RUN" /\ ~(left > 1)
    <3>1. left = 1 /\ ~done
      BY <1>1, <2>5 DEF EngineOK
    <3>2. state' = "IDLE" /\ done' /\ key_valid'
      BY <1>1, <2>2, <2>5, <3>1 DEF EngineOK, Aes!Tick, Aes!FinishKey,
         Aes!Work, Aes!Finish, Aes!Rest, Aes!busy
    <3>3. /\ inflight' \in BOOLEAN /\ inflight'
          /\ result_valid' \in BOOLEAN /\ ~result_valid'
      BY <2>3, <3>1
    <3>4. EngineOK'
      BY <2>5, <3>2, <3>3 DEF EngineOK
    <3>5. MaskIn' = 1 /\ MaskIn = 2
      BY <1>1, <2>5, <3>1, <3>2, <3>3, <3>4, MaskInFacts, MaskInFactsNext
    <3> QED  BY <1>1, <2>1, <3>4, <3>5
  <2>6. CASE state = "IDLE" /\ done
    <3>1. state' = "IDLE" /\ key_valid'
      BY <2>2, <2>6 DEF EngineOK, Aes!Tick, Aes!FinishKey,
         Aes!Work, Aes!Finish, Aes!Rest, Aes!busy
    <3>2. /\ inflight' \in BOOLEAN /\ ~inflight'
          /\ result_valid' \in BOOLEAN /\ result_valid'
      BY <2>3, <2>6
    <3>3. EngineOK'
      BY <2>6, <3>1, <3>2 DEF EngineOK
    <3>4. MaskIn' = 0 /\ MaskIn = 1
      BY <1>1, <2>6, <3>2, <3>3, MaskInFacts, MaskInFactsNext
    <3> QED  BY <1>1, <2>1, <3>3, <3>4
  <2> QED  BY <1>1, <2>4, <2>5, <2>6 DEF EngineOK
<1>2. CASE ~inflight
  <2>1. /\ inflight' \in BOOLEAN /\ (inflight' <=> issue(ready))
        /\ result_valid' \in BOOLEAN /\ (result_valid' <=> result_valid /\ ~ready)
    BY <1>2, Zenon DEF Run, HoldMask, capture, issue
  <2>2. CASE issue(ready)
    <3>1. /\ state = "IDLE" /\ state' = "RUN" /\ left' = LATENCY /\ ~done'
          /\ ~last_issued /\ (~result_valid \/ ready) /\ key_valid'
      BY <2>2 DEF Run, IssueBlock, issue, Aes!Start,
         Aes!block_ready, Aes!busy
    <3>2. /\ inflight' \in BOOLEAN /\ inflight'
          /\ result_valid' \in BOOLEAN /\ ~result_valid'
      BY <2>1, <2>2, <3>1
    <3>3. EngineOK'
      BY ONLY <3>1, <3>2, MaskFacts DEF EngineOK
    <3>4. MaskIn' = LATENCY + 1
      BY <3>1, <3>2, <3>3, MaskInFactsNext
    <3>5. ~result_valid => MaskIn = LATENCY + 2
      BY <1>2, <3>1, MaskInFacts
    <3> QED  BY <3>1, <3>3, <3>4, <3>5, MaskInFacts
  <2>3. CASE ~issue(ready) /\ state = "KEY_READY"
    <3>1. Aes!Tick /\ last_issued' = last_issued
      BY <2>3 DEF Run, IssueBlock
    <3>2. state' = "IDLE" /\ key_valid'
      BY <2>3, <3>1 DEF Aes!Tick, Aes!FinishKey,
         Aes!Work, Aes!Finish, Aes!Rest, Aes!busy
    <3>3. /\ inflight' \in BOOLEAN /\ ~inflight'
          /\ result_valid' \in BOOLEAN /\ ~result_valid' /\ ~result_valid
      BY <2>1, <2>3 DEF EngineOK
    <3>4. EngineOK'
      BY <3>2, <3>3 DEF EngineOK
    <3>5. /\ last_issued => MaskIn = 0 /\ MaskIn' = 0
          /\ ~last_issued => MaskIn = LATENCY + 3 /\ MaskIn' = LATENCY + 2
      BY <1>2, <2>3, <3>1, <3>2, <3>3, <3>4, MaskInFacts, MaskInFactsNext
    <3> QED  BY <3>1, <3>3, <3>4, <3>5
  <2>4. CASE ~issue(ready) /\ state = "IDLE"
    <3>1. Aes!Tick /\ last_issued' = last_issued
      BY <2>4 DEF Run, IssueBlock
    <3>2. state' = "IDLE" /\ key_valid' /\ key_valid
      BY <2>4, <3>1 DEF EngineOK, Aes!Tick, Aes!FinishKey,
         Aes!Work, Aes!Finish, Aes!Rest, Aes!busy
    <3>3. last_issued \/ (result_valid /\ ~ready)
      BY <1>2, <2>4, <3>2 DEF Run, issue, Aes!block_ready, Aes!busy
    <3>4. /\ inflight' \in BOOLEAN /\ ~inflight'
          /\ result_valid' \in BOOLEAN /\ (result_valid' <=> result_valid /\ ~ready)
      BY <2>1, <2>4
    <3>5. EngineOK'
      BY <3>2, <3>4 DEF EngineOK
    <3>6. MaskIn = 0
      BY <1>2, <3>3, MaskInFacts
    <3>7. MaskIn' = 0
      BY <3>1, <3>3, <3>4, <3>5, MaskInFactsNext
    <3> QED  BY <1>2, <3>1, <3>4, <3>5, <3>6, <3>7 DEF EngineOK
  <2> QED  BY <1>2, <2>2, <2>3, <2>4 DEF EngineOK
<1> QED  BY <1>1, <1>2 DEF EngineOK

(* Which keystream byte is next, and how long until the next mask. *)
StreamOK ==
  /\ EngineOK
  /\ current_valid \in BOOLEAN
  /\ byte_index \in 0..BLOCK_BYTES - 1

MaskNearer == MaskIn' = IF MaskIn = 0 THEN 0 ELSE MaskIn - 1

MaskFollows == current_valid' /\ byte_index' = 0 /\ MaskIn' \in Nat /\ MaskIn' <= LATENCY + 1

LEMMA BlockFacts == BLOCK_BYTES \in Nat /\ BLOCK_BYTES >= 1
  BY StreamAssumption

(* The byte side of the cipher at a running edge. *)
LEMMA StreamRuns ==
  ASSUME StreamOK, NEW used \in BOOLEAN, used => current_valid, StreamRun(used)
  PROVE  /\ StreamOK'
         /\ ~current_valid /\ MaskIn > 0 => ~current_valid' /\ MaskNearer
         /\ ~current_valid /\ result_valid => MaskFollows
         /\ current_valid /\ ~used =>
              current_valid' /\ byte_index' = byte_index /\ MaskNearer
         /\ used /\ byte_index # BLOCK_BYTES - 1 =>
              current_valid' /\ byte_index' = byte_index + 1 /\ MaskNearer
         /\ used /\ byte_index = BLOCK_BYTES - 1 /\ result_valid => MaskFollows
         /\ used /\ byte_index = BLOCK_BYTES - 1 /\ ~result_valid =>
              ~current_valid' /\ MaskNearer
         /\ ~result_valid /\ ~inflight /\ last_issued =>
              ~result_valid' /\ ~inflight' /\ last_issued'
         /\ ~result_valid /\ ~inflight /\ last_issued /\ ~current_valid => ~current_valid'
<1> DEFINE ready == next_ready(used)
<1>1. ready \in BOOLEAN /\ (ready <=> ~current_valid \/ (used /\ byte_index = BLOCK_BYTES - 1))
  BY Zenon DEF StreamOK, next_ready
<1>2. EngineOK /\ Run(ready) /\ MaskIn \in Nat /\ (result_valid => MaskIn = 0)
  BY MaskInFacts DEF StreamOK, StreamRun
<1>3. \/ result_valid /\ ready /\ LoadMask
      \/ ~(result_valid /\ ready) /\ used /\ ShiftMask
      \/ ~(result_valid /\ ready) /\ ~used /\ UNCHANGED streamRegs
  BY DEF StreamRun
<1> HIDE DEF ready
<1>4. /\ EngineOK'
      /\ ~(result_valid /\ ready) => MaskNearer
      /\ result_valid /\ ready => MaskIn' \in Nat /\ MaskIn' <= LATENCY + 1
      /\ ~result_valid /\ ~inflight /\ last_issued =>
           ~result_valid' /\ ~inflight' /\ last_issued'
  BY <1>1, <1>2, EngineRuns, MaskFacts DEF MaskNearer
<1>5. CASE result_valid /\ ready /\ LoadMask
  <2>1. current_valid' \in BOOLEAN /\ current_valid' /\ byte_index' = 0
    BY <1>5 DEF LoadMask
  <2>2. StreamOK'
    BY <1>4, <2>1, BlockFacts DEF StreamOK
  <2>3. MaskFollows
    BY <1>4, <1>5, <2>1 DEF MaskFollows
  <2> QED  BY <1>1, <1>2, <1>4, <1>5, <2>2, <2>3
<1>6. CASE ~(result_valid /\ ready) /\ used /\ ShiftMask
  <2>1. /\ current_valid' \in BOOLEAN /\ (current_valid' <=> byte_index # BLOCK_BYTES - 1)
        /\ byte_index' = IF byte_index = BLOCK_BYTES - 1 THEN 0 ELSE byte_index + 1
    BY <1>6 DEF ShiftMask
  <2>2. byte_index' \in 0..BLOCK_BYTES - 1
    BY <2>1, BlockFacts DEF StreamOK
  <2>3. StreamOK'
    BY <1>4, <2>1, <2>2 DEF StreamOK
  <2>4. current_valid /\ MaskNearer
    BY <1>4, <1>6
  <2> QED  BY <1>1, <1>4, <1>6, <2>1, <2>3, <2>4
<1>7. CASE ~(result_valid /\ ready) /\ ~used /\ UNCHANGED streamRegs
  <2>1. current_valid' = current_valid /\ byte_index' = byte_index
    BY <1>7 DEF streamRegs
  <2>2. StreamOK'
    BY <1>4, <2>1 DEF StreamOK
  <2> QED  BY <1>1, <1>4, <1>7, <2>1, <2>2
<1> QED  BY <1>3, <1>5, <1>6, <1>7

(* Edges until a keystream byte is offered: none if one is, or if none is  *)
(* left.                                                                   *)
ByteIn == IF current_valid \/ stream_exhausted THEN 0 ELSE MaskIn + 1

StallInv == active => StreamOK

(* The edge at which a result is captured. *)
LEMMA MaskArrives ==
  ASSUME EngineOK, NEW ready \in BOOLEAN, Run(ready), MaskIn = 1
  PROVE  result_valid'
<1>1. inflight /\ done
  BY MaskInFacts, MaskFacts DEF EngineOK
<1> QED  BY <1>1, Zenon DEF Run, HoldMask, capture

LEMMA InitStall == StreamInit => StallInv
  BY DEF StreamInit, Init, StallInv

LEMMA StallKept == StallInv /\ UNCHANGED streamVars => StallInv'
  BY DEF StallInv, streamVars, streamRegs, vars, maskRegs, Aes!vars, StreamOK, EngineOK

(* A context begins with nothing held and its key on the way. *)
LEMMA ConfigureStall ==
  ASSUME StreamIInv, NEW k \in Key, NEW n \in Nonce, NEW c \in Counter, StreamConfigure(k, n, c)
  PROVE  StallInv' /\ ~active
<1>1. ~active /\ ~inflight' /\ ~result_valid' /\ inflight' \in BOOLEAN /\ result_valid' \in BOOLEAN
      /\ state' = "KEY_READY" /\ current_valid' = FALSE /\ byte_index' = 0
  BY DEF StreamConfigure, Configure, cfg_ready, NothingIssued, Discard, Aes!LoadKey
<1>2. 0 \in 0..BLOCK_BYTES - 1
  BY BlockFacts
<1> QED  BY <1>1, <1>2 DEF StallInv, StreamOK, EngineOK

LEMMA RunStall ==
  ASSUME StreamIInv, StallInv, NEW in_valid \in BOOLEAN, NEW out_ready \in BOOLEAN,
         StreamRun(transfer(in_valid, out_ready))
  PROVE  StallInv' /\ (ByteIn > 0 => ByteIn' = ByteIn - 1)
<1> DEFINE used == transfer(in_valid, out_ready)
<1>1. used \in BOOLEAN /\ (used => current_valid) /\ active
  BY DEF transfer, StreamRun, Run, StreamIInv, LanesOK, IInv, TypeOK
<1>2. StreamRun(used) /\ StreamOK
  BY <1>1 DEF StallInv
<1> HIDE DEF used
<1>3. /\ StreamOK'
      /\ ~current_valid /\ MaskIn > 0 => ~current_valid' /\ MaskNearer
      /\ ~current_valid /\ result_valid => MaskFollows
  BY <1>1, <1>2, StreamRuns
<1>4. ASSUME ByteIn > 0 PROVE ByteIn' = ByteIn - 1
  <2>1. ~current_valid /\ ~stream_exhausted /\ ByteIn = MaskIn + 1 /\ MaskIn \in Nat
    BY <1>2, <1>4, MaskInFacts DEF ByteIn, StreamOK
  <2>2. CASE MaskIn > 0
    <3>1. ~current_valid' /\ MaskIn' = MaskIn - 1
      BY <1>3, <2>1, <2>2 DEF MaskNearer
    <3>2. ~stream_exhausted'
      <4>1. CASE MaskIn = 1
        <5>1. next_ready(used) \in BOOLEAN /\ Run(next_ready(used))
          BY <1>1, <1>2 DEF next_ready, StreamRun, StreamOK
        <5>2. result_valid'
          BY <1>2, <4>1, <5>1, MaskArrives DEF StreamOK
        <5> QED  BY <5>2 DEF stream_exhausted, exhausted
      <4>2. CASE MaskIn > 1
        <5>1. MaskIn' # 0
          BY <2>1, <3>1, <4>2
        <5> QED  BY <1>3, <5>1, MaskInFactsNext DEF stream_exhausted, exhausted, StreamOK
      <4> QED  BY <2>1, <2>2, <4>1, <4>2
    <3>3. ByteIn' = MaskIn' + 1
      BY <3>1, <3>2 DEF ByteIn
    <3> QED  BY <2>1, <3>1, <3>3
  <2>3. CASE MaskIn = 0
    <3>1. result_valid
      BY <1>1, <1>2, <2>1, <2>3, MaskInFacts, MaskFacts
      DEF stream_exhausted, exhausted, StreamOK, EngineOK
    <3>2. ByteIn' = 0
      BY <1>3, <2>1, <3>1 DEF MaskFollows, ByteIn
    <3> QED  BY <2>1, <2>3, <3>2
  <2> QED  BY <2>1, <2>2, <2>3
<1> QED  BY <1>3, <1>4 DEF StallInv

LEMMA NextStall == StreamIInv /\ StallInv /\ [StreamNext]_streamVars => StallInv'
<1> SUFFICES ASSUME StreamIInv, StallInv, [StreamNext]_streamVars PROVE StallInv'
  OBVIOUS
<1>1. CASE StreamAbort \/ StreamReset \/ StreamIdle
  <2>1. ~active'
    BY <1>1 DEF StreamAbort, Abort, StreamReset, Reset, Close, StreamIdle, Idle, maskRegs
  <2> QED  BY <2>1 DEF StallInv
<1>2. CASE UNCHANGED streamVars
  BY <1>2, StallKept
<1> QED
  BY <1>1, <1>2, ConfigureStall, RunStall DEF StreamNext, StreamClock

LEMMA StepNearer ==
  StreamIInv /\ StallInv /\ [StreamNext]_streamVars =>
    [active /\ active' /\ ByteIn > 0 => ByteIn' = ByteIn - 1]_streamVars
<1> SUFFICES ASSUME StreamIInv, StallInv, StreamNext, active, active', ByteIn > 0
             PROVE  ByteIn' = ByteIn - 1
  OBVIOUS
<1>1. ~StreamAbort /\ ~StreamReset /\ ~StreamIdle
  BY DEF StreamAbort, Abort, StreamReset, Reset, Close, StreamIdle, Idle
<1> QED  BY <1>1, ConfigureStall, RunStall DEF StreamNext, StreamClock

(* What ByteKeepsComing rests on, in edges: from its configuration on, an  *)
(* active context (aes128_ctr_stream over aes128_ctr_mask) is at most      *)
(* LATENCY + 4 edges away from a keystream byte, and every edge, whatever  *)
(* its inputs, brings it one nearer until a byte is offered or none is     *)
(* left.                                                                   *)
THEOREM StallIsBounded ==
  StreamSpec => /\ [](active => ByteIn \in 0 .. LATENCY + 4)
                /\ [][active /\ active' /\ ByteIn > 0 => ByteIn' = ByteIn - 1]_streamVars
<1>1. StreamSpec => [](StreamIInv /\ StallInv)
  BY InitStreamIInv, NextStreamIInv, InitStall, NextStall, PTL DEF StreamSpec
<1>2. StallInv => (active => ByteIn \in 0 .. LATENCY + 4)
  <2> SUFFICES ASSUME StreamOK PROVE ByteIn \in 0 .. LATENCY + 4
    BY DEF StallInv
  <2> QED  BY MaskInFacts, MaskFacts DEF StreamOK, ByteIn
<1> QED  BY <1>1, <1>2, StepNearer, PTL DEF StreamSpec

(* Edges until the engine is free for another key or block. *)
DrainIn == CASE state = "IDLE" -> 0 [] state = "KEY_READY" -> 1 [] OTHER -> left

LEMMA DrainType ==
  ASSUME IInv PROVE DrainIn \in 0 .. LATENCY /\ (cfg_ready <=> ~active /\ DrainIn = 0)
BY MaskFacts DEF IInv, TypeOK, Aes!TypeOK, EngineLoaded, DrainIn, cfg_ready, Aes!key_ready, Aes!busy

LEMMA TickDrains ==
  ASSUME IInv, Aes!Tick, DrainIn > 0 PROVE DrainIn' = DrainIn - 1
<1> USE DEF IInv, TypeOK, Aes!TypeOK, EngineLoaded, DrainIn
<1>1. CASE Aes!FinishKey
  BY <1>1 DEF Aes!FinishKey
<1>2. CASE Aes!Work
  BY <1>2 DEF Aes!Work
<1>3. CASE Aes!Finish
  BY <1>3 DEF Aes!Finish
<1>4. CASE Aes!Rest
  BY <1>4 DEF Aes!Rest, Aes!busy
<1> QED  BY <1>1, <1>2, <1>3, <1>4 DEF Aes!Tick

LEMMA StepDrains ==
  IInv /\ [Next]_vars => [~active' /\ DrainIn > 0 => DrainIn' < DrainIn]_vars
<1> SUFFICES ASSUME IInv, Next, ~active', DrainIn > 0 PROVE DrainIn' < DrainIn
  OBVIOUS
<1>1. DrainIn \in Nat
  BY DrainType, MaskFacts
<1>2. CASE Abort \/ Idle
  BY <1>1, <1>2, TickDrains DEF Abort, Idle
<1>3. CASE Reset
  BY <1>1, <1>3 DEF Reset, Aes!Reset, DrainIn
<1>4. /\ \A k \in Key, n \in Nonce, c \in Counter : ~Configure(k, n, c)
      /\ \A mask_ready \in BOOLEAN : ~Run(mask_ready)
  BY DEF Configure, Run
<1> QED  BY <1>2, <1>3, <1>4 DEF Next, Clock

(* What AbortDrains rests on, in edges: however a context ended, the       *)
(* engine (aes128_core under aes128_ctr_mask) is free after at most        *)
(* LATENCY edges, each one nearer, whether idle, aborted again or reset;   *)
(* and the generator accepts a configuration exactly then.                 *)
THEOREM DrainIsBounded ==
  Spec => /\ [](DrainIn \in 0 .. LATENCY /\ (cfg_ready <=> ~active /\ DrainIn = 0))
          /\ [][~active' /\ DrainIn > 0 => DrainIn' < DrainIn]_vars
<1>1. Spec => []IInv
  BY InitIInv, NextIInv, PTL DEF Spec
<1>2. IInv => DrainIn \in 0 .. LATENCY /\ (cfg_ready <=> ~active /\ DrainIn = 0)
  BY DrainType
<1> QED  BY <1>1, <1>2, StepDrains, PTL DEF Spec
=============================================================================
