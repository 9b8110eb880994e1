--------------------------- MODULE ContextTop_proofs ---------------------------
(***************************************************************************)
(* The bridge, then the board around it, for every FIFO depth, frame       *)
(* length, serial timing, cipher and build.                                *)
(*                                                                         *)
(* The bridge: a session that has ended leaves nothing anywhere in the     *)
(* datapath, no byte is refused by the FIFO behind the bridge's back, what *)
(* is under way between receiver and line stays in order, and each byte    *)
(* leaves combined with the keystream byte of its place (CtrChannel).  The *)
(* argument is one inductive invariant in four parts: control and cipher   *)
(* agree (CipherFollows), what is in the datapath belongs to an active     *)
(* session (DatapathEmpty, FaultEnds), the occupancy registers bound each  *)
(* other (FifoOK, PeakKept), and a byte read from the FIFO has a place to  *)
(* go to (HoldOK).                                                         *)
(*                                                                         *)
(* The board: wherever a byte of the session can be, the context is marked *)
(* as used, so KEY0 cannot load it again; so no keystream byte is ever     *)
(* combined with two bytes.                                                *)
(*                                                                         *)
(* The pace: what waits would be on the line in time whatever it is that   *)
(* the next byte waits for (KeepsPace), so the FIFO has room for every     *)
(* byte as long as there is keystream.  And however the bytes come, the    *)
(* byte held is only so many edges away from the line (LeavesIn).          *)
(***************************************************************************)
EXTENDS ContextTop, SequenceTheorems, TLAPS

(* The cipher has a context exactly when the bridge has a session, and     *)
(* nothing prepared without one.  The baseline build never starts it.      *)
CipherFollows ==
  /\ ENABLE_AES \in BOOLEAN
  /\ ENABLE_AES => cipher_active = active
  /\ ~ENABLE_AES \/ ~active => ~current_valid /\ ~result_valid /\ ~inflight

DatapathEmpty ==
  ~active => /\ queue = <<>> /\ ~rd_valid /\ ~held_valid
             /\ ~tx_busy /\ ~rx_done /\ ~rx_framing_error

FaultEnds == active \in BOOLEAN /\ (faulted => ~active)

(* The queue fits its RAM, a received byte is one, and each peak bounds    *)
(* what it is the peak of.                                                 *)
FifoOK ==
  /\ queue \in Seq(Byte)
  /\ rx_done => rx_data \in Byte
  /\ high_water \in Nat /\ Len(queue) <= high_water /\ high_water <= DEPTH
  /\ fifo_high_water \in Nat /\ fifo_high_water <= DEPTH
  /\ FifoNeverDrops

PeakKept == OverflowSeenInPeak

(* A byte read from the FIFO has its place in the holding register kept    *)
(* free for it, and what is read or held is a byte.                        *)
HoldOK ==
  /\ rd_valid => read_pending /\ ~held_valid /\ rd_data \in Byte
  /\ held_valid \in BOOLEAN /\ (held_valid => held_data \in Byte)

BridgeIInv ==
  /\ CipherFollows
  /\ DatapathEmpty
  /\ FaultEnds
  /\ FifoOK
  /\ PeakKept
  /\ HoldOK

LEMMA DepthFacts == DEPTH \in Nat /\ DEPTH > 0
<1> QED  BY BridgeAssumption

LEMMA FrameFacts == FRAME \in Nat /\ FRAME > 0
<1> QED  BY BridgeAssumption

(* Reading a byte leaves one byte less. *)
LEMMA TailFacts ==
  ASSUME NEW q \in Seq(Byte)
  PROVE  /\ Len(q) \in Nat
         /\ q # <<>> => Tail(q) \in Seq(Byte) /\ Len(Tail(q)) = Len(q) - 1 /\ Len(q) > 0
<1>1. Len(q) \in Nat
  BY LenProperties
<1>2. ASSUME q # <<>>
      PROVE  Tail(q) \in Seq(Byte) /\ Len(Tail(q)) = Len(q) - 1 /\ Len(q) > 0
  <2>1. Tail(q) \in Seq(Byte) /\ Len(Tail(q)) = Len(q) - 1
    BY <1>2, HeadTailProperties
  <2>2. Len(q) \in Nat \ {0}
    BY <1>2, EmptySeq
  <2> QED  BY <2>1, <2>2
<1> QED  BY <1>1, <1>2

LEMMA InitBridge == Init => BridgeIInv
<1> SUFFICES ASSUME Init PROVE BridgeIInv
  OBVIOUS
<1>1. CipherFollows
  BY BridgeAssumption
  DEF Init, CipherFollows, Cipher!StreamInit, Cipher!Init
<1>2. DatapathEmpty /\ FaultEnds /\ PeakKept
  BY DEF Init, DatapathEmpty, FaultEnds, faulted, PeakKept, OverflowSeenInPeak,
         Rx!Init, Fifo!Init, Tx!Init
<1>3. FifoOK
  BY DepthFacts DEF Init, FifoOK, FifoNeverDrops, Rx!Init, Fifo!Init
<1>4. HoldOK
  BY DEF Init, HoldOK, Fifo!Init
<1> QED  BY <1>1, <1>2, <1>3, <1>4 DEF BridgeIInv
-----------------------------------------------------------------------------
(* The cipher's side of an edge that ends a session. *)
LEMMA AbortedCipher ==
  ASSUME CipherFollows, CipherAbort, active' = FALSE
  PROVE  CipherFollows'
<1>1. ENABLE_AES' = ENABLE_AES
  BY DEF CipherAbort
<1>2. CASE ENABLE_AES
  <2>1. Cipher!StreamAbort
    BY <1>2 DEF CipherAbort
  <2>2. /\ cipher_active' = FALSE /\ current_valid' = FALSE
        /\ result_valid' = FALSE /\ inflight' = FALSE
    BY <2>1 DEF Cipher!StreamAbort, Cipher!Discard, Cipher!Abort, Cipher!Close,
                Cipher!NothingIssued
  <2> QED  BY <1>1, <2>2 DEF CipherFollows
<1>3. CASE ~ENABLE_AES
  BY <1>1, <1>3 DEF CipherFollows, CipherAbort, cipher
<1> QED  BY <1>2, <1>3 DEF CipherFollows

LEMMA ConfiguredCipher ==
  ASSUME CipherFollows, active' = TRUE,
         NEW k \in Key, NEW n \in Nonce, NEW c \in 0..COUNTER_MAX,
         CipherConfigure(k, n, c)
  PROVE  CipherFollows'
<1>1. ENABLE_AES' = ENABLE_AES
  BY DEF CipherConfigure
<1>2. CASE ENABLE_AES
  <2>1. Cipher!StreamConfigure(k, n, c)
    BY <1>2 DEF CipherConfigure
  <2>2. cipher_active' = TRUE
    BY <2>1 DEF Cipher!StreamConfigure, Cipher!Configure
  <2> QED  BY <1>1, <1>2, <2>2 DEF CipherFollows
<1>3. CASE ~ENABLE_AES
  <2>1. UNCHANGED cipher
    BY <1>3, Zenon DEF CipherConfigure
  <2> QED  BY <1>1, <1>3, <2>1 DEF CipherFollows, cipher
<1> QED  BY <1>2, <1>3 DEF CipherFollows

LEMMA RunningCipher ==
  ASSUME CipherFollows, active, UNCHANGED active, NEW used, CipherRun(used)
  PROVE  CipherFollows'
<1>1. ENABLE_AES' = ENABLE_AES
  BY DEF CipherRun
<1>2. CASE ENABLE_AES
  <2>1. Cipher!StreamRun(used)
    BY <1>2 DEF CipherRun
  <2>2. cipher_active' = cipher_active
    BY <2>1 DEF Cipher!StreamRun, Cipher!Run
  <2> QED  BY <1>1, <1>2, <2>2 DEF CipherFollows
<1>3. CASE ~ENABLE_AES
  <2>1. UNCHANGED cipher
    BY <1>3, Zenon DEF CipherRun
  <2> QED  BY <1>1, <1>3, <2>1 DEF CipherFollows, cipher
<1> QED  BY <1>2, <1>3 DEF CipherFollows

LEMMA IdleCipher ==
  ASSUME CipherFollows, UNCHANGED active, CipherIdle
  PROVE  CipherFollows'
<1>1. ENABLE_AES' = ENABLE_AES
  BY DEF CipherIdle
<1>2. CASE ENABLE_AES
  <2>1. Cipher!StreamIdle
    BY <1>2 DEF CipherIdle
  <2>2. UNCHANGED <<cipher_active, current_valid, result_valid, inflight>>
    BY <2>1 DEF Cipher!StreamIdle, Cipher!Idle, Cipher!maskRegs, Cipher!streamRegs
  <2> QED  BY <1>1, <2>2 DEF CipherFollows
<1>3. CASE ~ENABLE_AES
  BY <1>1, <1>3 DEF CipherFollows, CipherIdle, cipher
<1> QED  BY <1>2, <1>3 DEF CipherFollows
-----------------------------------------------------------------------------
(* datapath_rst leaves nothing behind, whatever the FIFO was asked. *)
LEMMA ResetDatapath ==
  ASSUME NEW read, DatapathReset(read)
  PROVE  /\ queue' = <<>> /\ ~rd_valid' /\ held_valid' = FALSE /\ ~tx_busy'
         /\ ~rx_done' /\ ~rx_framing_error'
         /\ high_water' = 0 /\ ~overflow'
<1> QED  BY DEF DatapathReset, Rx!Reset, Fifo!Forget, Tx!Reset

LEMMA EmptiedFifo ==
  ASSUME NEW read, DatapathReset(read),
         fifo_high_water' \in Nat, fifo_high_water' <= DEPTH
  PROVE  DatapathEmpty' /\ FifoOK' /\ HoldOK'
<1>1. /\ queue' = <<>> /\ ~rd_valid' /\ held_valid' = FALSE /\ ~tx_busy'
      /\ ~rx_done' /\ ~rx_framing_error'
      /\ high_water' = 0 /\ ~overflow'
  BY ResetDatapath
<1>2. Len(queue') = 0 /\ queue' \in Seq(Byte)
  BY <1>1, EmptySeq
<1>3. DatapathEmpty' /\ HoldOK'
  BY <1>1 DEF DatapathEmpty, HoldOK
<1>4. FifoOK'
  BY <1>1, <1>2, DepthFacts DEF FifoOK, FifoNeverDrops
<1> QED  BY <1>3, <1>4

(* The copied peak is the larger of itself and the FIFO's. *)
LEMMA PeakGrows ==
  ASSUME FifoOK, KeepHighWater
  PROVE  /\ fifo_high_water' \in Nat /\ fifo_high_water' <= DEPTH
         /\ fifo_high_water <= fifo_high_water'
         /\ active => high_water <= fifo_high_water'
<1> QED  BY DepthFacts DEF FifoOK, KeepHighWater

LEMMA AbortBridge == BridgeIInv /\ Abort => BridgeIInv'
<1> SUFFICES ASSUME BridgeIInv, Abort PROVE BridgeIInv'
  OBVIOUS
<1>1. CipherFollows'
  BY AbortedCipher DEF BridgeIInv, Abort
<1>2. DatapathEmpty' /\ FifoOK' /\ HoldOK'
  BY EmptiedFifo, PeakGrows DEF BridgeIInv, Abort
<1>3. FaultEnds' /\ PeakKept'
  BY DEF Abort, FaultEnds, faulted, PeakKept, OverflowSeenInPeak
<1> QED  BY <1>1, <1>2, <1>3 DEF BridgeIInv

(* A fault is only seen in a session, so none was latched; a byte refused  *)
(* is one that found the FIFO, and with it the FIFO's peak, at DEPTH.      *)
LEMMA FaultBridge == BridgeIInv /\ Fault => BridgeIInv'
<1> SUFFICES ASSUME BridgeIInv, Fault PROVE BridgeIInv'
  OBVIOUS
<1>1. active /\ ~overflow_sticky
  BY DEF BridgeIInv, FaultEnds, faulted, Fault, fault_now, overflow_now, framing_now
<1>2. CipherFollows'
  BY AbortedCipher DEF BridgeIInv, Fault
<1>3. DatapathEmpty' /\ FifoOK' /\ HoldOK'
  BY EmptiedFifo, PeakGrows DEF BridgeIInv, Fault
<1>4. FaultEnds'
  BY DEF Fault, FaultEnds
<1>5. PeakKept'
  <2> SUFFICES ASSUME overflow_sticky' PROVE fifo_high_water' = DEPTH
    BY DEF PeakKept, OverflowSeenInPeak
  <2>1. Len(queue) = DEPTH
    BY <1>1 DEF Fault, overflow_now
  <2>2. FifoOK /\ KeepHighWater
    BY DEF BridgeIInv, Fault
  <2>3. high_water = DEPTH
    BY <2>1, <2>2, DepthFacts DEF FifoOK
  <2> QED  BY <1>1, <2>2, <2>3, PeakGrows, DepthFacts
<1> QED  BY <1>2, <1>3, <1>4, <1>5 DEF BridgeIInv

LEMMA ConfigureBridge ==
  ASSUME BridgeIInv, NEW k \in Key, NEW n \in Nonce, NEW c \in 0..COUNTER_MAX,
         Configure(k, n, c)
  PROVE  BridgeIInv'
<1>1. /\ ~faulted /\ active' = TRUE /\ fifo_high_water' = 0
      /\ UNCHANGED <<overflow_sticky, framing_sticky, datapath>>
  BY DEF Configure, cfg_ready
<1>2. CipherFollows'
  BY <1>1, ConfiguredCipher DEF BridgeIInv, Configure
<1>3. UNCHANGED <<queue, high_water, overflow, rx_done, rx_data>>
  BY <1>1 DEF datapath, rxVars, fifoVars
<1>4. FifoOK'
  BY <1>1, <1>3, DepthFacts DEF BridgeIInv, FifoOK, FifoNeverDrops
<1>5. DatapathEmpty' /\ FaultEnds' /\ PeakKept'
  BY <1>1 DEF DatapathEmpty, FaultEnds, faulted, PeakKept, OverflowSeenInPeak
<1>6. HoldOK'
  BY <1>1 DEF BridgeIInv, HoldOK, datapath, holding, fifoVars
<1> QED  BY <1>2, <1>4, <1>5, <1>6 DEF BridgeIInv

(* The byte the receiver presents at this edge, if any. *)
Arrived == IF rx_done THEN <<rx_data>> ELSE <<>>

(* The FIFO at an edge without a fault: a byte that finds it full is met   *)
(* by a read, so Accepted agrees with the bridge's own overflow_now.       *)
LEMMA RunFifo ==
  ASSUME FifoOK, active, ~fault_now(FALSE), Rx!Clock,
         Fifo!Clock(rx_done, rx_data, read_request(FALSE))
  PROVE  /\ queue' \in Seq(Byte)
         /\ high_water' \in Nat /\ Len(queue') <= high_water' /\ high_water' <= DEPTH
         /\ ~overflow'
         /\ rx_done' => rx_data' \in Byte
         /\ queue' = Fifo!Remaining(read_request(FALSE)) \o Arrived
<1> DEFINE read == read_request(FALSE)
           rest == Fifo!Remaining(read)
<1>1. queue \in Seq(Byte) /\ Len(queue) \in Nat /\ Len(queue) <= DEPTH
  BY DepthFacts DEF FifoOK
<1>2. rest \in Seq(Byte) /\ Len(rest) \in Nat /\ Len(rest) <= DEPTH
  <2>1. CASE read /\ queue # <<>>
    <3>1. rest = Tail(queue)
      BY <2>1 DEF Fifo!Remaining
    <3> HIDE DEF rest
    <3> QED  BY <1>1, <2>1, <3>1, TailFacts, DepthFacts
  <2>2. CASE ~(read /\ queue # <<>>)
    <3>1. rest = queue
      BY <2>2 DEF Fifo!Remaining
    <3> QED  BY <1>1, <3>1
  <2> QED  BY <2>1, <2>2
<1>3. rx_done => Len(rest) < DEPTH
  <2> SUFFICES ASSUME rx_done PROVE Len(rest) < DEPTH
    OBVIOUS
  <2>1. read \/ Len(queue) # DEPTH
    BY DEF fault_now, overflow_now
  <2>2. CASE read
    <3>1. queue # <<>>
      BY <2>2 DEF read_request
    <3>2. rest = Tail(queue)
      BY <2>2, <3>1 DEF Fifo!Remaining
    <3> HIDE DEF rest
    <3> QED  BY <1>1, <3>1, <3>2, TailFacts, DepthFacts
  <2>3. CASE ~read
    <3>1. rest = queue
      BY <2>3 DEF Fifo!Remaining
    <3> HIDE DEF rest, read
    <3> QED  BY <1>1, <2>1, <2>3, <3>1, DepthFacts
  <2> QED  BY <2>2, <2>3
<1>4. Fifo!Accepted(rx_done, read) <=> rx_done
  BY <1>3 DEF Fifo!Accepted
<1>5. ~overflow'
  BY <1>4 DEF Fifo!Clock
<1>6. queue' \in Seq(Byte) /\ Len(queue') \in Nat /\ Len(queue') <= DEPTH
  <2> HIDE DEF rest
  <2>1. CASE rx_done
    <3>1. queue' = Append(rest, rx_data) /\ rx_data \in Byte
      BY <1>4, <2>1 DEF Fifo!Clock, rest, FifoOK
    <3> QED  BY <1>2, <1>3, <2>1, <3>1, DepthFacts
  <2>2. CASE ~rx_done
    <3>1. queue' = rest
      BY <1>4, <2>2 DEF Fifo!Clock, rest
    <3> QED  BY <1>2, <3>1
  <2> QED  BY <2>1, <2>2
<1>7. high_water' = Fifo!Larger(high_water, Len(queue'))
  BY DEF Fifo!Clock
<1>8. high_water' \in Nat /\ Len(queue') <= high_water' /\ high_water' <= DEPTH
  BY <1>6, <1>7, DepthFacts DEF FifoOK, Fifo!Larger
<1>9. rx_done' => rx_data' \in Byte
  BY DEF Rx!Clock, Rx!Receive, Rx!FramingError, Rx!Quiet
<1>10. queue' = rest \o Arrived
  <2>1. CASE rx_done
    <3>1. queue' = Append(rest, rx_data) /\ Arrived = <<rx_data>> /\ rx_data \in Byte
      BY <1>4, <2>1 DEF Fifo!Clock, FifoOK, Arrived
    <3> HIDE DEF rest
    <3> QED  BY <1>2, <3>1, AppendIsConcat
  <2>2. CASE ~rx_done
    <3>1. queue' = rest /\ Arrived = <<>>
      BY <1>4, <2>2 DEF Fifo!Clock, Arrived
    <3> HIDE DEF rest
    <3> QED  BY <1>2, <3>1, ConcatEmptySeq
  <2> QED  BY <2>1, <2>2
<1> QED  BY <1>5, <1>6, <1>8, <1>9, <1>10

LEMMA RunBridge ==
  ASSUME BridgeIInv, NEW tx_enable \in BOOLEAN, Run(tx_enable)
  PROVE  BridgeIInv'
<1>1. active /\ UNCHANGED <<active, overflow_sticky, framing_sticky>>
  BY DEF Run
<1>2. CipherFollows'
  <2> DEFINE used == tx_start(tx_enable)
  <2>1. CipherRun(used) /\ CipherFollows /\ active /\ UNCHANGED active
    BY <1>1 DEF Run, BridgeIInv
  <2> HIDE DEF used
  <2> QED  BY <2>1, RunningCipher
<1>3. FifoOK'
  <2>1. FifoOK /\ ~fault_now(FALSE) /\ Rx!Clock /\ KeepHighWater
        /\ Fifo!Clock(rx_done, rx_data, read_request(FALSE))
    BY DEF Run, BridgeIInv
  <2> QED  BY <1>1, <2>1, RunFifo, PeakGrows DEF FifoOK, FifoNeverDrops
<1>4. DatapathEmpty' /\ FaultEnds'
  BY <1>1 DEF BridgeIInv, DatapathEmpty, FaultEnds, faulted
<1>5. PeakKept'
  BY <1>1 DEF BridgeIInv, FaultEnds, faulted, PeakKept, OverflowSeenInPeak
<1>6. HoldOK'
  <2> USE DEF BridgeIInv, HoldOK, Run, Hold
  <2>1. rd_valid' = (read_request(FALSE) /\ queue # <<>>)
    BY DEF Fifo!Clock
  <2>2. CASE rd_valid'
    <3>1. read_request(FALSE) /\ queue # <<>>
      BY <2>1, <2>2
    <3>2. ~held_valid /\ ~read_pending /\ ~rd_valid
      BY <3>1 DEF read_request
    <3>3. rd_data' = Head(queue)
      BY <3>1 DEF Fifo!Clock, Fifo!ReadPort
    <3>4. rd_data' \in Byte
      BY <3>1, <3>3, HeadTailProperties DEF FifoOK
    <3> QED  BY <2>2, <3>1, <3>2, <3>4
  <2>3. CASE ~rd_valid'
    BY <2>3
  <2> QED  BY <2>2, <2>3
<1> QED  BY <1>2, <1>3, <1>4, <1>5, <1>6 DEF BridgeIInv

LEMMA IdleBridge == BridgeIInv /\ Idle => BridgeIInv'
<1> SUFFICES ASSUME BridgeIInv, Idle PROVE BridgeIInv'
  OBVIOUS
<1>1. UNCHANGED <<control, datapath>>
  BY DEF Idle
<1>2. CipherFollows'
  BY <1>1, IdleCipher DEF BridgeIInv, Idle, control
<1> QED  BY <1>1, <1>2 DEF BridgeIInv, DatapathEmpty, FaultEnds, faulted, FifoOK,
            HoldOK, FifoNeverDrops, PeakKept, OverflowSeenInPeak,
            control, datapath, holding, rxVars, fifoVars, txVars

LEMMA ResetBridge == BridgeIInv /\ Reset => BridgeIInv'
<1> SUFFICES ASSUME BridgeIInv, Reset PROVE BridgeIInv'
  OBVIOUS
<1>1. CipherFollows'
  BY DEF BridgeIInv, CipherFollows, Reset, Cipher!StreamReset, Cipher!Discard,
         Cipher!Reset, Cipher!Close, Cipher!NothingIssued
<1>2. DatapathEmpty' /\ FifoOK' /\ HoldOK'
  <2>1. DatapathReset(FALSE) /\ fifo_high_water' = 0
    BY DEF Reset
  <2>2. fifo_high_water' \in Nat /\ fifo_high_water' <= DEPTH
    BY <2>1, DepthFacts
  <2> QED  BY <2>1, <2>2, EmptiedFifo
<1>3. FaultEnds' /\ PeakKept'
  BY DEF Reset, FaultEnds, faulted, PeakKept, OverflowSeenInPeak
<1> QED  BY <1>1, <1>2, <1>3 DEF BridgeIInv

LEMMA NextBridge == BridgeIInv /\ [Next]_vars => BridgeIInv'
<1> SUFFICES ASSUME BridgeIInv, [Next]_vars PROVE BridgeIInv'
  OBVIOUS
<1>1. CASE Abort
  BY <1>1, AbortBridge
<1>2. CASE Fault
  BY <1>2, FaultBridge
<1>3. ASSUME NEW k \in Key, NEW n \in Nonce, NEW c \in 0..COUNTER_MAX, Configure(k, n, c)
      PROVE  BridgeIInv'
  BY <1>3, ConfigureBridge
<1>4. ASSUME NEW tx_enable \in BOOLEAN, Run(tx_enable)
      PROVE  BridgeIInv'
  BY <1>4, RunBridge
<1>5. CASE Idle
  BY <1>5, IdleBridge
<1>6. CASE Reset
  BY <1>6, ResetBridge
<1>7. CASE UNCHANGED vars
  BY <1>7 DEF vars, control, datapath, holding, rxVars, fifoVars, txVars, cipher,
              BridgeIInv, CipherFollows, DatapathEmpty, FaultEnds, faulted, FifoOK,
              HoldOK, FifoNeverDrops, PeakKept, OverflowSeenInPeak
<1> QED  BY <1>1, <1>2, <1>3, <1>4, <1>5, <1>6, <1>7 DEF Next, Clock

(* Whatever ends a session, at any edge and with any bytes under way, ends *)
(* it everywhere: the FIFO, the holding register, the transmitter and the  *)
(* cipher are left empty, and a latched fault keeps the session closed.    *)
(* uart_ctr_bridge.sv: datapath_rst, cipher_abort and the sticky flags.    *)
THEOREM SessionInvariant == Spec => []SessionsAgree
<1>1. BridgeIInv => SessionsAgree
  BY DEF BridgeIInv, CipherFollows, DatapathEmpty, FaultEnds, SessionsAgree
<1> QED  BY <1>1, InitBridge, NextBridge, PTL DEF Spec

(* The bridge's overflow test, made from its own signals in the cycle of   *)
(* the write, is exact: the FIFO never refuses a byte the bridge believes  *)
(* stored.                                                                 *)
THEOREM OverflowIsExact == Spec => []FifoNeverDrops
<1>1. BridgeIInv => FifoNeverDrops
  BY DEF BridgeIInv, FifoOK
<1> QED  BY <1>1, InitBridge, NextBridge, PTL DEF Spec

(* An overflow that ended a session is seen as a full FIFO in the peak     *)
(* that outlives it, although FIFO and FIFO peak are reset by the edge     *)
(* that latches the fault.                                                 *)
THEOREM OverflowIsSeen == Spec => []OverflowSeenInPeak
<1>1. BridgeIInv => OverflowSeenInPeak
  BY DEF BridgeIInv, PeakKept
<1> QED  BY <1>1, InitBridge, NextBridge, PTL DEF Spec
-----------------------------------------------------------------------------
(* Reading the FIFO moves its oldest byte towards the line without changing *)
(* what is under way.                                                      *)
LEMMA HeadThenTail ==
  ASSUME NEW q \in Seq(Byte), q # <<>>
  PROVE  <<Head(q)>> \o Tail(q) = q
<1>1. Head(q) \in Byte /\ Tail(q) \in Seq(Byte) /\ Len(Tail(q)) = Len(q) - 1
      /\ Len(q) \in Nat /\ Len(q) > 0
      /\ \A i \in 1..Len(Tail(q)) : Tail(q)[i] = q[i + 1]
  BY HeadTailProperties, TailFacts
<1>2. <<Head(q)>> \in Seq(Byte) /\ Len(<<Head(q)>>) = 1 /\ <<Head(q)>>[1] = q[1]
  BY <1>1
<1> DEFINE h == <<Head(q)>>
           t == Tail(q)
<1> HIDE DEF h, t
<1>3. h \o t \in Seq(Byte) /\ Len(h \o t) = Len(q)
      /\ \A i \in 1..Len(q) : (h \o t)[i] = IF i <= 1 THEN h[1] ELSE t[i - 1]
  BY <1>1, <1>2, ConcatProperties DEF h, t
<1>4. \A i \in 1..Len(q) : (h \o t)[i] = q[i]
  BY <1>1, <1>2, <1>3 DEF h, t
<1>5. h \o t = q
  BY <1>3, <1>4, SeqEqual
<1> QED  BY <1>5 DEF h, t

LEMMA FirstThenRest ==
  ASSUME NEW q \in Seq(Byte), NEW b \in Byte
  PROVE  /\ <<b>> \o q \in Seq(Byte) /\ <<b>> \o q # <<>>
         /\ Head(<<b>> \o q) = b /\ Tail(<<b>> \o q) = q
<1>1. <<b>> \in Seq(Byte) /\ Len(<<b>>) = 1 /\ <<b>>[1] = b
  OBVIOUS
<1> DEFINE h == <<b>>
           s == h \o q
<1>2. /\ s \in Seq(Byte) /\ Len(s) = 1 + Len(q) /\ Len(q) \in Nat
      /\ \A i \in 1..1 + Len(q) : s[i] = IF i <= 1 THEN h[i] ELSE q[i - 1]
  <2> HIDE DEF h
  <2> QED  BY <1>1, ConcatProperties, LenProperties DEF h
<1> HIDE DEF s
<1>3. s # <<>> /\ Len(Tail(s)) = Len(q) /\ Tail(s) \in Seq(Byte)
      /\ \A i \in 1..Len(q) : Tail(s)[i] = s[i + 1]
  <2>1. s # <<>>
    BY <1>2, EmptySeq
  <2> QED  BY <1>2, <2>1, HeadTailProperties
<1>4. \A i \in 1..Len(q) : Tail(s)[i] = q[i]
  BY <1>2, <1>3
<1>5. Tail(s) = q
  BY <1>3, <1>4, SeqEqual
<1>6. Head(s) = b
  BY <1>1, <1>2 DEF h
<1> QED  BY <1>2, <1>3, <1>5, <1>6 DEF s, h

LEMMA InTransitParts ==
  ASSUME BridgeIInv
  PROVE  /\ queue \in Seq(Byte)
         /\ held_valid => InTransit = <<held_data>> \o queue
         /\ rd_valid => InTransit = <<rd_data>> \o queue
         /\ ~held_valid /\ ~rd_valid => InTransit = queue
         /\ InTransit \in Seq(Byte)
<1>1. queue \in Seq(Byte) /\ HoldOK
  BY DEF BridgeIInv, FifoOK
<1>2. CASE held_valid
  <2>1. ~rd_valid /\ held_data \in Byte
    BY <1>1, <1>2 DEF HoldOK
  <2>2. InTransit = <<held_data>> \o <<>> \o queue
    BY <1>2, <2>1 DEF InTransit
  <2>3. <<held_data>> \in Seq(Byte)
    BY <2>1
  <2>4. InTransit = <<held_data>> \o queue
    BY <2>2, <2>3, ConcatEmptySeq
  <2> QED  BY <1>1, <1>2, <2>1, <2>4, FirstThenRest
<1>3. CASE ~held_valid
  <2> DEFINE r == IF rd_valid THEN <<rd_data>> ELSE <<>>
  <2>1. r \in Seq(Byte)
    BY <1>1 DEF HoldOK
  <2>2. InTransit = <<>> \o r \o queue
    BY <1>3 DEF InTransit
  <2>3. InTransit = r \o queue
    <3> HIDE DEF r
    <3> QED  BY <2>1, <2>2, ConcatEmptySeq
  <2>4. CASE rd_valid
    <3>1. rd_data \in Byte /\ InTransit = <<rd_data>> \o queue
      BY <1>1, <2>3, <2>4 DEF HoldOK
    <3> QED  BY <1>1, <1>3, <2>4, <3>1, FirstThenRest
  <2>5. CASE ~rd_valid
    <3>1. InTransit = <<>> \o queue
      BY <2>3, <2>5
    <3>2. InTransit = queue
      BY <1>1, <3>1, ConcatEmptySeq
    <3> QED  BY <1>1, <1>3, <2>5, <3>2
  <2> QED  BY <2>4, <2>5
<1> QED  BY <1>2, <1>3

LEMMA InTransitPartsNext ==
  BridgeIInv' => /\ held_valid' => InTransit' = <<held_data'>> \o queue'
                 /\ rd_valid' => InTransit' = <<rd_data'>> \o queue'
                 /\ ~held_valid' /\ ~rd_valid' => InTransit' = queue'
<1> DEFINE Parts == /\ held_valid => InTransit = <<held_data>> \o queue
                    /\ rd_valid => InTransit = <<rd_data>> \o queue
                    /\ ~held_valid /\ ~rd_valid => InTransit = queue
<1>1. BridgeIInv => Parts
  BY InTransitParts
<1> HIDE DEF Parts
<1>2. BridgeIInv' => Parts'
  BY <1>1, PTL
<1> QED  BY <1>2 DEF Parts

LEMMA NoFrameBegins ==
  ASSUME NEW tx_enable \in BOOLEAN, Run(tx_enable), ~tx_start(tx_enable)
  PROVE  tx_busy' => tx_busy /\ tx_frame' = tx_frame
<1>1. Tx!Tick
  BY DEF Run, Transmit
<1> QED  BY <1>1 DEF Tx!Tick, Tx!Send, Tx!EndFrame, Tx!Rest

(* One edge of a session, seen from the bytes alone: the oldest byte under *)
(* way is put on a free line, or no frame begins; the byte that arrives    *)
(* joins the end.                                                          *)
OldestSent ==
  /\ InTransit # <<>>
  /\ ~tx_busy /\ tx_busy'
  /\ tx_frame'[1] = Head(InTransit)
  /\ InTransit' = Tail(InTransit) \o Arrived

NoneSent ==
  /\ tx_busy' => tx_busy /\ tx_frame' = tx_frame
  /\ InTransit' = InTransit \o Arrived

LEMMA RunInOrder ==
  ASSUME BridgeIInv, NEW tx_enable \in BOOLEAN, Run(tx_enable)
  PROVE  /\ tx_start(tx_enable) => OldestSent /\ held_data = Head(InTransit)
         /\ ~tx_start(tx_enable) => NoneSent
<1> DEFINE start == tx_start(tx_enable)
           read  == read_request(FALSE)
           rest  == Fifo!Remaining(read)
<1>1. BridgeIInv'
  BY RunBridge
<1>2. HoldOK /\ queue \in Seq(Byte)
  BY DEF BridgeIInv, FifoOK
<1>3. queue' = rest \o Arrived
  <2>1. /\ FifoOK /\ active /\ ~fault_now(FALSE) /\ Rx!Clock
        /\ Fifo!Clock(rx_done, rx_data, read_request(FALSE))
    BY DEF BridgeIInv, Run
  <2> QED  BY <2>1, RunFifo
<1>4. Arrived \in Seq(Byte)
  BY DEF BridgeIInv, FifoOK, Arrived
<1>5. /\ rd_valid' = (read /\ queue # <<>>)
      /\ rd_data' = IF read /\ queue # <<>> THEN Head(queue) ELSE rd_data
      /\ held_valid' = (rd_valid \/ (held_valid /\ ~start))
      /\ held_data' = IF rd_valid THEN rd_data ELSE held_data
  BY DEF Run, Hold, Fifo!Clock, Fifo!ReadPort
<1>6. start => held_valid
  BY DEF tx_start, Cipher!transfer
<1>7. read => queue # <<>> /\ ~held_valid /\ ~rd_valid
  <2>1. read => queue # <<>> /\ ~held_valid /\ ~read_pending
    BY DEF read_request
  <2> QED  BY <1>2, <2>1 DEF HoldOK
<1>8. ~read => rest = queue
  BY DEF Fifo!Remaining
<1>9. CASE held_valid
  <2>1. ~rd_valid /\ ~read /\ held_data \in Byte
    BY <1>2, <1>7, <1>9 DEF HoldOK
  <2>2. InTransit = <<held_data>> \o queue /\ queue' = queue \o Arrived
    BY <1>3, <1>8, <1>9, <2>1, InTransitParts
  <2>3. ~rd_valid' /\ held_data' = held_data /\ held_valid' = ~start
    BY <1>5, <1>9, <2>1
  <2>4. CASE start
    <3>1. InTransit' = queue'
      BY <1>1, <2>3, <2>4, InTransitPartsNext
    <3>2. InTransit # <<>> /\ Head(InTransit) = held_data /\ Tail(InTransit) = queue
      BY <1>2, <2>1, <2>2, FirstThenRest
    <3>3. Tx!Start(output_data)
      BY <2>4 DEF Run, Transmit
    <3>4. ~tx_busy /\ tx_busy' /\ tx_frame' = output_data
      BY <3>3 DEF Tx!Start
    <3>5. tx_frame'[1] = held_data
      BY <3>4 DEF output_data
    <3> QED  BY <2>2, <2>4, <3>1, <3>2, <3>4, <3>5 DEF OldestSent
  <2>5. CASE ~start
    <3>1. InTransit' = <<held_data>> \o (queue \o Arrived)
      BY <1>1, <2>2, <2>3, <2>5, InTransitPartsNext
    <3>2. InTransit' = InTransit \o Arrived
      <4>1. <<held_data>> \in Seq(Byte)
        BY <2>1
      <4> QED  BY <1>2, <1>4, <2>2, <3>1, <4>1, ConcatAssociative
    <3> QED  BY <2>5, <3>2, NoFrameBegins DEF NoneSent
  <2> QED  BY <2>4, <2>5
<1>10. CASE rd_valid
  <2>1. ~held_valid /\ ~read /\ ~start /\ rd_data \in Byte
    BY <1>2, <1>6, <1>7, <1>10 DEF HoldOK
  <2>2. InTransit = <<rd_data>> \o queue /\ queue' = queue \o Arrived
    BY <1>3, <1>8, <1>10, <2>1, InTransitParts
  <2>3. held_valid' /\ held_data' = rd_data
    BY <1>5, <1>10
  <2>4. InTransit' = <<rd_data>> \o (queue \o Arrived)
    BY <1>1, <2>2, <2>3, InTransitPartsNext
  <2>5. InTransit' = InTransit \o Arrived
    <3>1. <<rd_data>> \in Seq(Byte)
      BY <2>1
    <3> QED  BY <1>2, <1>4, <2>2, <2>4, <3>1, ConcatAssociative
  <2> QED  BY <2>1, <2>5, NoFrameBegins DEF NoneSent
<1>11. CASE ~held_valid /\ ~rd_valid
  <2>1. ~start /\ ~held_valid' /\ InTransit = queue
    BY <1>5, <1>6, <1>11, InTransitParts
  <2>2. InTransit' = InTransit \o Arrived
    <3>1. CASE read
      <4>1. queue # <<>> /\ rd_valid' /\ rd_data' = Head(queue) /\ rest = Tail(queue)
        BY <1>5, <1>7, <3>1 DEF Fifo!Remaining
      <4> HIDE DEF read, rest
      <4>2. InTransit' = <<Head(queue)>> \o (Tail(queue) \o Arrived)
        BY <1>1, <1>3, <4>1, InTransitPartsNext
      <4>3. Head(queue) \in Byte /\ Tail(queue) \in Seq(Byte)
        BY <1>2, <4>1, HeadTailProperties
      <4>4. <<Head(queue)>> \in Seq(Byte)
        BY <4>3
      <4>5. InTransit' = (<<Head(queue)>> \o Tail(queue)) \o Arrived
        BY <1>4, <4>2, <4>3, <4>4, ConcatAssociative
      <4> QED  BY <1>2, <2>1, <4>1, <4>5, HeadThenTail
    <3>2. CASE ~read
      <4>1. ~rd_valid' /\ queue' = queue \o Arrived
        BY <1>3, <1>5, <1>8, <3>2
      <4> QED  BY <1>1, <2>1, <4>1, InTransitPartsNext
    <3> QED  BY <3>1, <3>2
  <2> QED  BY <2>1, <2>2, NoFrameBegins DEF NoneSent
<1> QED  BY <1>9, <1>10, <1>11

(* No byte received in a session is lost, duplicated or overtaken between  *)
(* the receiver and the line, through FIFO, read port and holding          *)
(* register, for every depth, pacing of the line and stall of the cipher:  *)
(* the bytes sent are those received, in the order of arrival.  This is    *)
(* what ImplementsChannel says of the bytes; which keystream byte each one *)
(* meets is the cipher's side.                                             *)
BytesInOrder == [][active /\ active' => OldestSent \/ NoneSent]_vars

THEOREM BytesKeepOrder == Spec => BytesInOrder
<1>1. BridgeIInv /\ [Next]_vars => [active /\ active' => OldestSent \/ NoneSent]_vars
  <2> SUFFICES ASSUME BridgeIInv, Next, active, active' PROVE OldestSent \/ NoneSent
    OBVIOUS
  <2>1. \E tx_enable \in BOOLEAN : Run(tx_enable)
    BY DEF Next, Clock, Abort, Fault, Configure, cfg_ready, Idle, Reset
  <2> QED  BY <2>1, RunInOrder
<1> QED  BY <1>1, InitBridge, NextBridge, PTL DEF Spec, BytesInOrder
-----------------------------------------------------------------------------
(* What the bridge asks of the cipher at an edge, with the FIFO's output   *)
(* and the state of the line for a handshake, is a step of its own         *)
(* specification.                                                          *)
LEMMA CipherSteps == BridgeIInv /\ [Next]_vars => [Cipher!StreamNext]_(Cipher!streamVars)
<1> SUFFICES ASSUME BridgeIInv, [Next]_vars
             PROVE  Cipher!StreamNext \/ UNCHANGED Cipher!streamVars
  OBVIOUS
<1>1. UNCHANGED cipher => UNCHANGED Cipher!streamVars
  BY DEF cipher, Cipher!streamVars, Cipher!streamRegs, Cipher!vars, Cipher!maskRegs,
         Cipher!Aes!vars
<1>2. CASE Abort \/ Fault
  <2>1. Cipher!StreamAbort \/ UNCHANGED cipher
    BY <1>2 DEF Abort, Fault, CipherAbort
  <2> QED  BY <1>1, <2>1 DEF Cipher!StreamNext, Cipher!StreamClock
<1>3. ASSUME NEW k \in Key, NEW n \in Nonce, NEW c \in 0..COUNTER_MAX, Configure(k, n, c)
      PROVE  Cipher!StreamNext \/ UNCHANGED Cipher!streamVars
  <2>1. CipherConfigure(k, n, c)
    BY <1>3 DEF Configure
  <2>2. Cipher!StreamConfigure(k, n, c) \/ UNCHANGED cipher
    BY <2>1, Zenon DEF CipherConfigure
  <2>3. c \in Cipher!Counter
    BY DEF Cipher!Counter
  <2> QED  BY <1>1, <2>2, <2>3, Zenon DEF Cipher!StreamNext, Cipher!StreamClock
<1>4. ASSUME NEW tx_enable \in BOOLEAN, Run(tx_enable)
      PROVE  Cipher!StreamNext \/ UNCHANGED Cipher!streamVars
  <2>1. CipherRun(tx_start(tx_enable))
    BY <1>4 DEF Run
  <2>2. CASE ~ENABLE_AES
    BY <1>1, <2>1, <2>2, Zenon DEF CipherRun
  <2>3. CASE ENABLE_AES
    <3>1. Cipher!StreamRun(tx_start(tx_enable))
      BY <2>1, <2>3, Zenon DEF CipherRun
    <3>2. tx_start(tx_enable) = Cipher!transfer(held_valid, output_ready(tx_enable))
      BY <2>3 DEF tx_start
    <3>3. Cipher!StreamRun(Cipher!transfer(held_valid, output_ready(tx_enable)))
      BY <3>1, <3>2
    <3>4. held_valid \in BOOLEAN
      BY DEF BridgeIInv, HoldOK
    <3>5. output_ready(tx_enable) \in BOOLEAN
      BY DEF output_ready
    <3> QED  BY <3>3, <3>4, <3>5, Zenon DEF Cipher!StreamNext, Cipher!StreamClock
  <2> QED  BY <2>2, <2>3
<1>5. CASE Idle
  <2>1. Cipher!StreamIdle \/ UNCHANGED cipher
    BY <1>5 DEF Idle, CipherIdle
  <2> QED  BY <1>1, <2>1 DEF Cipher!StreamNext, Cipher!StreamClock
<1>6. CASE Reset
  BY <1>6 DEF Reset, Cipher!StreamNext
<1>7. CASE UNCHANGED vars
  BY <1>1, <1>7 DEF vars
<1> QED  BY <1>2, <1>3, <1>4, <1>5, <1>6, <1>7 DEF Next, Clock

(* The bridge, in either build, drives the cipher only in the ways         *)
(* CtrStream allows: its configurations come when the cipher is ready, its *)
(* transfers are handshakes, its aborts cancel.  So what CtrStream_proofs  *)
(* establishes of StreamSpec (bytes in place, the keystream implemented)   *)
(* holds of the cipher inside the bridge.                                  *)
THEOREM BridgeDrivesCipher == Spec => Cipher!StreamSpec
<1>1. Init => Cipher!StreamInit
  BY DEF Init
<1> QED  BY <1>1, InitBridge, NextBridge, CipherSteps, PTL DEF Spec, Cipher!StreamSpec
-----------------------------------------------------------------------------
(* The theorems of CtrStream_proofs, with the bridge's names for the        *)
(* registers of its cipher.                                                *)
Facts == INSTANCE CtrStream_proofs WITH active <- cipher_active

LEMMA CipherAssumptions ==
  /\ /\ COUNTER_MAX \in Nat
     /\ LATENCY \in Nat \ {0}
     /\ Enc \in [Key \X Facts!Block -> Value]
     /\ Clear \notin Key \cup Nonce \cup Facts!Block \cup Value
  /\ /\ BLOCK_BYTES \in Nat \ {0}
     /\ Clear \notin Value \X (0 .. BLOCK_BYTES - 1)
<1>1. Facts!Block = Nonce \X (0 .. COUNTER_MAX)
  BY DEF Facts!Block, Facts!Counter
<1> QED  BY <1>1, BridgeAssumption

(* Cipher is the module the proofs are about. *)
LEMMA SameState ==
  /\ Cipher!Position = Facts!Position
  /\ Cipher!mask_byte = Facts!mask_byte
  BY DEF Cipher!Position, Cipher!NextMask, Cipher!Unissued, Cipher!mask_byte,
         Facts!Position, Facts!NextMask, Facts!Unissued, Facts!mask_byte

LEMMA SameStateNext == Cipher!Position' = Facts!Position'
  BY DEF Cipher!Position, Cipher!NextMask, Cipher!Unissued,
         Facts!Position, Facts!NextMask, Facts!Unissued

LEMMA SameInit == Cipher!StreamInit <=> Facts!StreamInit
  BY DEF Cipher!StreamInit, Cipher!Zeros, Cipher!Lane, Cipher!Init, Cipher!Aes!Init,
         Facts!StreamInit, Facts!Zeros, Facts!Lane, Facts!Init, Facts!Aes!Init

LEMMA SameEngine ==
  /\ Cipher!Aes!Tick <=> Facts!Aes!Tick
  /\ Cipher!Aes!Reset <=> Facts!Aes!Reset
  /\ \A k : Cipher!Aes!LoadKey(k) <=> Facts!Aes!LoadKey(k)
  /\ \A b : Cipher!Aes!Start(b) <=> Facts!Aes!Start(b)
  /\ Cipher!Aes!block_ready <=> Facts!Aes!block_ready
  /\ Cipher!Aes!key_ready <=> Facts!Aes!key_ready
  BY Zenon
  DEF Cipher!Aes!Tick, Cipher!Aes!FinishKey, Cipher!Aes!Work, Cipher!Aes!Finish,
      Cipher!Aes!Rest, Cipher!Aes!Reset, Cipher!Aes!LoadKey, Cipher!Aes!Start,
      Cipher!Aes!block_ready, Cipher!Aes!key_ready, Cipher!Aes!busy,
      Facts!Aes!Tick, Facts!Aes!FinishKey, Facts!Aes!Work, Facts!Aes!Finish,
      Facts!Aes!Rest, Facts!Aes!Reset, Facts!Aes!LoadKey, Facts!Aes!Start,
      Facts!Aes!block_ready, Facts!Aes!key_ready, Facts!Aes!busy

LEMMA SameRun == \A used : Cipher!StreamRun(used) <=> Facts!StreamRun(used)
<1>1. \A used : Cipher!next_ready(used) = Facts!next_ready(used)
  BY Zenon DEF Cipher!next_ready, Facts!next_ready
<1>2. \A ready : Cipher!Run(ready) <=> Facts!Run(ready)
  <2>1. \A ready : Cipher!issue(ready) <=> Facts!issue(ready)
    BY SameEngine, Zenon DEF Cipher!issue, Facts!issue
  <2>2. \A ready : Cipher!IssueBlock(ready) <=> Facts!IssueBlock(ready)
    BY <2>1, SameEngine, Zenon DEF Cipher!IssueBlock, Facts!IssueBlock
  <2>3. \A ready : Cipher!HoldMask(ready) <=> Facts!HoldMask(ready)
    <3> TAKE ready
    <3> QED  BY SameEngine
    DEF Cipher!HoldMask, Facts!HoldMask, Cipher!issue, Facts!issue, Cipher!capture, Facts!capture,
        Cipher!consume, Facts!consume
  <2> QED  BY <2>2, <2>3, Zenon DEF Cipher!Run, Facts!Run
<1>3. Cipher!LoadMask <=> Facts!LoadMask
  BY Zenon DEF Cipher!LoadMask, Facts!LoadMask, Cipher!Lanes, Facts!Lanes, Cipher!Lane, Facts!Lane
<1>4. Cipher!ShiftMask <=> Facts!ShiftMask
  BY Zenon DEF Cipher!ShiftMask, Facts!ShiftMask, Cipher!Shifted, Facts!Shifted, Cipher!Lane, Facts!Lane
<1> QED
  BY <1>1, <1>2, <1>3, <1>4, Zenon
  DEF Cipher!StreamRun, Facts!StreamRun, Cipher!streamRegs, Facts!streamRegs

LEMMA SameStep ==
  [Cipher!StreamNext]_(Cipher!streamVars) => [Facts!StreamNext]_(Facts!streamVars)
<1>1. UNCHANGED Cipher!streamVars => UNCHANGED Facts!streamVars
  BY DEF Cipher!streamVars, Cipher!streamRegs, Cipher!vars, Cipher!maskRegs, Cipher!Aes!vars,
         Facts!streamVars, Facts!streamRegs, Facts!vars, Facts!maskRegs, Facts!Aes!vars
<1>2. Cipher!Discard <=> Facts!Discard
  BY Zenon DEF Cipher!Discard, Facts!Discard, Cipher!Zeros, Facts!Zeros,
               Cipher!Lane, Facts!Lane
<1>3. Cipher!Close <=> Facts!Close
  BY Zenon DEF Cipher!Close, Facts!Close, Cipher!NothingIssued, Facts!NothingIssued
<1>4. Cipher!StreamAbort <=> Facts!StreamAbort
  BY <1>2, <1>3, SameEngine, Zenon
  DEF Cipher!StreamAbort, Facts!StreamAbort, Cipher!Abort, Facts!Abort
<1>5. Cipher!StreamReset <=> Facts!StreamReset
  BY <1>2, <1>3, SameEngine, Zenon
  DEF Cipher!StreamReset, Facts!StreamReset, Cipher!Reset, Facts!Reset
<1>6. \A k, n, c : Cipher!StreamConfigure(k, n, c) <=> Facts!StreamConfigure(k, n, c)
  BY <1>2, SameEngine, Zenon
  DEF Cipher!StreamConfigure, Facts!StreamConfigure, Cipher!Configure, Facts!Configure,
      Cipher!cfg_ready, Facts!cfg_ready, Cipher!NothingIssued, Facts!NothingIssued
<1>7. Cipher!StreamIdle <=> Facts!StreamIdle
  BY SameEngine, Zenon
  DEF Cipher!StreamIdle, Facts!StreamIdle, Cipher!Idle, Facts!Idle,
      Cipher!streamRegs, Facts!streamRegs, Cipher!maskRegs, Facts!maskRegs
<1>8. \A v, r : Cipher!transfer(v, r) = Facts!transfer(v, r)
  BY Zenon DEF Cipher!transfer, Facts!transfer
<1>9. Cipher!StreamNext => Facts!StreamNext
  <2> SUFFICES ASSUME Cipher!StreamNext PROVE Facts!StreamNext
    OBVIOUS
  <2>1. CASE \E k \in Key, n \in Nonce, c \in Cipher!Counter : Cipher!StreamConfigure(k, n, c)
    <3>1. \E k \in Key, n \in Nonce, c \in Facts!Counter : Facts!StreamConfigure(k, n, c)
      BY <1>6, <2>1, Zenon DEF Cipher!Counter, Facts!Counter
    <3> QED  BY <3>1, Zenon DEF Facts!StreamNext, Facts!StreamClock
  <2>2. ASSUME NEW v \in BOOLEAN, NEW r \in BOOLEAN,
               Cipher!StreamRun(Cipher!transfer(v, r))
        PROVE  Facts!StreamNext
    <3>1. Facts!StreamRun(Facts!transfer(v, r))
      BY <1>8, <2>2, SameRun
    <3> QED  BY <3>1, Zenon DEF Facts!StreamNext, Facts!StreamClock
  <2>3. CASE Cipher!StreamAbort \/ Cipher!StreamIdle \/ Cipher!StreamReset
    BY <1>4, <1>5, <1>7, <2>3, Zenon DEF Facts!StreamNext, Facts!StreamClock
  <2> QED  BY <2>1, <2>2, <2>3, Zenon DEF Cipher!StreamNext, Cipher!StreamClock
<1> QED  BY <1>1, <1>9, Zenon
-----------------------------------------------------------------------------
(* The line is at rest between frames, and a frame on it has an end. *)
LineAtRest ==
  /\ ~tx_busy => tx_frame = Clear /\ tx_left = 0
  /\ tx_busy => tx_left \in 1 .. FRAME

(* The baseline build has no cipher to speak of: nothing ever starts it. *)
BaselineCold ==
  ~ENABLE_AES => /\ master_key = Clear /\ nonce = Clear
                 /\ byte_index = 0 /\ Cipher!Position = 0

ChannelIInv ==
  /\ BridgeIInv
  /\ Facts!StreamIInv
  /\ LineAtRest
  /\ BaselineCold

LEMMA ColdCipher ==
  ASSUME Cipher!StreamInit
  PROVE  /\ master_key = Clear /\ nonce = Clear
         /\ byte_index = 0 /\ Cipher!Position = 0
  BY DEF Cipher!StreamInit, Cipher!Init, Cipher!Aes!Init, Cipher!Position,
         Cipher!NextMask, Cipher!Unissued

LEMMA InitChannelIInv == Init => ChannelIInv
<1> SUFFICES ASSUME Init PROVE ChannelIInv
  OBVIOUS
<1>1. Cipher!StreamInit
  BY DEF Init
<1>2. Facts!StreamIInv
  BY <1>1, SameInit, CipherAssumptions, Facts!InitStreamIInv
<1>3. LineAtRest
  BY DEF Init, Tx!Init, LineAtRest
<1> QED  BY <1>1, <1>2, <1>3, InitBridge, ColdCipher DEF ChannelIInv, BaselineCold

(* What a reset or an abort leaves of the cipher's context. *)
LEMMA ClosedCipher ==
  ASSUME Cipher!StreamReset \/ Cipher!StreamAbort
  PROVE  /\ nonce' = Clear /\ byte_index' = 0 /\ Cipher!Position' = 0
         /\ Cipher!StreamReset => master_key' = Clear
  BY DEF Cipher!StreamReset, Cipher!StreamAbort, Cipher!Discard, Cipher!Reset,
         Cipher!Abort, Cipher!Close, Cipher!NothingIssued, Cipher!Aes!Reset,
         Cipher!Position, Cipher!NextMask, Cipher!Unissued

LEMMA StillCipher ==
  ASSUME UNCHANGED cipher
  PROVE  /\ master_key' = master_key /\ nonce' = nonce /\ byte_index' = byte_index
         /\ Cipher!Position' = Cipher!Position
  BY DEF cipher, Cipher!Position, Cipher!NextMask, Cipher!Unissued

(* In the baseline every edge leaves the cipher alone, or resets it. *)
LEMMA BaselineEdge ==
  ASSUME ~ENABLE_AES, [Next]_vars
  PROVE  ENABLE_AES' = ENABLE_AES /\ (UNCHANGED cipher \/ Cipher!StreamReset)
<1>1. CASE Abort \/ Fault
  BY <1>1 DEF Abort, Fault, CipherAbort
<1>2. ASSUME NEW k \in Key, NEW n \in Nonce, NEW c \in 0..COUNTER_MAX, Configure(k, n, c)
      PROVE  ENABLE_AES' = ENABLE_AES /\ UNCHANGED cipher
  <2>1. CipherConfigure(k, n, c)
    BY <1>2 DEF Configure
  <2> QED  BY <2>1, Zenon DEF CipherConfigure
<1>3. ASSUME NEW tx_enable \in BOOLEAN, Run(tx_enable)
      PROVE  ENABLE_AES' = ENABLE_AES /\ UNCHANGED cipher
  <2>1. CipherRun(tx_start(tx_enable))
    BY <1>3 DEF Run
  <2> QED  BY <2>1, Zenon DEF CipherRun
<1>4. CASE Idle
  BY <1>4 DEF Idle, CipherIdle
<1>5. CASE Reset
  BY <1>5 DEF Reset
<1>6. CASE UNCHANGED vars
  BY <1>6 DEF vars
<1> QED  BY <1>1, <1>2, <1>3, <1>4, <1>5, <1>6 DEF Next, Clock

LEMMA NextChannelIInv == ChannelIInv /\ [Next]_vars => ChannelIInv'
<1> SUFFICES ASSUME ChannelIInv, [Next]_vars PROVE ChannelIInv'
  OBVIOUS
<1>1. BridgeIInv /\ Facts!StreamIInv /\ LineAtRest /\ BaselineCold
  BY DEF ChannelIInv
<1>2. BridgeIInv'
  BY <1>1, NextBridge
<1>3. Facts!StreamIInv'
  <2>1. [Facts!StreamNext]_(Facts!streamVars)
    BY <1>1, CipherSteps, SameStep
  <2> QED  BY <1>1, <2>1, CipherAssumptions, Facts!NextStreamIInv
<1>4. LineAtRest'
  <2>1. CASE Abort \/ Fault \/ Reset
    BY <2>1 DEF Abort, Fault, Reset, DatapathReset, Tx!Reset, LineAtRest
  <2>2. ASSUME NEW tx_enable \in BOOLEAN, Run(tx_enable) PROVE LineAtRest'
    <3>1. (\E data : Tx!Start(data)) \/ Tx!Tick
      BY <2>2 DEF Run, Transmit
    <3>2. CASE \E data : Tx!Start(data)
      BY <3>2, FrameFacts DEF LineAtRest, Tx!Start
    <3>3. CASE Tx!Tick
      BY <1>1, <3>3, FrameFacts DEF LineAtRest, Tx!Tick, Tx!Send, Tx!EndFrame, Tx!Rest
    <3> QED  BY <3>1, <3>2, <3>3
  <2>3. CASE UNCHANGED datapath
    BY <1>1, <2>3 DEF datapath, txVars, LineAtRest
  <2>4. UNCHANGED vars => UNCHANGED datapath
    BY DEF vars
  <2> QED  BY <2>1, <2>2, <2>3, <2>4 DEF Next, Clock, Configure, Idle
<1>5. BaselineCold'
  <2>1. CASE ENABLE_AES
    <3>1. ENABLE_AES' = ENABLE_AES
      BY <2>1 DEF Next, Clock, Abort, Fault, Configure, Run, Idle, Reset, CipherAbort,
                  CipherConfigure, CipherRun, CipherIdle, vars
    <3> QED  BY <2>1, <3>1 DEF BaselineCold
  <2>2. CASE ~ENABLE_AES
    BY <1>1, <2>2, BaselineEdge, ClosedCipher, StillCipher DEF BaselineCold
  <2> QED  BY <2>1, <2>2
<1> QED  BY <1>2, <1>3, <1>4, <1>5 DEF ChannelIInv

LEMMA InitIsChannel == Init => Channel!Init
<1> SUFFICES ASSUME Init PROVE Channel!Init
  OBVIOUS
<1>1. /\ ENABLE_AES \in BOOLEAN /\ active = FALSE
      /\ tx_frame = Clear /\ tx_left = 0 /\ ~rx_done
  BY BridgeAssumption DEF Init, Tx!Init, Rx!Init
<1>2. nonce = Clear /\ byte_index = 0 /\ Cipher!Position = 0
  BY ColdCipher DEF Init
<1>3. InTransit = <<>>
  <2>1. BridgeIInv /\ ~held_valid /\ ~rd_valid /\ queue = <<>>
    BY InitBridge DEF Init, Fifo!Init
  <2> QED  BY <2>1, InTransitParts
<1> QED  BY <1>1, <1>2, <1>3 DEF Channel!Init

(* Whatever ends a session closes the channel. *)
LEMMA EndIsClose ==
  ASSUME ChannelIInv, Abort \/ Fault \/ Reset
  PROVE  Channel!Next
<1>1. BridgeIInv /\ BaselineCold
  BY DEF ChannelIInv
<1>2. active' = FALSE /\ ENABLE_AES' = ENABLE_AES
      /\ \E read : DatapathReset(read)
  BY DEF Abort, Fault, Reset, CipherAbort
<1>3. InTransit' = <<>> /\ tx_frame' = Clear /\ tx_left' = 0 /\ ~rx_done'
  <2>1. /\ held_valid' = FALSE /\ rd_valid' = FALSE /\ queue' = <<>>
        /\ tx_frame' = Clear /\ tx_left' = 0 /\ ~rx_done'
    BY <1>2 DEF DatapathReset, Fifo!Forget, Tx!Reset, Rx!Reset
  <2>2. BridgeIInv'
    BY <1>1, AbortBridge, FaultBridge, ResetBridge
  <2> QED  BY <2>1, <2>2, InTransitPartsNext
<1>4. nonce' = Clear /\ byte_index' = 0 /\ Cipher!Position' = 0
  <2>1. CASE Cipher!StreamReset \/ Cipher!StreamAbort
    BY <2>1, ClosedCipher
  <2>2. CASE ~ENABLE_AES /\ UNCHANGED cipher
    BY <1>1, <2>2, StillCipher DEF BaselineCold
  <2>3. Abort \/ Fault => Cipher!StreamAbort \/ (~ENABLE_AES /\ UNCHANGED cipher)
    BY DEF Abort, Fault, CipherAbort
  <2> QED  BY <2>1, <2>2, <2>3 DEF Reset
<1>5. Channel!Close
  BY <1>2, <1>3, <1>4 DEF Channel!Close
<1> QED  BY <1>2, <1>5 DEF Channel!Next

(* A configuration opens it, on the context that was given. *)
LEMMA ConfigureIsOpen ==
  ASSUME ChannelIInv, NEW k \in Key, NEW n \in Nonce, NEW c \in 0..COUNTER_MAX,
         Configure(k, n, c)
  PROVE  Channel!Next
<1>1. BridgeIInv /\ Facts!StreamIInv /\ BaselineCold
  BY DEF ChannelIInv
<1>2. /\ ~active /\ active' = TRUE /\ CipherConfigure(k, n, c)
      /\ UNCHANGED datapath
  BY DEF Configure, cfg_ready
<1>3. ENABLE_AES' = ENABLE_AES
  BY <1>2 DEF CipherConfigure
<1>4. /\ InTransit' = InTransit
      /\ UNCHANGED <<tx_frame, tx_left, rx_done, rx_data>>
  BY <1>2 DEF datapath, holding, fifoVars, txVars, rxVars, InTransit
<1>5. byte_index = 0
  <2>1. Facts!MaskBytesInPlace /\ ~current_valid
    BY <1>1, <1>2 DEF Facts!StreamIInv, BridgeIInv, CipherFollows
  <2> QED  BY <2>1 DEF Facts!MaskBytesInPlace
<1>6. Channel!Open(k, n, c)
  <2>1. CASE ENABLE_AES
    <3>1. Cipher!StreamConfigure(k, n, c)
      BY <1>2, <2>1, Zenon DEF CipherConfigure
    <3>2. master_key' = k /\ nonce' = n /\ Cipher!Position' = c /\ byte_index' = 0
      BY <3>1
      DEF Cipher!StreamConfigure, Cipher!Configure, Cipher!Discard,
          Cipher!NothingIssued, Cipher!Aes!LoadKey, Cipher!Position, Cipher!NextMask,
          Cipher!Unissued
    <3> QED  BY <1>2, <1>4, <1>5, <2>1, <3>2 DEF Channel!Open
  <2>2. CASE ~ENABLE_AES
    <3>1. UNCHANGED cipher
      BY <1>2, <2>2, Zenon DEF CipherConfigure
    <3>2. /\ master_key' = Clear /\ nonce' = nonce /\ byte_index' = byte_index
          /\ Cipher!Position' = Cipher!Position
      BY <1>1, <2>2, <3>1, StillCipher DEF BaselineCold
    <3> QED  BY <1>2, <1>4, <2>2, <3>2 DEF Channel!Open
  <2> QED  BY <2>1, <2>2
<1> QED  BY <1>3, <1>6 DEF Channel!Next, Channel!Counter

(* There is room for one byte more than the FIFO holds. *)
LEMMA TransitFits == BridgeIInv => Len(InTransit) <= DEPTH + 1
<1> SUFFICES ASSUME BridgeIInv PROVE Len(InTransit) <= DEPTH + 1
  OBVIOUS
<1>1. queue \in Seq(Byte) /\ Len(queue) \in Nat /\ Len(queue) <= DEPTH
  BY DepthFacts DEF BridgeIInv, FifoOK
<1>2. \A b \in Byte : Len(<<b>> \o queue) = Len(queue) + 1
  <2> TAKE b \in Byte
  <2> DEFINE h == <<b>>
  <2>1. h \in Seq(Byte) /\ Len(h) = 1
    OBVIOUS
  <2> HIDE DEF h
  <2>2. Len(h \o queue) = Len(h) + Len(queue)
    BY <1>1, <2>1, ConcatProperties
  <2> QED  BY <1>1, <2>1, <2>2 DEF h
<1>3. CASE held_valid
  BY <1>1, <1>2, <1>3, InTransitParts, DepthFacts DEF BridgeIInv, HoldOK
<1>4. CASE rd_valid
  BY <1>1, <1>2, <1>4, InTransitParts, DepthFacts DEF BridgeIInv, HoldOK
<1>5. CASE ~held_valid /\ ~rd_valid
  BY <1>1, <1>5, InTransitParts, DepthFacts
<1> QED  BY <1>3, <1>4, <1>5

LEMMA TransitFitsNext == BridgeIInv' => Len(InTransit') <= DEPTH + 1
<1> DEFINE Fits == Len(InTransit) <= DEPTH + 1
<1>1. BridgeIInv => Fits
  BY TransitFits
<1> HIDE DEF Fits
<1>2. BridgeIInv' => Fits'
  BY <1>1, PTL
<1> QED  BY <1>2 DEF Fits

(* The cipher of the secure build at an edge of a session: a byte that     *)
(* leaves takes the keystream byte at the present place, and moves it on;  *)
(* without one the place stays.                                            *)
LEMMA CipherPlace ==
  ASSUME ChannelIInv, ENABLE_AES, NEW used \in BOOLEAN, used => current_valid,
         Cipher!StreamRun(used)
  PROVE  /\ nonce' = nonce /\ master_key' = master_key
         /\ ~used => Cipher!Position' = Cipher!Position /\ byte_index' = byte_index
         /\ used => /\ Cipher!Position <= COUNTER_MAX
                    /\ Cipher!mask_byte # Clear
                    /\ Cipher!mask_byte =
                         <<Enc[<<master_key, <<nonce, Cipher!Position>>>>], byte_index>>
                    /\ \/ /\ byte_index < BLOCK_BYTES - 1
                          /\ byte_index' = byte_index + 1
                          /\ Cipher!Position' = Cipher!Position
                       \/ /\ byte_index = BLOCK_BYTES - 1
                          /\ byte_index' = 0
                          /\ Cipher!Position' = Cipher!Position + 1
<1>1. Facts!StreamIInv /\ Facts!StreamRun(used)
  BY SameRun DEF ChannelIInv
<1>2. /\ nonce' = nonce /\ master_key' = master_key
      /\ ~used => Facts!Position' = Facts!Position /\ byte_index' = byte_index
      /\ used => \/ /\ byte_index < BLOCK_BYTES - 1
                    /\ byte_index' = byte_index + 1 /\ Facts!Position' = Facts!Position
                 \/ /\ byte_index = BLOCK_BYTES - 1
                    /\ byte_index' = 0 /\ Facts!Position' = Facts!Position + 1
  BY <1>1, CipherAssumptions, Facts!PositionMoves
<1>3. used => /\ Facts!Position \in Facts!Counter /\ Facts!mask_byte # Clear
              /\ Facts!mask_byte =
                   Facts!Bytes!PadByte(master_key, nonce, Facts!Position, byte_index)
  BY <1>1, CipherAssumptions, Facts!OfferedByte
<1>4. used => Facts!Position <= COUNTER_MAX
  BY <1>3, BridgeAssumption DEF Facts!Counter
<1>5. Cipher!Position = Facts!Position /\ Cipher!Position' = Facts!Position'
  BY SameState, SameStateNext
<1> QED
  BY <1>2, <1>3, <1>4, <1>5, SameState DEF Facts!Bytes!PadByte

LEMMA RunIsSendOrWait ==
  ASSUME ChannelIInv, NEW tx_enable \in BOOLEAN, Run(tx_enable)
  PROVE  Channel!Next
<1> DEFINE used == tx_start(tx_enable)
<1>1. BridgeIInv /\ Facts!StreamIInv /\ LineAtRest /\ BaselineCold
  BY DEF ChannelIInv
<1>2. active /\ active' = active /\ CipherRun(used)
  BY DEF Run
<1>3. ENABLE_AES' = ENABLE_AES
  BY <1>2 DEF CipherRun
<1>4. (IF rx_done' THEN <<rx_data'>> ELSE <<>>) \in Channel!Arrival
  BY <1>1, RunBridge DEF BridgeIInv, FifoOK, Channel!Arrival
<1>5. Len(InTransit') <= DEPTH + 1
  BY <1>1, RunBridge, TransitFitsNext
<1>6. used \in BOOLEAN /\ (used => held_valid) /\ (ENABLE_AES /\ used => current_valid)
  BY <1>1 DEF tx_start, Cipher!transfer, output_ready, BridgeIInv, HoldOK
<1>7. ENABLE_AES => Cipher!StreamRun(used)
  BY <1>2, Zenon DEF CipherRun
<1>8. ~ENABLE_AES => UNCHANGED cipher
  BY <1>2, Zenon DEF CipherRun
<1>9. CASE used
  <2>1. InTransit # <<>> /\ held_data = Head(InTransit)
        /\ InTransit' = Tail(InTransit) \o Arrived
    BY <1>1, <1>9, RunInOrder DEF OldestSent
  <2>2. Tx!Start(output_data)
    BY <1>9 DEF Run, Transmit
  <2>3. tx_frame = Clear /\ tx_frame' = output_data /\ tx_left' = FRAME
    BY <1>1, <2>2 DEF LineAtRest, Tx!Start
  <2> HIDE DEF used
  <2>4. CASE ENABLE_AES
    <3>1. Channel!Pad = Cipher!mask_byte
      BY <1>2, <1>6, <1>7, <1>9, <2>4, CipherPlace DEF Channel!Pad
    <3>2. tx_frame' = <<Head(InTransit), Channel!Pad>>
      BY <2>1, <2>3, <2>4, <3>1 DEF output_data
    <3>3. Channel!Advance /\ Cipher!Position <= COUNTER_MAX
          /\ nonce' = nonce /\ master_key' = master_key
      BY <1>6, <1>7, <1>9, <2>4, CipherPlace DEF Channel!Advance
    <3>4. Channel!Send
      BY <1>2, <1>4, <1>5, <2>1, <2>3, <2>4, <3>2, <3>3
      DEF Channel!Send, Channel!Take, Arrived
    <3> QED  BY <1>3, <3>4 DEF Channel!Next
  <2>5. CASE ~ENABLE_AES
    <3>1. /\ master_key' = master_key /\ nonce' = nonce /\ byte_index' = byte_index
          /\ Cipher!Position' = Cipher!Position
      BY <1>8, <2>5, StillCipher
    <3>2. tx_frame' = <<Head(InTransit), Channel!Pad>>
      BY <2>1, <2>3, <2>5 DEF output_data, Channel!Pad
    <3>3. Channel!Send
      BY <1>2, <1>4, <1>5, <2>1, <2>3, <2>5, <3>1, <3>2
      DEF Channel!Send, Channel!Take, Channel!Advance, Arrived
    <3> QED  BY <1>3, <3>3 DEF Channel!Next
  <2> QED  BY <2>4, <2>5
<1>10. CASE ~used
  <2>1. InTransit' = InTransit \o Arrived
    BY <1>1, <1>10, RunInOrder DEF NoneSent
  <2>2. \/ tx_left = 0 /\ UNCHANGED <<tx_frame, tx_left>>
        \/ tx_left = 1 /\ tx_frame' = Clear /\ tx_left' = 0
        \/ tx_left > 1 /\ tx_left' = tx_left - 1 /\ UNCHANGED tx_frame
    BY <1>1, <1>10 DEF Run, Transmit, Tx!Tick, Tx!Send, Tx!EndFrame, Tx!Rest, LineAtRest
  <2> HIDE DEF used
  <2>3. /\ master_key' = master_key /\ nonce' = nonce /\ byte_index' = byte_index
        /\ Cipher!Position' = Cipher!Position
    BY <1>6, <1>7, <1>8, <1>10, CipherPlace, StillCipher
  <2>4. Channel!Wait
    BY <1>2, <1>4, <1>5, <2>1, <2>2, <2>3 DEF Channel!Wait, Channel!Take, Arrived
  <2> QED  BY <1>3, <2>4 DEF Channel!Next
<1> QED  BY <1>9, <1>10

LEMMA IdleIsStutter ==
  ASSUME ChannelIInv, Idle \/ UNCHANGED vars
  PROVE  UNCHANGED Channel!vars
<1>1. BridgeIInv
  BY DEF ChannelIInv
<1>2. UNCHANGED <<control, datapath>> /\ ENABLE_AES' = ENABLE_AES
  BY DEF Idle, CipherIdle, vars
<1>3. UNCHANGED cipher \/ (~active /\ Cipher!StreamIdle)
  BY DEF Idle, CipherIdle, vars
<1>4. UNCHANGED <<active, tx_frame, tx_left, rx_done, rx_data, InTransit>>
  BY <1>2 DEF control, datapath, holding, fifoVars, txVars, rxVars, InTransit
<1>5. UNCHANGED <<nonce, byte_index, Cipher!Position>>
      /\ (active => master_key' = master_key)
  <2>1. CASE UNCHANGED cipher
    BY <2>1, StillCipher
  <2>2. CASE ~active /\ Cipher!StreamIdle
    BY <2>2
    DEF Cipher!StreamIdle, Cipher!Idle, Cipher!maskRegs, Cipher!streamRegs,
        Cipher!Position, Cipher!NextMask, Cipher!Unissued
  <2> QED  BY <1>3, <2>1, <2>2
<1> QED  BY <1>2, <1>4, <1>5 DEF Channel!vars

(* End to end, for every depth, pacing of line and source, cipher latency, *)
(* counter range, mask length and either build, the bridge implements the  *)
(* channel: no byte that rx_done reports lost, duplicated or reordered,    *)
(* byte n combined with keystream byte n, every frame FRAME edges long     *)
(* unless its session ends, nothing of a session after its end.            *)
THEOREM BridgeImplementsChannel == Spec => ImplementsChannel
<1>1. ChannelIInv /\ [Next]_vars => [Channel!Next]_(Channel!vars)
  <2> SUFFICES ASSUME ChannelIInv, [Next]_vars
               PROVE  Channel!Next \/ UNCHANGED Channel!vars
    OBVIOUS
  <2>1. ASSUME NEW k \in Key, NEW n \in Nonce, NEW c \in 0..COUNTER_MAX, Configure(k, n, c)
        PROVE  Channel!Next
    BY <2>1, ConfigureIsOpen
  <2>2. ASSUME NEW tx_enable \in BOOLEAN, Run(tx_enable)
        PROVE  Channel!Next
    BY <2>2, RunIsSendOrWait
  <2> QED  BY <2>1, <2>2, EndIsClose, IdleIsStutter DEF Next, Clock
<1> QED
  BY <1>1, InitChannelIInv, NextChannelIInv, InitIsChannel, PTL
  DEF Spec, ImplementsChannel, Channel!Spec

-----------------------------------------------------------------------------
(* A frame is only on the line while the transmitter is busy. *)
LineOK == tx_frame # Clear => tx_busy

TopIInv == BridgeIInv /\ LineOK /\ BytesMarkContext

(* The bridge at an edge of the board is a step of the bridge. *)
LEMMA BridgeEdgeSteps ==
  BridgeEdge => [Next]_vars
<1> SUFFICES ASSUME BridgeEdge PROVE Next
  BY DEF Next
<1>1. CONTEXT_KEY \in Key /\ CONTEXT_NONCE \in Nonce /\ CONTEXT_COUNTER \in 0..COUNTER_MAX
  BY ContextAssumption
<1>2. Configure(CONTEXT_KEY, CONTEXT_NONCE, CONTEXT_COUNTER) => Clock
  BY <1>1, Zenon DEF Clock
<1>3. Run(TRUE) => Clock
  BY Zenon DEF Clock
<1> QED  BY <1>2, <1>3, Zenon DEF BridgeEdge, Clock, Next

(* A reset of the datapath leaves no byte anywhere and the line at rest. *)
LEMMA NothingLeft ==
  ASSUME NEW read, DatapathReset(read), BridgeIInv'
  PROVE  InTransit' = <<>> /\ tx_busy' = FALSE /\ tx_frame' = Clear
<1>1. held_valid' = FALSE /\ rd_valid' = FALSE /\ queue' = <<>>
      /\ tx_busy' = FALSE /\ tx_frame' = Clear
  BY DEF DatapathReset, Fifo!Forget, Tx!Reset
<1>2. InTransit' = queue'
  BY <1>1, InTransitPartsNext
<1> QED  BY <1>1, <1>2

LEMMA InitTop == TopInit => TopIInv
<1> SUFFICES ASSUME TopInit PROVE TopIInv
  OBVIOUS
<1>1. BridgeIInv
  BY InitBridge DEF TopInit
<1>2. held_valid = FALSE /\ rd_valid = FALSE /\ queue = <<>>
      /\ tx_busy = FALSE /\ tx_frame = Clear /\ spent = {}
  BY DEF TopInit, Init, Fifo!Init, Tx!Init
<1>3. InTransit = <<>>
  BY <1>1, <1>2, InTransitParts
<1> QED  BY <1>1, <1>2, <1>3 DEF TopIInv, LineOK, BytesMarkContext

LEMMA PressTop == TopIInv /\ Press => TopIInv'
<1> SUFFICES ASSUME TopIInv, Press PROVE TopIInv'
  OBVIOUS
<1>1. Reset /\ UNCHANGED <<context_used, spent>>
  BY DEF Press
<1>2. BridgeIInv'
  BY <1>1, ResetBridge DEF TopIInv
<1>3. InTransit' = <<>> /\ tx_busy' = FALSE /\ tx_frame' = Clear
  BY <1>1, <1>2, NothingLeft DEF Reset
<1> QED  BY <1>1, <1>2, <1>3 DEF TopIInv, LineOK, BytesMarkContext

(* Nothing of the bridge moves: KEY0 going up, an edge in reset. *)
LEMMA StillTop == TopIInv /\ UNCHANGED <<context_used, spent, vars>> => TopIInv'
<1> SUFFICES ASSUME TopIInv, UNCHANGED <<context_used, spent, vars>> PROVE TopIInv'
  OBVIOUS
<1>1. BridgeIInv'
  BY NextBridge DEF TopIInv
<1>2. UNCHANGED <<held_valid, held_data, rd_valid, rd_data, queue, tx_busy, tx_frame>>
  BY DEF vars, datapath, holding, fifoVars, txVars
<1> QED  BY <1>1, <1>2 DEF TopIInv, LineOK, BytesMarkContext, InTransit

(* What an edge does to the guard and to the record of what was used. *)
GuardEdge ==
  /\ context_used' = (context_used \/ rx_event(FALSE))
  /\ spent' = IF tx_frame = Clear /\ tx_frame' # Clear
              THEN spent \cup {tx_frame'[2]} ELSE spent

(* While the bridge runs, a byte that arrives marks the context at the    *)
(* same edge; all others were under way before.                           *)
LEMMA RunTop ==
  ASSUME TopIInv, Run(TRUE), GuardEdge
  PROVE  LineOK' /\ BytesMarkContext'
<1>1. BridgeIInv /\ LineOK /\ BytesMarkContext /\ active /\ ~fault_now(FALSE)
  BY DEF TopIInv, Run
<1>2. OldestSent \/ NoneSent
  BY <1>1, RunInOrder
<1>3. LineOK'
  <2>1. (\E data : Tx!Start(data)) \/ Tx!Tick
    BY DEF Run, Transmit
  <2> QED  BY <1>1, <2>1 DEF LineOK, Tx!Start, Tx!Tick, Tx!Send, Tx!EndFrame, Tx!Rest
<1>4. context_used => context_used'
  BY DEF GuardEdge
<1>5. CASE rx_done
  <2>1. rx_event(FALSE)
    BY <1>1, <1>5 DEF rx_event
  <2> QED  BY <1>3, <2>1 DEF GuardEdge, BytesMarkContext
<1>6. CASE ~rx_done
  <2>1. CASE OldestSent
    BY <1>1, <1>3, <1>4, <2>1 DEF OldestSent, BytesMarkContext
  <2>2. CASE NoneSent
    <3>1. InTransit \in Seq(Byte) /\ Arrived = <<>>
      BY <1>1, <1>6, InTransitParts DEF Arrived
    <3>2. InTransit' = InTransit
      BY <2>2, <3>1, ConcatEmptySeq DEF NoneSent
    <3>3. tx_busy' => tx_busy /\ tx_frame' = tx_frame
      BY <2>2 DEF NoneSent
    <3>4. spent' = spent
      BY <1>3, <3>3 DEF GuardEdge, LineOK
    <3> QED  BY <1>1, <1>3, <1>4, <3>2, <3>3, <3>4 DEF BytesMarkContext
  <2> QED  BY <1>2, <2>1, <2>2
<1> QED  BY <1>5, <1>6

LEMMA EdgeTop == TopIInv /\ Edge => TopIInv'
<1> SUFFICES ASSUME TopIInv, Edge PROVE TopIInv'
  OBVIOUS
<1>1. BridgeIInv /\ LineOK /\ BytesMarkContext /\ BridgeEdge /\ GuardEdge
  BY DEF TopIInv, Edge, GuardEdge
<1>2. BridgeIInv'
  BY <1>1, BridgeEdgeSteps, NextBridge
<1>3. context_used => context_used'
  BY <1>1 DEF GuardEdge
<1>4. CASE Fault
  <2>1. InTransit' = <<>> /\ tx_busy' = FALSE /\ tx_frame' = Clear
    BY <1>2, <1>4, NothingLeft DEF Fault
  <2>2. spent' = spent
    BY <1>1, <2>1 DEF GuardEdge
  <2> QED  BY <1>1, <1>2, <1>3, <2>1, <2>2 DEF TopIInv, LineOK, BytesMarkContext
<1>5. CASE Run(TRUE)
  BY <1>1, <1>2, <1>5, RunTop DEF TopIInv
<1>6. CASE UNCHANGED datapath
  <2>1. UNCHANGED <<held_valid, held_data, rd_valid, rd_data, queue, tx_busy, tx_frame>>
    BY <1>6 DEF datapath, holding, fifoVars, txVars
  <2>2. spent' = spent
    BY <1>1, <2>1 DEF GuardEdge
  <2> QED  BY <1>1, <1>2, <1>3, <2>1, <2>2
           DEF TopIInv, LineOK, BytesMarkContext, InTransit
<1> QED  BY <1>1, <1>4, <1>5, <1>6 DEF BridgeEdge, Configure, Idle

LEMMA NextTop == TopIInv /\ [TopNext]_topVars => TopIInv'
<1> SUFFICES ASSUME TopIInv, [TopNext]_topVars PROVE TopIInv'
  OBVIOUS
<1>1. UNCHANGED topVars => UNCHANGED <<context_used, spent, vars>>
  BY DEF topVars, boardRegs
<1>2. Release \/ EdgeInReset => UNCHANGED <<context_used, spent, vars>>
  BY DEF Release, EdgeInReset
<1> QED  BY <1>1, <1>2, PressTop, StillTop, EdgeTop DEF TopNext

(* From the edge at which the receiver presents a byte, through KEY0 at    *)
(* any moment and for any number of sessions, the mark is there: no byte   *)
(* is queued, held or on the line, and no keystream byte has been used,    *)
(* while the wrapper would still load the context again.  The session      *)
(* control behind it (SessionsAgree) holds on the board as well.           *)
THEOREM UseIsMarked == TopSpec => [](BytesMarkContext /\ SessionsAgree)
<1>1. TopIInv => BytesMarkContext /\ SessionsAgree
  BY DEF TopIInv, BridgeIInv, CipherFollows, DatapathEmpty, FaultEnds, SessionsAgree
<1> QED  BY <1>1, InitTop, NextTop, PTL DEF TopSpec
-----------------------------------------------------------------------------
(* The byte i of the mask of counter block c of the board's context. *)
ContextByte(c, i) == <<Enc[<<CONTEXT_KEY, <<CONTEXT_NONCE, c>>>>], i>>

(* Place c, i of the keystream lies before place d, j. *)
Before(c, i, d, j) == c < d \/ (c = d /\ i < j)

(* The only context a session can have is the board's. *)
BoardContext ==
  active => master_key = CONTEXT_KEY /\ nonce = CONTEXT_NONCE

(* What was used in a session still open lies behind its place. *)
SpentIsPassed ==
  active =>
    \A b \in spent :
      \E c \in 0..COUNTER_MAX, i \in Nat :
        b = ContextByte(c, i) /\ Before(c, i, Cipher!Position, byte_index)

SpentIInv ==
  /\ TopIInv
  /\ ChannelIInv
  /\ ENABLE_AES
  /\ BoardContext
  /\ SpentIsPassed

LEMMA InitSpent == BUILDS = {TRUE} /\ TopInit => SpentIInv
<1> SUFFICES ASSUME BUILDS = {TRUE}, TopInit PROVE SpentIInv
  OBVIOUS
<1>1. ENABLE_AES /\ active = FALSE /\ Init
  BY DEF TopInit, Init
<1> QED  BY <1>1, InitTop, InitChannelIInv DEF SpentIInv, BoardContext, SpentIsPassed

(* Every step of the board is one of the bridge, or leaves it alone. *)
LEMMA BoardSteps == [TopNext]_topVars => [Next]_vars
<1>1. Press => Next
  BY DEF Press, Next
<1>2. Edge => [Next]_vars
  BY BridgeEdgeSteps DEF Edge
<1> QED  BY <1>1, <1>2 DEF TopNext, Release, EdgeInReset, topVars

(* The keystream byte of a running edge is the one of the present place,   *)
(* which it moves on; without a transfer the place stays.                  *)
LEMMA RunSpends ==
  ASSUME SpentIInv, Run(TRUE)
  PROVE  /\ active /\ BoardContext'
         /\ \/ ~(tx_frame = Clear /\ tx_frame' # Clear)
            \/ /\ tx_frame'[2] = ContextByte(Cipher!Position, byte_index)
               /\ Cipher!Position \in 0..COUNTER_MAX /\ byte_index \in Nat
               /\ \/ byte_index' = byte_index + 1 /\ Cipher!Position' = Cipher!Position
                  \/ byte_index' = 0 /\ Cipher!Position' = Cipher!Position + 1
         /\ \/ Cipher!Position' = Cipher!Position /\ byte_index' = byte_index
            \/ tx_frame = Clear /\ tx_frame' # Clear
<1> DEFINE used == tx_start(TRUE)
<1>1. /\ BridgeIInv /\ LineOK /\ ChannelIInv /\ ENABLE_AES /\ BoardContext
      /\ LineAtRest /\ Facts!StreamIInv
  BY DEF SpentIInv, TopIInv, ChannelIInv
<1>2. active /\ active' = active /\ CipherRun(used)
  BY DEF Run
<1>3. used \in BOOLEAN /\ (used => current_valid)
  BY <1>1 DEF tx_start, Cipher!transfer
<1>4. Cipher!StreamRun(used)
  BY <1>1, <1>2, Zenon DEF CipherRun
<1>5. nonce' = nonce /\ master_key' = master_key
  <2> HIDE DEF used
  <2> QED  BY <1>1, <1>3, <1>4, CipherPlace
<1>6. BoardContext'
  BY <1>1, <1>2, <1>5 DEF BoardContext
<1>7. CASE used
  <2>1. Tx!Start(output_data)
    BY <1>7 DEF Run, Transmit
  <2>2. tx_frame = Clear /\ tx_frame' = output_data
    BY <1>1, <2>1 DEF LineAtRest, Tx!Start
  <2> HIDE DEF used
  <2>3. byte_index \in Nat /\ Facts!Position \in Facts!Counter
        /\ Cipher!Position \in 0..COUNTER_MAX
    <3>1. Facts!Position \in Facts!Counter
      BY <1>1, <1>3, <1>7, CipherAssumptions, Facts!OfferedByte
    <3>2. byte_index \in Facts!Lane
      BY <1>1 DEF Facts!StreamIInv, Facts!LanesOK
    <3> QED  BY <3>1, <3>2, SameState DEF Facts!Counter, Facts!Lane
  <2>4. /\ Cipher!mask_byte = <<Enc[<<master_key, <<nonce, Cipher!Position>>>>], byte_index>>
        /\ \/ byte_index' = byte_index + 1 /\ Cipher!Position' = Cipher!Position
           \/ byte_index' = 0 /\ Cipher!Position' = Cipher!Position + 1
    BY <1>1, <1>3, <1>4, <1>7, CipherPlace
  <2>5. tx_frame'[2] = ContextByte(Cipher!Position, byte_index)
    BY <1>1, <1>2, <2>2, <2>4 DEF output_data, BoardContext, ContextByte
  <2>6. tx_frame' # Clear
    <3>1. held_data \in Byte
      BY <1>1, <1>7 DEF used, tx_start, Cipher!transfer, BridgeIInv, HoldOK
    <3>2. Cipher!mask_byte \in Value \X (0 .. BLOCK_BYTES - 1)
      <4>1. master_key \in Key /\ nonce \in Nonce
        BY <1>1, <1>2, ContextAssumption DEF BoardContext
      <4>2. Enc[<<master_key, <<nonce, Cipher!Position>>>>] \in Value
        BY <2>3, <4>1, BridgeAssumption
      <4>3. byte_index \in 0 .. BLOCK_BYTES - 1
        BY <1>1 DEF Facts!StreamIInv, Facts!LanesOK, Facts!Lane
      <4> QED  BY <2>4, <4>2, <4>3
    <3>3. output_data \in Byte \X ((Value \X (0 .. BLOCK_BYTES - 1)) \cup {Clear})
      BY <1>1, <3>1, <3>2 DEF output_data
    <3> QED  BY <2>2, <3>3, BridgeAssumption
  <2> QED  BY <1>2, <1>6, <2>2, <2>3, <2>4, <2>5, <2>6
<1>8. CASE ~used
  <2>1. ~(tx_frame = Clear /\ tx_frame' # Clear)
    BY <1>8 DEF Run, Transmit, Tx!Tick, Tx!Send, Tx!EndFrame, Tx!Rest
  <2> HIDE DEF used
  <2> QED  BY <1>1, <1>2, <1>3, <1>4, <1>6, <1>8, <2>1, CipherPlace
<1> QED  BY <1>7, <1>8

(* A byte that leaves is none of those used before. *)
LEMMA FreshByte ==
  ASSUME SpentIInv, Run(TRUE), tx_frame = Clear, tx_frame' # Clear
  PROVE  tx_frame'[2] \notin spent
<1> DEFINE p == Cipher!Position
<1>1. active /\ tx_frame'[2] = ContextByte(p, byte_index)
      /\ p \in 0..COUNTER_MAX /\ byte_index \in Nat
  BY RunSpends
<1>2. SUFFICES ASSUME tx_frame'[2] \in spent PROVE FALSE
  OBVIOUS
<1>3. PICK c \in 0..COUNTER_MAX, i \in Nat :
        tx_frame'[2] = ContextByte(c, i) /\ Before(c, i, p, byte_index)
  BY <1>1, <1>2 DEF SpentIInv, SpentIsPassed
<1>4. i = byte_index
      /\ Enc[<<CONTEXT_KEY, <<CONTEXT_NONCE, c>>>>] = Enc[<<CONTEXT_KEY, <<CONTEXT_NONCE, p>>>>]
  <2> HIDE DEF p
  <2> QED  BY <1>1, <1>3 DEF ContextByte
<1>5. c = p
  <2> HIDE DEF p
  <2> QED  BY <1>1, <1>3, <1>4, CipherIsOneToOne
<1>6. c < p \/ i < byte_index
  BY <1>3, <1>5 DEF Before
<1>7. c \in Int /\ i \in Int
  BY <1>3
<1> HIDE DEF p
<1> QED  BY <1>1, <1>4, <1>5, <1>6, <1>7

LEMMA RunSpent ==
  ASSUME SpentIInv, Run(TRUE), GuardEdge
  PROVE  BoardContext' /\ SpentIsPassed'
<1> DEFINE p == Cipher!Position
<1>1. active /\ BoardContext' /\ SpentIsPassed
  BY RunSpends DEF SpentIInv
<1>2. CASE ~(tx_frame = Clear /\ tx_frame' # Clear)
  <2>1. p' = p /\ byte_index' = byte_index /\ spent' = spent
    BY <1>2, RunSpends DEF GuardEdge
  <2> QED  BY <1>1, <2>1 DEF SpentIsPassed
<1>3. CASE tx_frame = Clear /\ tx_frame' # Clear
  <2>1. /\ tx_frame'[2] = ContextByte(p, byte_index)
        /\ p \in 0..COUNTER_MAX /\ byte_index \in Nat
        /\ \/ byte_index' = byte_index + 1 /\ p' = p
           \/ byte_index' = 0 /\ p' = p + 1
    BY <1>3, RunSpends
  <2>2. spent' = spent \cup {ContextByte(p, byte_index)}
    BY <1>3, <2>1 DEF GuardEdge
  <2>3. \A b \in spent :
          \E c \in 0..COUNTER_MAX, i \in Nat :
            b = ContextByte(c, i) /\ Before(c, i, p, byte_index)
    BY <1>1 DEF SpentIsPassed
  <2> HIDE DEF p
  <2>4. \A c \in 0..COUNTER_MAX, i \in Nat :
          Before(c, i, p, byte_index) => Before(c, i, p', byte_index')
    BY <2>1 DEF Before
  <2>5. Before(p, byte_index, p', byte_index')
    BY <2>1 DEF Before
  <2>6. \A b \in spent' :
          \E c \in 0..COUNTER_MAX, i \in Nat :
            b = ContextByte(c, i) /\ Before(c, i, p', byte_index')
    BY <2>1, <2>2, <2>3, <2>4, <2>5
  <2> QED  BY <1>1, <2>6 DEF SpentIsPassed, p
<1> QED  BY <1>2, <1>3

LEMMA NextSpent == SpentIInv /\ [TopNext]_topVars => SpentIInv'
<1> SUFFICES ASSUME SpentIInv, [TopNext]_topVars PROVE SpentIInv'
  OBVIOUS
<1>1. TopIInv' /\ ChannelIInv'
  BY NextTop, BoardSteps, NextChannelIInv DEF SpentIInv
<1>2. ENABLE_AES'
  <2>1. [Next]_vars
    BY BoardSteps
  <2> QED
    BY <2>1
    DEF SpentIInv, Next, Clock, Abort, Fault, Configure, Run, Idle, Reset, CipherAbort,
        CipherConfigure, CipherRun, CipherIdle, vars
<1>3. BoardContext' /\ SpentIsPassed'
  <2>1. CASE Press
    BY <2>1 DEF Press, Reset, BoardContext, SpentIsPassed
  <2>2. CASE UNCHANGED <<spent, vars>>
    <3>1. UNCHANGED cipher /\ active' = active /\ spent' = spent
      BY <2>2 DEF vars, control
    <3>2. UNCHANGED <<master_key, nonce, byte_index, Cipher!Position>>
      BY <3>1, StillCipher
    <3> QED  BY <3>1, <3>2 DEF SpentIInv, BoardContext, SpentIsPassed
  <2>3. CASE Edge
    <3>1. BridgeEdge /\ GuardEdge
      BY <2>3 DEF Edge, GuardEdge
    <3>2. CASE Fault
      BY <3>2 DEF Fault, BoardContext, SpentIsPassed
    <3>3. CASE Run(TRUE)
      BY <3>1, <3>3, RunSpent
    <3>4. CASE cfg_valid /\ Configure(CONTEXT_KEY, CONTEXT_NONCE, CONTEXT_COUNTER)
      <4>1. spent = {}
        BY <3>4 DEF cfg_valid, SpentIInv, TopIInv, BytesMarkContext
      <4>2. spent' = {}
        BY <3>1, <3>4, <4>1 DEF GuardEdge, Configure, datapath, txVars
      <4>3. Cipher!StreamConfigure(CONTEXT_KEY, CONTEXT_NONCE, CONTEXT_COUNTER)
        BY <3>4, Zenon DEF SpentIInv, Configure, CipherConfigure
      <4>4. master_key' = CONTEXT_KEY /\ nonce' = CONTEXT_NONCE
        BY <4>3 DEF Cipher!StreamConfigure, Cipher!Configure, Cipher!Aes!LoadKey
      <4> QED  BY <4>2, <4>4 DEF BoardContext, SpentIsPassed
    <3>5. CASE Idle
      BY <3>5 DEF Idle, control, BoardContext, SpentIsPassed
    <3> QED  BY <3>1, <3>2, <3>3, <3>4, <3>5 DEF BridgeEdge
  <2>4. Release \/ EdgeInReset \/ UNCHANGED topVars => UNCHANGED <<spent, vars>>
    BY DEF Release, EdgeInReset, topVars
  <2> QED  BY <2>1, <2>2, <2>3, <2>4 DEF TopNext
<1> QED  BY <1>1, <1>2, <1>3 DEF SpentIInv

(* Only a running edge begins a frame. *)
LEMMA OnlyRunBegins ==
  ASSUME SpentIInv, TopNext, tx_frame = Clear, tx_frame' # Clear
  PROVE  Run(TRUE)
<1>1. ~Press
  BY DEF Press, Reset, DatapathReset, Tx!Reset
<1>2. ~Release /\ ~EdgeInReset
  BY DEF Release, EdgeInReset, vars, datapath, txVars
<1>3. ~Fault
  BY DEF Fault, DatapathReset, Tx!Reset
<1>4. ~Configure(CONTEXT_KEY, CONTEXT_NONCE, CONTEXT_COUNTER) /\ ~Idle
  BY DEF Configure, Idle, datapath, txVars
<1> QED  BY <1>1, <1>2, <1>3, <1>4 DEF TopNext, Edge, BridgeEdge

(* In the secure build, over the whole life of a bitstream, with KEY0      *)
(* pressed at any time, any traffic and any pacing: no keystream byte is   *)
(* combined with a second payload byte.  The single-use guard of the       *)
(* wrapper and the counter's order in the cipher carry it together.        *)
THEOREM KeystreamSpentOnce ==
  ASSUME BUILDS = {TRUE}
  PROVE  TopSpec => KeystreamUsedOnce
<1>1. TopInit => SpentIInv
  BY InitSpent
<1>2. SpentIInv /\ [TopNext]_topVars =>
        [tx_frame = Clear /\ tx_frame' # Clear => tx_frame'[2] \notin spent]_topVars
  BY OnlyRunBegins, FreshByte
<1> QED  BY <1>1, <1>2, NextSpent, PTL DEF TopSpec, KeystreamUsedOnce
-----------------------------------------------------------------------------
(* The time a byte takes on the line, with the edge that starts it. *)
ByteTime == FRAME + 1

(* While a session lasts the engine runs for the block that is expected,   *)
(* and has a key before it is asked for one.                               *)
EngineOK ==
  /\ state \in {"IDLE", "KEY_READY", "RUN"}
  /\ inflight \in BOOLEAN /\ result_valid \in BOOLEAN
  /\ inflight => /\ ~result_valid
                 /\ \/ state = "RUN" /\ left \in 1..LATENCY /\ ~done
                    \/ state = "IDLE" /\ done
  /\ ~inflight => state # "RUN"
  /\ state # "KEY_READY" => key_valid
  /\ state = "KEY_READY" => ~inflight /\ ~result_valid

(* Edges until a mask is held: none if it is, or if none is to come. *)
MaskIn ==
  CASE result_valid -> 0
    [] ~result_valid /\ inflight -> IF state = "RUN" THEN left + 1 ELSE 1
    [] ~result_valid /\ ~inflight /\ last_issued -> 0
    [] OTHER -> IF state = "IDLE" THEN LATENCY + 2 ELSE LATENCY + 3

LEMMA LatencyFacts == LATENCY \in Nat /\ LATENCY >= 1
<1> QED  BY BridgeAssumption

LEMMA MaskInFacts ==
  ASSUME EngineOK
  PROVE  /\ MaskIn \in Nat /\ MaskIn <= LATENCY + 3
         /\ result_valid => MaskIn = 0
         /\ inflight => MaskIn = IF state = "RUN" THEN left + 1 ELSE 1
         /\ ~result_valid /\ ~inflight /\ last_issued => MaskIn = 0
         /\ ~result_valid /\ ~inflight /\ ~last_issued =>
              MaskIn = IF state = "IDLE" THEN LATENCY + 2 ELSE LATENCY + 3
<1>1. Facts!EngineOK
  BY DEF EngineOK, Facts!EngineOK
<1>2. MaskIn = Facts!MaskIn
  BY DEF MaskIn, Facts!MaskIn
<1> QED  BY <1>1, <1>2, CipherAssumptions, Facts!MaskInFacts

LEMMA MaskInFactsNext ==
  EngineOK' =>
    /\ result_valid' => MaskIn' = 0
    /\ inflight' => MaskIn' = IF state' = "RUN" THEN left' + 1 ELSE 1
    /\ ~result_valid' /\ ~inflight' /\ last_issued' => MaskIn' = 0
    /\ ~result_valid' /\ ~inflight' /\ ~last_issued' =>
         MaskIn' = IF state' = "IDLE" THEN LATENCY + 2 ELSE LATENCY + 3
<1> DEFINE Facts0 ==
      /\ result_valid => MaskIn = 0
      /\ inflight => MaskIn = IF state = "RUN" THEN left + 1 ELSE 1
      /\ ~result_valid /\ ~inflight /\ last_issued => MaskIn = 0
      /\ ~result_valid /\ ~inflight /\ ~last_issued =>
           MaskIn = IF state = "IDLE" THEN LATENCY + 2 ELSE LATENCY + 3
<1>1. EngineOK => Facts0
  BY MaskInFacts
<1> HIDE DEF Facts0
<1>2. EngineOK' => Facts0'
  BY <1>1, PTL
<1> QED  BY <1>2 DEF Facts0

(* Which keystream byte is next, and how long until the next mask. *)
StreamOK ==
  /\ EngineOK
  /\ current_valid \in BOOLEAN
  /\ byte_index \in 0..BLOCK_BYTES - 1

MaskNearer == MaskIn' = IF MaskIn = 0 THEN 0 ELSE MaskIn - 1

MaskFollows == current_valid' /\ byte_index' = 0 /\ MaskIn' \in Nat /\ MaskIn' <= LATENCY + 1

LEMMA BlockFacts == BLOCK_BYTES \in Nat /\ BLOCK_BYTES >= 1
<1> QED  BY BridgeAssumption

(* The byte side of the cipher at a running edge. *)
LEMMA StreamRuns ==
  ASSUME StreamOK, NEW used \in BOOLEAN, used => current_valid, Cipher!StreamRun(used)
  PROVE  /\ StreamOK'
         /\ ~current_valid /\ MaskIn > 0 => ~current_valid' /\ MaskNearer
         /\ ~current_valid /\ result_valid => MaskFollows
         /\ current_valid /\ ~used =>
              current_valid' /\ byte_index' = byte_index /\ MaskNearer
         /\ used /\ byte_index # BLOCK_BYTES - 1 =>
              current_valid' /\ byte_index' = byte_index + 1 /\ MaskNearer
         /\ used /\ byte_index = BLOCK_BYTES - 1 /\ result_valid => MaskFollows
         /\ used /\ byte_index = BLOCK_BYTES - 1 /\ ~result_valid =>
              ~current_valid' /\ MaskNearer
         /\ ~result_valid /\ ~inflight /\ last_issued =>
              ~result_valid' /\ ~inflight' /\ last_issued'
         /\ ~result_valid /\ ~inflight /\ last_issued /\ ~current_valid => ~current_valid'
<1>1. Facts!StreamOK /\ Facts!StreamRun(used)
  BY SameRun DEF StreamOK, EngineOK, Facts!StreamOK, Facts!EngineOK
<1>2. /\ Facts!StreamOK' <=> StreamOK'
      /\ Facts!MaskNearer <=> MaskNearer
      /\ Facts!MaskFollows <=> MaskFollows
      /\ Facts!MaskIn = MaskIn
  BY DEF StreamOK, EngineOK, MaskNearer, MaskFollows, MaskIn,
     Facts!StreamOK, Facts!EngineOK, Facts!MaskNearer, Facts!MaskFollows, Facts!MaskIn
<1> QED  BY <1>1, <1>2, CipherAssumptions, Facts!StreamRuns
-----------------------------------------------------------------------------
One(p) == IF p THEN 1 ELSE 0

(* The bytes received and not yet on the line. *)
Waiting == Len(queue) + One(held_valid) + One(rd_valid) + One(rx_done)

(* Edges until the oldest of them is held. *)
FetchIn ==
  CASE held_valid                             -> 0
    [] ~held_valid /\ rd_valid                -> 1
    [] ~held_valid /\ ~rd_valid /\ queue # <<>> -> 2
    [] OTHER                                  -> IF rx_done THEN 3 ELSE 0

(* The two serial ports, and the read that is always answered at once. *)
PortsOK ==
  /\ tx_left \in Nat /\ tx_left <= FRAME /\ (tx_busy <=> tx_left # 0)
  /\ rx_wait \in Nat
  /\ read_pending => rd_valid

LEMMA WaitingFacts ==
  ASSUME BridgeIInv
  PROVE  /\ Len(queue) \in Nat /\ Len(queue) <= DEPTH /\ (queue = <<>> <=> Len(queue) = 0)
         /\ Waiting \in Nat /\ FetchIn \in 0..3
         /\ held_valid => FetchIn = 0 /\ Waiting > 0
         /\ ~held_valid /\ rd_valid => FetchIn = 1 /\ Waiting > 0
         /\ ~held_valid /\ ~rd_valid /\ queue # <<>> => FetchIn = 2 /\ Waiting > 0
         /\ ~held_valid /\ ~rd_valid /\ queue = <<>> /\ rx_done => FetchIn = 3 /\ Waiting = 1
         /\ ~held_valid /\ ~rd_valid /\ queue = <<>> /\ ~rx_done => FetchIn = 0 /\ Waiting = 0
<1>1. queue \in Seq(Byte) /\ Len(queue) \in Nat /\ Len(queue) <= DEPTH
  BY DepthFacts DEF BridgeIInv, FifoOK
<1>2. queue = <<>> <=> Len(queue) = 0
  BY <1>1, EmptySeq
<1> DEFINE n == Len(queue)
<1> HIDE DEF n
<1>3. n \in Nat /\ n <= DEPTH /\ (queue = <<>> <=> n = 0)
  BY <1>1, <1>2 DEF n
<1>4. Waiting = n + One(held_valid) + One(rd_valid) + One(rx_done)
  BY DEF Waiting, n
<1> DEFINE h == One(held_valid)
           r == One(rd_valid)
           x == One(rx_done)
<1>5. /\ h \in 0..1 /\ (held_valid => h = 1) /\ (~held_valid => h = 0)
      /\ r \in 0..1 /\ (rd_valid => r = 1) /\ (~rd_valid => r = 0)
      /\ x \in 0..1 /\ (rx_done => x = 1) /\ (~rx_done => x = 0)
  BY DEF One
<1> HIDE DEF h, r, x
<1>6. /\ Waiting \in Nat
      /\ held_valid \/ rd_valid \/ queue # <<>> => Waiting > 0
      /\ ~held_valid /\ ~rd_valid /\ queue = <<>> => Waiting = x
  <2>1. Waiting = n + h + r + x
    BY <1>4 DEF h, r, x
  <2>2. Waiting \in Nat /\ (h = 1 \/ r = 1 \/ n # 0 => Waiting > 0)
        /\ (h = 0 /\ r = 0 /\ n = 0 => Waiting = x)
    BY ONLY <1>3, <1>5, <2>1
  <2> QED  BY <1>3, <1>5, <2>2, Zenon
<1>7. /\ FetchIn \in 0..3
      /\ held_valid => FetchIn = 0
      /\ ~held_valid /\ rd_valid => FetchIn = 1
      /\ ~held_valid /\ ~rd_valid /\ queue # <<>> => FetchIn = 2
      /\ ~held_valid /\ ~rd_valid /\ queue = <<>> /\ rx_done => FetchIn = 3
      /\ ~held_valid /\ ~rd_valid /\ queue = <<>> /\ ~rx_done => FetchIn = 0
  BY DEF FetchIn
<1> QED  BY <1>3, <1>5, <1>6, <1>7 DEF n

LEMMA WaitingFactsNext ==
  BridgeIInv' =>
         /\ Len(queue') \in Nat /\ (queue' = <<>> <=> Len(queue') = 0)
         /\ FetchIn' \in 0..3
         /\ held_valid' => FetchIn' = 0
         /\ ~held_valid' /\ rd_valid' => FetchIn' = 1
         /\ ~held_valid' /\ ~rd_valid' /\ queue' # <<>> => FetchIn' = 2
         /\ ~held_valid' /\ ~rd_valid' /\ queue' = <<>> /\ rx_done' => FetchIn' = 3
         /\ ~held_valid' /\ ~rd_valid' /\ queue' = <<>> /\ ~rx_done' => FetchIn' = 0
<1> DEFINE F0 ==
         /\ Len(queue) \in Nat /\ (queue = <<>> <=> Len(queue) = 0)
         /\ FetchIn \in 0..3
         /\ held_valid => FetchIn = 0
         /\ ~held_valid /\ rd_valid => FetchIn = 1
         /\ ~held_valid /\ ~rd_valid /\ queue # <<>> => FetchIn = 2
         /\ ~held_valid /\ ~rd_valid /\ queue = <<>> /\ rx_done => FetchIn = 3
         /\ ~held_valid /\ ~rd_valid /\ queue = <<>> /\ ~rx_done => FetchIn = 0
<1>1. BridgeIInv => F0
  BY WaitingFacts
<1> HIDE DEF F0
<1>2. BridgeIInv' => F0'
  BY <1>1, PTL
<1> QED  BY <1>2 DEF F0

(* The queue loses the byte that is read and gains the one that arrives. *)
LEMMA QueueLength ==
  ASSUME BridgeIInv, Run(TRUE)
  PROVE  Len(queue') = Len(queue) - One(read_request(FALSE)) + One(rx_done)
<1> DEFINE read == read_request(FALSE)
           rest == Fifo!Remaining(read)
<1>1. queue \in Seq(Byte) /\ Len(queue) \in Nat /\ (rx_done => rx_data \in Byte)
  BY DepthFacts DEF BridgeIInv, FifoOK
<1>2. queue' = rest \o Arrived
  BY RunFifo DEF BridgeIInv, Run
<1>3. rest \in Seq(Byte) /\ Len(rest) = Len(queue) - One(read)
  <2>1. CASE read
    <3>1. queue # <<>> /\ rest = Tail(queue)
      BY <2>1 DEF read_request, Fifo!Remaining
    <3> HIDE DEF rest, read
    <3> QED  BY <1>1, <2>1, <3>1, TailFacts DEF One
  <2>2. CASE ~read
    <3>1. rest = queue
      BY <2>2 DEF Fifo!Remaining
    <3> HIDE DEF rest, read
    <3> QED  BY <1>1, <2>2, <3>1 DEF One
  <2> QED  BY <2>1, <2>2
<1>4. Arrived \in Seq(Byte) /\ Len(Arrived) = One(rx_done)
  BY <1>1 DEF Arrived, One
<1> HIDE DEF rest, read
<1>5. Len(rest \o Arrived) = Len(rest) + Len(Arrived)
  BY <1>3, <1>4, ConcatProperties
<1> QED  BY <1>2, <1>3, <1>4, <1>5 DEF read

(* The transmitter counts down, and starts on a byte only when free. *)
LEMMA LineRuns ==
  ASSUME PortsOK, Run(TRUE), FRAME \in Nat \ {0}
  PROVE  /\ tx_start(TRUE) => tx_left = 0 /\ tx_left' = FRAME
         /\ ~tx_start(TRUE) => tx_left' = IF tx_left = 0 THEN 0 ELSE tx_left - 1
         /\ tx_left' \in Nat /\ tx_left' <= FRAME /\ (tx_busy' <=> tx_left' # 0)
<1> DEFINE Counted == tx_left' \in Nat /\ tx_left' <= FRAME /\ (tx_busy' <=> tx_left' # 0)
<1>1. tx_left \in Nat /\ tx_left <= FRAME /\ (tx_busy <=> tx_left # 0)
  BY DEF PortsOK
<1>2. ASSUME tx_start(TRUE) PROVE tx_left = 0 /\ tx_left' = FRAME /\ Counted
  <2>1. ~tx_busy /\ tx_busy' /\ tx_left' = FRAME
    BY <1>2 DEF Run, Transmit, Tx!Start
  <2> QED  BY ONLY <1>1, <2>1, FRAME \in Nat \ {0}
<1>3. ASSUME ~tx_start(TRUE)
      PROVE  tx_left' = (IF tx_left = 0 THEN 0 ELSE tx_left - 1) /\ Counted
  <2>1. Tx!Send \/ Tx!EndFrame \/ Tx!Rest
    BY <1>3 DEF Run, Transmit, Tx!Tick
  <2>2. CASE Tx!Send
    <3>1. (tx_busy' <=> tx_busy) /\ tx_busy /\ tx_left > 1 /\ tx_left' = tx_left - 1
      BY ONLY <2>2 DEF Tx!Send
    <3> QED  BY ONLY <1>1, <3>1, FRAME \in Nat \ {0}
  <2>3. CASE Tx!EndFrame
    <3>1. ~tx_busy' /\ tx_left = 1 /\ tx_left' = 0
      BY ONLY <2>3 DEF Tx!EndFrame
    <3> QED  BY ONLY <1>1, <3>1, FRAME \in Nat \ {0}
  <2>4. CASE Tx!Rest
    <3>1. (tx_busy' <=> tx_busy) /\ ~tx_busy /\ tx_left' = tx_left
      BY ONLY <2>4 DEF Tx!Rest
    <3> QED  BY ONLY <1>1, <3>1, FRAME \in Nat \ {0}
  <2> HIDE DEF Counted
  <2> QED  BY <2>1, <2>2, <2>3, <2>4
<1> QED  BY <1>2, <1>3

(* Between two arrivals lie more than RX_GAP edges. *)
LEMMA SourceRuns ==
  ASSUME PortsOK, Rx!Clock
  PROVE  /\ rx_wait' \in Nat /\ rx_wait <= rx_wait' + 1
         /\ rx_done' => rx_wait = 0 /\ rx_wait' = RX_GAP
<1>1. RX_GAP \in Nat /\ RX_REARM \in Nat
  BY BridgeAssumption
<1> QED  BY <1>1 DEF PortsOK, Rx!Clock, Rx!Receive, Rx!FramingError, Rx!Quiet

(* A byte on its way is one register further after every edge. *)
LEMMA FetchRuns ==
  ASSUME BridgeIInv, BridgeIInv', PortsOK, Run(TRUE)
  PROVE  /\ read_pending' => rd_valid'
         /\ Waiting' = Waiting - One(tx_start(TRUE)) + One(rx_done')
         /\ tx_start(TRUE) => held_valid
         /\ ~tx_start(TRUE) /\ Waiting > 0 =>
              FetchIn' = IF FetchIn = 0 THEN 0 ELSE FetchIn - 1
         /\ Waiting = 0 /\ ~rx_done' => FetchIn' = 0
<1> DEFINE start == tx_start(TRUE)
           read  == read_request(FALSE)
           n == Len(queue)
<1>1. read <=> ~held_valid /\ ~rd_valid /\ queue # <<>>
  BY DEF BridgeIInv, FaultEnds, HoldOK, PortsOK, read_request, Run
<1>2. start => held_valid
  BY DEF tx_start, Cipher!transfer
<1>3. rd_valid' <=> read
  BY <1>1 DEF Run, Fifo!Clock
<1>4. held_valid' <=> rd_valid \/ (held_valid /\ ~start)
  BY DEF Run, Hold
<1>5. read_pending' => rd_valid'
  BY <1>3 DEF Run, Hold, PortsOK
<1>6. rd_valid => ~held_valid
  BY DEF BridgeIInv, HoldOK
<1>7. n' = n - One(read) + One(rx_done) /\ n \in Nat /\ n' \in Nat
  BY QueueLength, WaitingFacts, WaitingFactsNext
<1>8. (n = 0 <=> queue = <<>>) /\ (n' = 0 <=> queue' = <<>>)
  BY WaitingFacts, WaitingFactsNext
<1> HIDE DEF start, read, n
<1>9. Waiting' = Waiting - One(start) + One(rx_done')
  <2> DEFINE h == One(held_valid)
             r == One(rd_valid)
             x == One(rx_done)
             d == One(read)
             s == One(start)
  <2>1. Waiting = n + h + r + x /\ Waiting' = n' + h' + r' + x'
    BY DEF Waiting, n
  <2>2. r' = d /\ d \in Nat
    BY <1>3 DEF One
  <2>3. h' = r + h - s /\ h \in Nat /\ r \in Nat /\ s \in Nat
    BY <1>2, <1>4, <1>6 DEF One
  <2>4. x \in Nat /\ x' \in Nat /\ One(rx_done') = x'
    BY DEF One
  <2> HIDE DEF h, r, x, d, s
  <2>5. n' = n - d + x
    BY <1>7 DEF d, x
  <2>6. Waiting' = Waiting - s + x'
    BY ONLY <1>7, <2>1, <2>2, <2>3, <2>4, <2>5
  <2> QED  BY <2>4, <2>6 DEF s
<1>10. ASSUME ~start, Waiting > 0
       PROVE  FetchIn' = IF FetchIn = 0 THEN 0 ELSE FetchIn - 1
  <2>1. CASE held_valid
    <3>1. held_valid'
      BY <1>4, <1>10, <2>1
    <3>2. FetchIn = 0 /\ FetchIn' = 0
      BY <2>1, <3>1, WaitingFacts, WaitingFactsNext
    <3> QED  BY <3>2
  <2>2. CASE ~held_valid /\ rd_valid
    <3>1. held_valid'
      BY <1>4, <2>2
    <3>2. FetchIn = 1 /\ FetchIn' = 0
      BY <2>2, <3>1, WaitingFacts, WaitingFactsNext
    <3> QED  BY <3>2
  <2>3. CASE ~held_valid /\ ~rd_valid /\ queue # <<>>
    <3>1. rd_valid' /\ ~held_valid'
      BY <1>1, <1>3, <1>4, <2>3
    <3>2. FetchIn = 2 /\ FetchIn' = 1
      BY <2>3, <3>1, WaitingFacts, WaitingFactsNext
    <3> QED  BY <3>2
  <2>4. CASE ~held_valid /\ ~rd_valid /\ queue = <<>>
    <3>1. ~read /\ ~rd_valid' /\ ~held_valid'
      BY <1>1, <1>3, <1>4, <2>4
    <3>2. rx_done /\ FetchIn = 3
      BY <1>10, <2>4, WaitingFacts
    <3>3. One(read) = 0 /\ One(rx_done) = 1 /\ n = 0
      BY <1>8, <2>4, <3>1, <3>2 DEF One
    <3>4. n' # 0
      BY ONLY <1>7, <3>3
    <3>5. FetchIn' = 2
      BY <1>8, <3>1, <3>4, WaitingFactsNext
    <3> QED  BY <3>2, <3>5
  <2> QED  BY <2>1, <2>2, <2>3, <2>4
<1>11. ASSUME Waiting = 0, ~rx_done' PROVE FetchIn' = 0
  <2>1. ~held_valid /\ ~rd_valid /\ queue = <<>> /\ ~rx_done
    <3>1. ~(Waiting > 0) /\ Waiting # 1
      BY <1>11
    <3> QED  BY <3>1, WaitingFacts
  <2>2. ~read /\ ~rd_valid' /\ ~held_valid'
    BY <1>1, <1>3, <1>4, <2>1
  <2>3. One(read) = 0 /\ One(rx_done) = 0 /\ n = 0
    BY <1>8, <2>1, <2>2 DEF One
  <2>4. n' = 0
    BY ONLY <1>7, <2>3
  <2> QED  BY <1>8, <1>11, <2>2, <2>4, WaitingFactsNext
<1> QED  BY <1>2, <1>5, <1>9, <1>10, <1>11 DEF start
-----------------------------------------------------------------------------
(* The bytes come no faster than the line can send them; the cipher makes  *)
(* a mask in no more time than its bytes take; and the FIFO has room for   *)
(* what arrives before the first mask.                                     *)
InTime ==
  /\ FRAME >= 3
  /\ RX_GAP >= FRAME
  /\ LATENCY + 2 <= BLOCK_BYTES * ByteTime
  /\ LATENCY + 4 <= (DEPTH + 1) * ByteTime

(* Edges until the cipher offers a byte. *)
KeyIn == IF ~ENABLE_AES \/ current_valid THEN 0 ELSE MaskIn + 1

(* Edges that the source still leaves, at most a frame of them. *)
Grace == IF rx_wait < FRAME THEN rx_wait ELSE FRAME

(* All bytes waiting would be on the line in time, if the next of them     *)
(* started after t edges.                                                  *)
NoLater(t) == t + Waiting * ByteTime <= Grace + LATENCY + 4

(* What the bytes left of the mask in use take on the line. *)
Rest(i) == (BLOCK_BYTES - i) * ByteTime

KeepsPace ==
  /\ ENABLE_AES /\ current_valid => MaskIn < tx_left + Rest(byte_index)
  /\ NoLater(tx_left) /\ NoLater(FetchIn) /\ NoLater(KeyIn)

(* What a held byte waits for: the ports, and the cipher of a session. *)
WaitOK ==
  /\ PortsOK
  /\ ENABLE_AES /\ active => StreamOK

PaceOK ==
  /\ WaitOK
  /\ active /\ ~exhausted => KeepsPace

LEMMA PaceConstants ==
  /\ FRAME \in Nat \ {0} /\ RX_GAP \in Nat /\ ByteTime \in Nat /\ ByteTime = FRAME + 1
  /\ \A i \in 0..BLOCK_BYTES - 1 : Rest(i) \in Nat /\ Rest(i) >= ByteTime
  /\ \A i \in 0..BLOCK_BYTES - 2 : Rest(i + 1) = Rest(i) - ByteTime
  /\ Rest(BLOCK_BYTES - 1) = ByteTime
  /\ Rest(0) = BLOCK_BYTES * ByteTime
<1>1. FRAME \in Nat \ {0} /\ RX_GAP \in Nat /\ ByteTime \in Nat /\ ByteTime = FRAME + 1
  BY BridgeAssumption DEF ByteTime
<1>2. \A m, t \in Nat : m >= 1 => m * t \in Nat /\ m * t >= t
  OBVIOUS
<1>3. \A m, t \in Nat : m >= 1 => (m - 1) * t = m * t - t
  OBVIOUS
<1>4. ASSUME NEW i \in 0..BLOCK_BYTES - 1 PROVE Rest(i) \in Nat /\ Rest(i) >= ByteTime
  <2>1. BLOCK_BYTES - i \in Nat /\ BLOCK_BYTES - i >= 1
    BY BlockFacts
  <2> QED  BY <1>1, <1>2, <2>1 DEF Rest
<1>5. ASSUME NEW i \in 0..BLOCK_BYTES - 2 PROVE Rest(i + 1) = Rest(i) - ByteTime
  <2>1. /\ BLOCK_BYTES - i \in Nat /\ BLOCK_BYTES - i >= 1
        /\ BLOCK_BYTES - (i + 1) = (BLOCK_BYTES - i) - 1
    BY BlockFacts
  <2> QED  BY <1>1, <1>3, <2>1 DEF Rest
<1>6. Rest(BLOCK_BYTES - 1) = ByteTime
  <2>1. BLOCK_BYTES - (BLOCK_BYTES - 1) = 1
    BY BlockFacts
  <2> QED  BY <1>1, <2>1 DEF Rest
<1>7. Rest(0) = BLOCK_BYTES * ByteTime
  <2>1. BLOCK_BYTES - 0 = BLOCK_BYTES
    BY BlockFacts
  <2> QED  BY <2>1 DEF Rest
<1> QED  BY <1>1, <1>4, <1>5, <1>6, <1>7

(* The end of the keystream, register by register; it is final. *)
LEMMA ExhaustedIs ==
  exhausted <=> ENABLE_AES /\ cipher_active /\ last_issued /\ ~inflight
                /\ ~result_valid /\ ~current_valid
<1> QED  BY DEF exhausted, Cipher!stream_exhausted, Cipher!exhausted

LEMMA ExhaustedIsNext ==
  exhausted' <=> ENABLE_AES' /\ cipher_active' /\ last_issued' /\ ~inflight'
                 /\ ~result_valid' /\ ~current_valid'
<1> QED  BY DEF exhausted, Cipher!stream_exhausted, Cipher!exhausted

(* The keystream is never what the line waits for once it has begun: the   *)
(* next mask is there within a frame of the last byte of the present one.  *)
LEMMA KeystreamRuns ==
  ASSUME InTime, BridgeIInv, PortsOK, StreamOK, ENABLE_AES, Run(TRUE),
         ~exhausted, ~exhausted',
         current_valid => MaskIn < tx_left + Rest(byte_index)
  PROVE  /\ StreamOK'
         /\ tx_start(TRUE) => KeyIn = 0 /\ KeyIn' <= FRAME
         /\ ~tx_start(TRUE) => KeyIn' = IF KeyIn = 0 THEN 0 ELSE KeyIn - 1
         /\ KeyIn \in Nat /\ KeyIn' \in Nat
         /\ current_valid' => MaskIn' < tx_left' + Rest(byte_index')
<1> DEFINE start == tx_start(TRUE)
           Goal ==
             /\ StreamOK'
             /\ start => KeyIn = 0 /\ KeyIn' <= FRAME
             /\ ~start => KeyIn' = IF KeyIn = 0 THEN 0 ELSE KeyIn - 1
             /\ KeyIn \in Nat /\ KeyIn' \in Nat
             /\ current_valid' => MaskIn' < tx_left' + Rest(byte_index')
<1> SUFFICES Goal
  OBVIOUS
<1>1. start \in BOOLEAN /\ (start => current_valid) /\ Cipher!StreamRun(start)
      /\ ENABLE_AES' = ENABLE_AES
  BY Zenon DEF tx_start, Cipher!transfer, Run, CipherRun
<1>2. /\ start => tx_left = 0 /\ tx_left' = FRAME
      /\ ~start => tx_left' = IF tx_left = 0 THEN 0 ELSE tx_left - 1
      /\ tx_left \in Nat /\ tx_left' \in Nat
  BY LineRuns, PaceConstants DEF PortsOK
<1> HIDE DEF start, Goal
<1>3. /\ ~current_valid /\ MaskIn > 0 => ~current_valid' /\ MaskNearer
      /\ ~current_valid /\ result_valid => MaskFollows
      /\ current_valid /\ ~start =>
           current_valid' /\ byte_index' = byte_index /\ MaskNearer
      /\ start /\ byte_index # BLOCK_BYTES - 1 =>
           current_valid' /\ byte_index' = byte_index + 1 /\ MaskNearer
      /\ start /\ byte_index = BLOCK_BYTES - 1 /\ result_valid => MaskFollows
      /\ start /\ byte_index = BLOCK_BYTES - 1 /\ ~result_valid =>
           ~current_valid' /\ MaskNearer
      /\ StreamOK'
  BY <1>1, StreamRuns
<1>4. MaskIn \in Nat /\ byte_index \in 0..BLOCK_BYTES - 1
  BY MaskInFacts DEF StreamOK
<1>5. Rest(byte_index) \in Nat /\ Rest(byte_index) >= ByteTime
  BY <1>4, PaceConstants
<1>6. /\ current_valid => KeyIn = 0
      /\ ~current_valid => KeyIn = MaskIn + 1
      /\ current_valid' => KeyIn' = 0
      /\ ~current_valid' => KeyIn' = MaskIn' + 1
  BY <1>1 DEF KeyIn
<1>7. ASSUME MaskFollows PROVE KeyIn' = 0 /\ MaskIn' < tx_left' + Rest(byte_index')
  <2>1. current_valid' /\ byte_index' = 0 /\ MaskIn' \in Nat /\ MaskIn' <= LATENCY + 1
    BY <1>7 DEF MaskFollows
  <2>2. Rest(byte_index') = BLOCK_BYTES * ByteTime /\ Rest(byte_index') \in Nat
    BY <2>1, PaceConstants, BlockFacts
  <2>3. LATENCY + 2 <= Rest(byte_index')
    BY <2>2 DEF InTime
  <2> QED  BY <1>2, <1>6, <2>1, <2>2, <2>3, LatencyFacts
<1>8. CASE ~current_valid
  <2>1. ~start
    BY <1>1, <1>8
  <2>2. CASE MaskIn > 0
    <3>1. ~current_valid' /\ MaskIn' = MaskIn - 1
      BY <1>3, <1>8, <2>2 DEF MaskNearer
    <3>2. KeyIn = MaskIn + 1 /\ KeyIn' = MaskIn
      BY <1>4, <1>6, <1>8, <3>1
    <3>3. /\ KeyIn' = IF KeyIn = 0 THEN 0 ELSE KeyIn - 1
          /\ KeyIn \in Nat /\ KeyIn' \in Nat
      BY ONLY <1>4, <3>2
    <3> QED  BY Zenon, <1>3, <2>1, <3>1, <3>3 DEF Goal
  <2>3. CASE MaskIn = 0
    <3>1. result_valid
      <4>1. cipher_active
        BY DEF BridgeIInv, CipherFollows, Run
      <4>2. result_valid \/ inflight \/ ~last_issued
        BY <1>8, <4>1, ExhaustedIs
      <4> QED  BY <2>3, <4>2, MaskInFacts, LatencyFacts DEF StreamOK, EngineOK
    <3>2. KeyIn = 1 /\ KeyIn' = 0 /\ MaskIn' < tx_left' + Rest(byte_index')
      BY <1>3, <1>6, <1>7, <1>8, <2>3, <3>1
    <3>3. /\ KeyIn' = IF KeyIn = 0 THEN 0 ELSE KeyIn - 1
          /\ KeyIn \in Nat /\ KeyIn' \in Nat
      BY ONLY <3>2
    <3> QED  BY Zenon, <1>3, <2>1, <3>2, <3>3 DEF Goal
  <2> QED  BY <1>4, <2>2, <2>3
<1>9. CASE current_valid /\ ~start
  <2>1. current_valid' /\ byte_index' = byte_index
        /\ MaskIn' = IF MaskIn = 0 THEN 0 ELSE MaskIn - 1
    BY <1>3, <1>9 DEF MaskNearer
  <2>2. MaskIn' < tx_left' + Rest(byte_index')
    BY <1>2, <1>4, <1>5, <1>9, <2>1, PaceConstants
  <2>3. /\ KeyIn' = IF KeyIn = 0 THEN 0 ELSE KeyIn - 1
        /\ KeyIn \in Nat /\ KeyIn' \in Nat
    <3>1. KeyIn = 0 /\ KeyIn' = 0
      BY Zenon, <1>6, <1>9, <2>1
    <3> QED  BY ONLY <3>1
  <2> QED  BY Zenon, <1>3, <1>9, <2>2, <2>3 DEF Goal
<1>10. CASE start /\ byte_index # BLOCK_BYTES - 1
  <2>1. /\ current_valid /\ current_valid' /\ byte_index' = byte_index + 1
        /\ MaskIn' = IF MaskIn = 0 THEN 0 ELSE MaskIn - 1
    BY <1>1, <1>3, <1>10 DEF MaskNearer
  <2>2. byte_index \in 0..BLOCK_BYTES - 2 /\ byte_index + 1 \in 0..BLOCK_BYTES - 1
    BY <1>4, <1>10, BlockFacts
  <2>3. Rest(byte_index') = Rest(byte_index) - ByteTime /\ Rest(byte_index') >= ByteTime
    BY <2>1, <2>2, PaceConstants
  <2>4. MaskIn' < tx_left' + Rest(byte_index')
    BY <1>2, <1>4, <1>5, <1>10, <2>1, <2>3, PaceConstants
  <2> QED  BY <1>3, <1>6, <1>10, <2>1, <2>4, PaceConstants DEF Goal
<1>11. CASE start /\ byte_index = BLOCK_BYTES - 1 /\ result_valid
  BY <1>1, <1>3, <1>6, <1>7, <1>11, PaceConstants DEF Goal
<1>12. CASE start /\ byte_index = BLOCK_BYTES - 1 /\ ~result_valid
  <2>1. /\ current_valid /\ ~current_valid'
        /\ MaskIn' = IF MaskIn = 0 THEN 0 ELSE MaskIn - 1
    BY <1>1, <1>3, <1>12 DEF MaskNearer
  <2>2. MaskIn < ByteTime
    BY <1>2, <1>4, <1>12, <2>1, PaceConstants
  <2>3. KeyIn = 0 /\ KeyIn' = MaskIn' + 1
    BY <1>6, <2>1
  <2>4. KeyIn' \in Nat /\ KeyIn' <= FRAME
    BY <1>4, <2>1, <2>2, <2>3, PaceConstants
  <2> QED  BY <1>3, <1>12, <2>1, <2>3, <2>4 DEF Goal
<1> QED  BY <1>8, <1>9, <1>10, <1>11, <1>12

(* The end of the keystream is final. *)
LEMMA ExhaustedStays ==
  ASSUME StreamOK, ENABLE_AES, Run(TRUE), exhausted
  PROVE  exhausted'
<1>1. /\ cipher_active /\ last_issued /\ ~inflight /\ ~result_valid /\ ~current_valid
  BY ExhaustedIs
<1>2. Cipher!StreamRun(FALSE) /\ ENABLE_AES' = ENABLE_AES
  BY <1>1 DEF Run, CipherRun, tx_start, Cipher!transfer
<1>3. ~result_valid' /\ ~inflight' /\ last_issued' /\ ~current_valid'
  BY <1>1, <1>2, StreamRuns
<1>4. cipher_active' = cipher_active
  BY <1>2 DEF Cipher!StreamRun, Cipher!Run
<1> QED  BY <1>1, <1>2, <1>3, <1>4, ExhaustedIsNext

(* Capping both keeps the distance. *)
LEMMA Capped ==
  ASSUME NEW f \in Nat, NEW v \in Nat, NEW w \in Nat, v <= w + 1
  PROVE  /\ (IF v < f THEN v ELSE f) \in Nat
         /\ (IF v < f THEN v ELSE f) <= (IF w < f THEN w ELSE f) + 1
<1> QED  OBVIOUS

(* The edges the source leaves pass one by one; with a byte they are all   *)
(* there again.                                                            *)
LEMMA GraceRuns ==
  ASSUME InTime, PortsOK, Rx!Clock
  PROVE  /\ Grace \in Nat /\ Grace' \in Nat
         /\ rx_done' => Grace = 0 /\ Grace' = FRAME
         /\ Grace <= Grace' + 1
<1>1. /\ rx_wait \in Nat /\ rx_wait' \in Nat /\ rx_wait <= rx_wait' + 1
      /\ rx_done' => rx_wait = 0 /\ rx_wait' = RX_GAP
  BY SourceRuns DEF PortsOK
<1>2. FRAME \in Nat \ {0} /\ RX_GAP \in Nat /\ RX_GAP >= FRAME
  BY PaceConstants DEF InTime
<1>3. /\ Grace = IF rx_wait < FRAME THEN rx_wait ELSE FRAME
      /\ Grace' = IF rx_wait' < FRAME THEN rx_wait' ELSE FRAME
  BY DEF Grace
<1>4. Grace \in Nat /\ Grace' \in Nat /\ Grace <= Grace' + 1
  <2>1. rx_wait \in Nat /\ rx_wait' \in Nat /\ rx_wait <= rx_wait' + 1
    BY <1>1
  <2>2. Grace \in Nat /\ Grace <= Grace' + 1
    BY <1>2, <1>3, <2>1, Capped
  <2>3. Grace' \in Nat
    BY ONLY <1>2, <1>3, <2>1
  <2> QED  BY <2>2, <2>3
<1>5. ASSUME rx_done' PROVE Grace = 0 /\ Grace' = FRAME
  <2>1. rx_wait = 0 /\ rx_wait' = RX_GAP
    BY <1>1, <1>5
  <2> QED  BY ONLY <1>2, <1>3, <2>1
<1> QED  BY <1>4, <1>5

LEMMA WorkFacts ==
  ASSUME NEW n \in Nat, NEW t \in Nat
  PROVE  /\ n * t \in Nat
         /\ n = 0 => n * t = 0
         /\ n > 0 => n * t >= t
         /\ (n + 1) * t = n * t + t
         /\ n > 0 => (n - 1) * t = n * t - t
<1> QED  OBVIOUS

(* A byte that could leave and does not waits for the line, for its own    *)
(* arrival in the holding register, or for the cipher.                     *)
LEMMA WhatIsWaitedFor ==
  ASSUME BridgeIInv, PortsOK, Run(TRUE), ~tx_start(TRUE), Waiting > 0,
         ENABLE_AES => StreamOK
  PROVE  tx_left > 0 \/ FetchIn > 0 \/ KeyIn > 0
<1>1. CASE ~held_valid
  <2>1. FetchIn # 0
    BY <1>1, WaitingFacts
  <2> QED  BY <2>1, WaitingFacts
<1>2. CASE held_valid /\ tx_busy
  BY <1>2 DEF PortsOK
<1>3. CASE held_valid /\ ~tx_busy
  <2>1. active /\ ~faulted
    BY DEF Run, BridgeIInv, FaultEnds
  <2>2. ENABLE_AES /\ ~current_valid
    BY <1>3, <2>1 DEF tx_start, output_ready, Cipher!transfer, BridgeIInv, CipherFollows
  <2>3. KeyIn = MaskIn + 1 /\ MaskIn \in Nat
    BY <2>2, MaskInFacts DEF KeyIn, StreamOK
  <2> QED  BY <2>3
<1> QED  BY <1>1, <1>2, <1>3

(* The ports keep their shape whatever the source sends. *)
LEMMA PortsRun ==
  ASSUME BridgeIInv, BridgeIInv', PortsOK, Run(TRUE)
  PROVE  PortsOK'
<1>1. Rx!Clock
  BY DEF Run
<1> QED  BY <1>1, LineRuns, SourceRuns, FetchRuns, PaceConstants DEF PortsOK

(* When a byte can leave: the cipher and the source around it. *)
LEMMA KeyRuns ==
  ASSUME InTime, BridgeIInv, PortsOK, ENABLE_AES => StreamOK, Run(TRUE),
         ~exhausted, ~exhausted',
         ENABLE_AES /\ current_valid => MaskIn < tx_left + Rest(byte_index)
  PROVE  /\ tx_start(TRUE) => KeyIn = 0 /\ KeyIn' <= FRAME
         /\ ~tx_start(TRUE) => KeyIn' = IF KeyIn = 0 THEN 0 ELSE KeyIn - 1
         /\ KeyIn \in Nat /\ KeyIn' \in Nat
         /\ ENABLE_AES' /\ current_valid' => MaskIn' < tx_left' + Rest(byte_index')
<1>1. ENABLE_AES' = ENABLE_AES
  BY DEF Run, CipherRun
<1>2. CASE ENABLE_AES
  BY <1>1, <1>2, KeystreamRuns
<1>3. CASE ~ENABLE_AES
  <2>1. KeyIn = 0 /\ KeyIn' = 0 /\ ~ENABLE_AES'
    BY <1>1, <1>3 DEF KeyIn
  <2> HIDE DEF tx_start
  <2>2. KeyIn' = (IF KeyIn = 0 THEN 0 ELSE KeyIn - 1) /\ KeyIn \in Nat /\ KeyIn' \in Nat
        /\ KeyIn' <= FRAME
    BY ONLY <2>1, PaceConstants
  <2> QED  BY Zenon, <2>1, <2>2
<1> QED  BY <1>2, <1>3

LEMMA OneFacts ==
  ASSUME NEW b
  PROVE  One(b) \in 0..1 /\ (b => One(b) = 1) /\ (~b => One(b) = 0)
<1> QED  BY DEF One

(* The schedule is kept at every edge of a session. *)
LEMMA PaceRuns ==
  ASSUME InTime, BridgeIInv, BridgeIInv', PortsOK, ENABLE_AES => StreamOK,
         Run(TRUE), ~exhausted, ~exhausted', KeepsPace
  PROVE  KeepsPace'
<1> DEFINE start == tx_start(TRUE)
           s == One(start)
           x == One(rx_done')
           p == Waiting * ByteTime
           q == Waiting' * ByteTime
           g == Grace
           h == Grace'
<1>1. FRAME \in Nat /\ LATENCY \in Nat /\ LATENCY >= 1 /\ ByteTime = FRAME + 1 /\ FRAME >= 3
  BY PaceConstants, LatencyFacts DEF InTime
<1>2. /\ g \in Nat /\ h \in Nat /\ g <= h + 1
      /\ rx_done' => g = 0 /\ h = FRAME
  BY GraceRuns DEF Run
<1>3. /\ s \in 0..1 /\ (start => s = 1) /\ (~start => s = 0)
      /\ x \in 0..1 /\ (rx_done' => x = 1) /\ (~rx_done' => x = 0)
  BY OneFacts, Zenon
<1>4. Waiting' = Waiting - s + x /\ (start => Waiting > 0) /\ Waiting \in Nat
  BY FetchRuns, WaitingFacts
<1> HIDE DEF start, s, x, g, h
<1>5. /\ p \in Nat /\ q \in Nat
      /\ Waiting = 0 => p = 0
      /\ s = 0 /\ x = 0 => q = p
      /\ s = 0 /\ x = 1 => q = p + (FRAME + 1)
      /\ s = 1 /\ x = 0 => p >= FRAME + 1 /\ q = p - (FRAME + 1)
      /\ s = 1 /\ x = 1 => q = p
  <2>1. Waiting > 0 \/ s = 0
    BY <1>3, <1>4
  <2> DEFINE n == Waiting
             m == Waiting'
  <2>2. n \in Nat /\ m \in Nat /\ m = n - s + x /\ (n > 0 \/ s = 0) /\ s \in 0..1 /\ x \in 0..1
    BY <1>3, <1>4, <2>1
  <2>3. ByteTime \in Nat /\ ByteTime = FRAME + 1
    BY <1>1
  <2>4. /\ n * ByteTime \in Nat /\ m * ByteTime \in Nat
        /\ n = 0 => n * ByteTime = 0
        /\ n > 0 => n * ByteTime >= ByteTime
        /\ (n + 1) * ByteTime = n * ByteTime + ByteTime
        /\ n > 0 => (n - 1) * ByteTime = n * ByteTime - ByteTime
    <3> HIDE DEF n, m
    <3> QED  BY <2>2, <2>3, WorkFacts
  <2> HIDE DEF n, m
  <2>5. \/ s = 0 /\ x = 0 /\ m = n
        \/ s = 0 /\ x = 1 /\ m = n + 1
        \/ s = 1 /\ x = 0 /\ m = n - 1 /\ n > 0
        \/ s = 1 /\ x = 1 /\ m = n /\ n > 0
    BY ONLY <2>2
  <2>6. p = n * ByteTime /\ q = m * ByteTime
    BY DEF n, m
  <2> HIDE DEF p, q
  <2> QED  BY <2>3, <2>4, <2>5, <2>6 DEF n
<1> HIDE DEF p, q
<1>6. /\ tx_left + p <= g + LATENCY + 4
      /\ FetchIn + p <= g + LATENCY + 4
      /\ KeyIn + p <= g + LATENCY + 4
  BY DEF KeepsPace, NoLater, p, g
<1>7. /\ start => KeyIn = 0 /\ KeyIn' <= FRAME
      /\ ~start => KeyIn' = IF KeyIn = 0 THEN 0 ELSE KeyIn - 1
      /\ KeyIn \in Nat /\ KeyIn' \in Nat
      /\ ENABLE_AES' /\ current_valid' => MaskIn' < tx_left' + Rest(byte_index')
  BY KeyRuns DEF KeepsPace, start
<1>8. /\ start => tx_left = 0 /\ tx_left' = FRAME
      /\ ~start => tx_left' = IF tx_left = 0 THEN 0 ELSE tx_left - 1
      /\ tx_left \in Nat /\ tx_left' \in Nat
  BY LineRuns, PaceConstants DEF PortsOK, start
<1>9. /\ start => FetchIn = 0
      /\ ~start /\ Waiting > 0 => FetchIn' = IF FetchIn = 0 THEN 0 ELSE FetchIn - 1
      /\ Waiting = 0 /\ ~rx_done' => FetchIn' = 0
      /\ FetchIn \in Nat /\ FetchIn' \in Nat /\ FetchIn' <= 3
  <2>1. FetchIn \in 0..3 /\ FetchIn' \in 0..3 /\ (held_valid => FetchIn = 0)
    BY WaitingFacts, WaitingFactsNext
  <2>2. /\ start => held_valid
        /\ ~start /\ Waiting > 0 => FetchIn' = IF FetchIn = 0 THEN 0 ELSE FetchIn - 1
        /\ Waiting = 0 /\ ~rx_done' => FetchIn' = 0
    BY FetchRuns DEF start
  <2>3. FetchIn \in Nat /\ FetchIn' \in Nat /\ FetchIn' <= 3
    BY ONLY <2>1
  <2> QED  BY <2>1, <2>2, <2>3
<1>10. ~start /\ Waiting > 0 => tx_left > 0 \/ FetchIn > 0 \/ KeyIn > 0
  BY WhatIsWaitedFor DEF start
<1> DEFINE Later(u) == u + q <= h + LATENCY + 4
<1>11. ASSUME NEW u \in Nat,
              \/ s = 1 /\ u <= FRAME
              \/ s = 0 /\ Waiting = 0 /\ (x = 0 => u = 0) /\ u <= 3
              \/ /\ s = 0
                 /\ \E t \in Nat : t > 0 /\ t + p <= g + LATENCY + 4 /\ u <= t - 1
       PROVE  Later(u)
  <2>1. x = 1 => g = 0 /\ h = FRAME
    <3>1. CASE rx_done'
      BY <1>2, <3>1
    <3>2. CASE ~rx_done'
      <4>1. x = 0
        BY <1>3, <3>2
      <4> QED  BY ONLY <4>1
    <3> QED  BY <3>1, <3>2
  <2>2. p <= g + LATENCY + 4
    BY <1>1, <1>2, <1>5, <1>6, <1>8
  <2>3. s \in 0..1 /\ x \in 0..1
    BY <1>3
  <2>7. g \in Nat /\ h \in Nat /\ g <= h + 1
    BY <1>2
  <2>4. CASE s = 1 /\ u <= FRAME
    BY ONLY <1>1, <1>5, <1>11, <2>1, <2>2, <2>3, <2>4, <2>7 DEF Later
  <2>5. CASE s = 0 /\ Waiting = 0 /\ (x = 0 => u = 0) /\ u <= 3
    <3>1. p = 0
      BY <1>5, <2>5
    <3> QED  BY ONLY <1>1, <1>5, <1>11, <2>1, <2>3, <2>5, <2>7, <3>1 DEF Later
  <2>6. CASE s = 0 /\ \E t \in Nat : t > 0 /\ t + p <= g + LATENCY + 4 /\ u <= t - 1
    <3>1. PICK t \in Nat : t > 0 /\ t + p <= g + LATENCY + 4 /\ u <= t - 1
      BY <2>6
    <3>2. s = 0 /\ t \in Nat /\ u \in Nat
      BY <1>11, <2>6
    <3> QED  BY ONLY <1>1, <1>5, <2>1, <2>3, <2>7, <3>1, <3>2 DEF Later
  <2> QED  BY <1>11, <2>4, <2>5, <2>6
<1> HIDE DEF Later
<1>12. Later(tx_left') /\ Later(FetchIn') /\ Later(KeyIn')
  <2>1. CASE start
    <3>1. s = 1 /\ tx_left' \in Nat /\ FetchIn' \in Nat /\ KeyIn' \in Nat
          /\ tx_left' <= FRAME /\ FetchIn' <= FRAME /\ KeyIn' <= FRAME
      BY <1>1, <1>3, <1>7, <1>8, <1>9, <2>1
    <3> QED  BY <1>11, <3>1
  <2>2. CASE ~start /\ Waiting > 0
    <3>1. /\ s = 0 /\ tx_left' \in Nat /\ FetchIn' \in Nat /\ KeyIn' \in Nat
          /\ tx_left' = IF tx_left = 0 THEN 0 ELSE tx_left - 1
          /\ FetchIn' = IF FetchIn = 0 THEN 0 ELSE FetchIn - 1
          /\ KeyIn' = IF KeyIn = 0 THEN 0 ELSE KeyIn - 1
          /\ tx_left \in Nat /\ FetchIn \in Nat /\ KeyIn \in Nat
      BY <1>3, <1>7, <1>8, <1>9, <2>2
    <3>2. \E t \in Nat : t > 0 /\ t + p <= g + LATENCY + 4
      BY <1>6, <1>10, <2>2, <3>1
    <3>3. PICK t \in Nat : t > 0 /\ t + p <= g + LATENCY + 4
      BY <3>2
    <3>4. \A v, w \in Nat : v + p <= g + LATENCY + 4 /\ w = (IF v = 0 THEN 0 ELSE v - 1)
            => \E r \in Nat : r > 0 /\ r + p <= g + LATENCY + 4 /\ w <= r - 1
      <4> SUFFICES ASSUME NEW v \in Nat, NEW w \in Nat, v + p <= g + LATENCY + 4,
                          w = (IF v = 0 THEN 0 ELSE v - 1)
                   PROVE  \E r \in Nat : r > 0 /\ r + p <= g + LATENCY + 4 /\ w <= r - 1
        OBVIOUS
      <4>1. CASE v = 0
        <5>1. w <= t - 1
          BY <3>3, <4>1
        <5> QED  BY <3>3, <5>1
      <4>2. CASE v > 0
        BY <4>2
      <4> QED  BY <4>1, <4>2
    <3> QED  BY <1>6, <1>11, <3>1, <3>4
  <2>3. CASE ~start /\ Waiting = 0
    <3>1. /\ s = 0 /\ tx_left' \in Nat /\ FetchIn' \in Nat /\ KeyIn' \in Nat
          /\ tx_left' = IF tx_left = 0 THEN 0 ELSE tx_left - 1
          /\ KeyIn' = IF KeyIn = 0 THEN 0 ELSE KeyIn - 1
          /\ tx_left \in Nat /\ KeyIn \in Nat
          /\ FetchIn' <= 3 /\ (x = 0 => FetchIn' = 0)
      BY <1>3, <1>7, <1>8, <1>9, <2>3
    <3>2. \A v, w \in Nat : v + p <= g + LATENCY + 4 /\ w = (IF v = 0 THEN 0 ELSE v - 1)
            => Later(w)
      <4> SUFFICES ASSUME NEW v \in Nat, NEW w \in Nat, v + p <= g + LATENCY + 4,
                          w = (IF v = 0 THEN 0 ELSE v - 1)
                   PROVE  Later(w)
        OBVIOUS
      <4>1. CASE v = 0
        BY <1>11, <2>3, <3>1, <4>1
      <4>2. CASE v > 0
        <5>1. w <= v - 1
          BY <4>2
        <5> QED  BY <1>11, <3>1, <4>2, <5>1
      <4> QED  BY <4>1, <4>2
    <3>3. Later(FetchIn')
      BY <1>11, <2>3, <3>1
    <3> QED  BY <1>6, <3>1, <3>2, <3>3
  <2> QED  BY <1>4, <2>1, <2>2, <2>3
<1>13. NoLater(tx_left)' /\ NoLater(FetchIn)' /\ NoLater(KeyIn)'
  BY <1>12 DEF Later, NoLater, q, h
<1> QED  BY <1>7, <1>13 DEF KeepsPace
-----------------------------------------------------------------------------
WaitIInv == BridgeIInv /\ WaitOK

LEMMA InitWait == TopInit => WaitIInv /\ ~active
<1> SUFFICES ASSUME TopInit PROVE WaitIInv /\ ~active
  OBVIOUS
<1>1. BridgeIInv /\ active = FALSE
  BY InitBridge DEF TopInit, Init
<1>2. PortsOK
  BY BridgeAssumption DEF TopInit, Init, Rx!Init, Tx!Init, PortsOK
<1> QED  BY <1>1, <1>2 DEF WaitIInv, WaitOK

LEMMA RunWait ==
  ASSUME WaitIInv, BridgeIInv', Run(TRUE)
  PROVE  /\ WaitOK'
         /\ exhausted => ENABLE_AES /\ exhausted'
<1>1. BridgeIInv /\ PortsOK /\ active /\ (ENABLE_AES => StreamOK)
  BY DEF WaitIInv, WaitOK, Run
<1>2. PortsOK'
  BY <1>1, PortsRun
<1>3. ENABLE_AES' = ENABLE_AES
  BY DEF Run, CipherRun
<1>4. ENABLE_AES => StreamOK' /\ (exhausted => exhausted')
  <2> SUFFICES ASSUME ENABLE_AES PROVE StreamOK' /\ (exhausted => exhausted')
    OBVIOUS
  <2>1. StreamOK /\ tx_start(TRUE) \in BOOLEAN /\ (tx_start(TRUE) => current_valid)
        /\ Cipher!StreamRun(tx_start(TRUE))
    BY <1>1, Zenon DEF tx_start, Cipher!transfer, Run, CipherRun
  <2>2. StreamOK'
    BY <2>1, StreamRuns
  <2> QED  BY <2>1, <2>2, ExhaustedStays
<1>5. exhausted => ENABLE_AES
  BY DEF exhausted
<1> QED  BY <1>2, <1>3, <1>4, <1>5 DEF WaitOK

(* A session begins with nothing on its way and the key just loaded. *)
LEMMA ConfigureWait ==
  ASSUME WaitIInv, NEW k, NEW n, NEW c, Configure(k, n, c)
  PROVE  /\ WaitOK'
         /\ queue' = <<>> /\ ~held_valid' /\ ~rd_valid' /\ ~rx_done'
         /\ tx_left' = 0 /\ rx_wait' \in Nat
         /\ ENABLE_AES' = ENABLE_AES
         /\ ENABLE_AES => ~current_valid' /\ MaskIn' = LATENCY + 3
<1>1. /\ ~active /\ ENABLE_AES' = ENABLE_AES
      /\ UNCHANGED <<queue, held_valid, rd_valid, rx_done, read_pending,
                     tx_left, tx_busy, rx_wait>>
  BY DEF Configure, cfg_ready, CipherConfigure, datapath, holding, rxVars, fifoVars, txVars
<1>2. queue' = <<>> /\ ~held_valid' /\ ~rd_valid' /\ ~rx_done' /\ ~tx_busy'
  BY <1>1 DEF WaitIInv, BridgeIInv, DatapathEmpty
<1>3. PortsOK' /\ tx_left' = 0 /\ rx_wait' \in Nat
  BY <1>1, <1>2 DEF WaitIInv, WaitOK, PortsOK
<1>4. ASSUME ENABLE_AES
      PROVE  StreamOK' /\ ~current_valid' /\ MaskIn' = LATENCY + 3
  <2>1. Cipher!StreamConfigure(k, n, c)
    BY <1>4 DEF Configure, CipherConfigure
  <2>2. /\ current_valid' = FALSE /\ byte_index' = 0
        /\ result_valid' = FALSE /\ inflight' = FALSE /\ last_issued' = FALSE
        /\ state' = "KEY_READY"
    BY <2>1 DEF Cipher!StreamConfigure, Cipher!Discard, Cipher!Configure,
       Cipher!NothingIssued, Cipher!Aes!LoadKey
  <2>3. EngineOK'
    BY <2>2 DEF EngineOK
  <2>4. StreamOK' /\ ~current_valid'
    <3>1. ~current_valid' /\ current_valid' \in BOOLEAN
      BY <2>2
    <3>2. byte_index' \in 0..BLOCK_BYTES - 1
      BY <2>2, BlockFacts
    <3> QED  BY <2>3, <3>1, <3>2 DEF StreamOK
  <2>5. ~result_valid' /\ ~inflight' /\ ~last_issued' /\ state' # "IDLE"
    BY <2>2
  <2>6. MaskIn' = LATENCY + 3
    BY <2>3, <2>5, MaskInFactsNext
  <2> QED  BY <2>4, <2>6
<1> QED  BY <1>1, <1>2, <1>3, <1>4 DEF WaitOK

(* The end of a session, whatever ends it, leaves the ports at rest. *)
LEMMA EndWait ==
  ASSUME NEW read, DatapathReset(read), active' = FALSE
  PROVE  WaitOK'
<1>1. tx_left' = 0 /\ ~tx_busy' /\ rx_wait' = RX_REARM /\ ~read_pending'
  BY DEF DatapathReset, Rx!Reset, Tx!Reset
<1>2. PortsOK'
  BY <1>1, BridgeAssumption DEF PortsOK
<1> QED  BY <1>2 DEF WaitOK

LEMMA StillWait ==
  ASSUME WaitOK, UNCHANGED <<ENABLE_AES, active, datapath, cipher>>
  PROVE  /\ WaitOK'
         /\ KeyIn' = KeyIn /\ MaskIn' = MaskIn
<1>1. UNCHANGED <<queue, held_valid, rd_valid, rx_done, read_pending, tx_left, tx_busy, rx_wait>>
  BY DEF datapath, holding, rxVars, fifoVars, txVars
<1>2. UNCHANGED <<byte_index, current_valid, cipher_active, result_valid, inflight,
                  last_issued, state, left, key_valid, done>>
  BY DEF cipher
<1>3. MaskIn' = MaskIn
  BY <1>2 DEF MaskIn
<1>4. KeyIn' = KeyIn
  BY <1>2, <1>3 DEF KeyIn
<1>5. PortsOK' = PortsOK /\ StreamOK' = StreamOK
  BY <1>1, <1>2 DEF PortsOK, StreamOK, EngineOK
<1> QED  BY <1>3, <1>4, <1>5 DEF WaitOK

LEMMA IdleWait ==
  ASSUME WaitOK, Idle
  PROVE  WaitOK' /\ ~active'
<1>1. ~active' /\ UNCHANGED <<read_pending, rd_valid, tx_left, tx_busy, rx_wait>>
  BY DEF Idle, control, datapath, holding, rxVars, fifoVars, txVars
<1>2. PortsOK'
  BY <1>1 DEF WaitOK, PortsOK
<1> QED  BY <1>1, <1>2 DEF WaitOK

LEMMA NextWait == WaitIInv /\ [TopNext]_topVars => WaitIInv'
<1> SUFFICES ASSUME WaitIInv, [TopNext]_topVars PROVE WaitIInv'
  OBVIOUS
<1>1. BridgeIInv'
  BY BoardSteps, NextBridge DEF WaitIInv
<1>2. CASE UNCHANGED vars
  BY <1>1, <1>2, StillWait DEF WaitIInv, vars, control
<1>3. CASE Press
  BY <1>1, <1>3, EndWait DEF WaitIInv, Press, Reset
<1>4. CASE Edge
  <2>1. CASE Fault
    BY <1>1, <2>1, EndWait DEF WaitIInv, Fault
  <2>2. CASE Run(TRUE)
    BY <1>1, <2>2, RunWait DEF WaitIInv
  <2>3. CASE Configure(CONTEXT_KEY, CONTEXT_NONCE, CONTEXT_COUNTER)
    BY <1>1, <2>3, ConfigureWait DEF WaitIInv
  <2>4. CASE Idle
    BY <1>1, <2>4, IdleWait DEF WaitIInv
  <2> QED  BY <1>4, <2>1, <2>2, <2>3, <2>4 DEF Edge, BridgeEdge
<1> QED  BY <1>2, <1>3, <1>4 DEF TopNext, Release, EdgeInReset, topVars
-----------------------------------------------------------------------------
PaceIInv == BridgeIInv /\ PaceOK

LEMMA PaceIsWait == PaceIInv <=> WaitIInv /\ (active /\ ~exhausted => KeepsPace)
<1> QED  BY DEF PaceIInv, PaceOK, WaitIInv

LEMMA InitPace == TopInit => PaceIInv
<1> QED  BY InitWait, PaceIsWait

LEMMA RunPace ==
  ASSUME InTime, PaceIInv, WaitIInv', Run(TRUE)
  PROVE  PaceOK'
<1>1. WaitIInv /\ (~exhausted => KeepsPace)
  BY PaceIsWait DEF Run
<1>2. exhausted => exhausted'
  BY <1>1, RunWait DEF WaitIInv
<1>3. ~exhausted' => KeepsPace'
  BY <1>1, <1>2, PaceRuns DEF WaitIInv, WaitOK, Run
<1> QED  BY <1>3 DEF PaceOK, WaitIInv

LEMMA ConfigurePace ==
  ASSUME WaitIInv, WaitIInv', NEW k, NEW n, NEW c, Configure(k, n, c)
  PROVE  PaceOK'
<1>1. /\ queue' = <<>> /\ ~held_valid' /\ ~rd_valid' /\ ~rx_done'
      /\ tx_left' = 0 /\ rx_wait' \in Nat
      /\ ENABLE_AES' = ENABLE_AES
      /\ ENABLE_AES => ~current_valid' /\ MaskIn' = LATENCY + 3
  BY ConfigureWait
<1>2. FetchIn' = 0
  BY <1>1, WaitingFactsNext DEF WaitIInv
<1>3. Waiting' = 0
  <2>1. Len(queue') = 0
    BY <1>1, EmptySeq
  <2>2. One(held_valid') = 0 /\ One(rd_valid') = 0 /\ One(rx_done') = 0
    BY <1>1, OneFacts, Zenon
  <2>3. Waiting' = Len(queue') + One(held_valid') + One(rd_valid') + One(rx_done')
    BY DEF Waiting
  <2> QED  BY ONLY <2>1, <2>2, <2>3
<1>4. KeyIn' \in Nat /\ KeyIn' <= LATENCY + 4
  <2>1. CASE ENABLE_AES
    <3>1. KeyIn' = MaskIn' + 1
      BY <1>1, <2>1 DEF KeyIn
    <3> QED  BY <1>1, <2>1, <3>1, LatencyFacts
  <2>2. CASE ~ENABLE_AES
    BY <1>1, <2>2, LatencyFacts DEF KeyIn
  <2> QED  BY <2>1, <2>2
<1>5. NoLater(tx_left)' /\ NoLater(FetchIn)' /\ NoLater(KeyIn)'
  <2> DEFINE g == Grace'
             m == Waiting'
  <2>1. g \in Nat
    BY <1>1, PaceConstants DEF Grace
  <2>2. m * ByteTime = 0
    <3>1. m = 0 /\ ByteTime \in Nat
      BY <1>3, PaceConstants
    <3> QED  BY ONLY <3>1
  <2>3. /\ NoLater(tx_left)' <=> tx_left' + m * ByteTime <= g + LATENCY + 4
        /\ NoLater(FetchIn)' <=> FetchIn' + m * ByteTime <= g + LATENCY + 4
        /\ NoLater(KeyIn)' <=> KeyIn' + m * ByteTime <= g + LATENCY + 4
    BY DEF NoLater
  <2> HIDE DEF g, m
  <2> QED  BY <1>1, <1>2, <1>4, <2>1, <2>2, <2>3, LatencyFacts
<1> QED  BY <1>1, <1>5 DEF PaceOK, KeepsPace, WaitIInv

LEMMA StillPace ==
  ASSUME PaceOK, UNCHANGED <<ENABLE_AES, active, datapath, cipher>>
  PROVE  PaceOK'
<1>1. UNCHANGED <<queue, held_valid, rd_valid, rx_done, tx_left, rx_wait>>
  BY DEF datapath, holding, rxVars, fifoVars, txVars
<1>2. UNCHANGED <<byte_index, current_valid, cipher_active, result_valid, inflight, last_issued>>
  BY DEF cipher
<1>3. FetchIn' = FetchIn /\ Waiting' = Waiting /\ Grace' = Grace
  BY <1>1 DEF FetchIn, Waiting, Grace
<1>4. WaitOK' /\ KeyIn' = KeyIn /\ MaskIn' = MaskIn
  BY StillWait DEF PaceOK
<1>5. exhausted' <=> exhausted
  BY <1>2, ExhaustedIs, ExhaustedIsNext
<1>6. KeepsPace' <=> KeepsPace
  BY <1>1, <1>2, <1>3, <1>4 DEF KeepsPace, NoLater
<1> QED  BY <1>4, <1>5, <1>6 DEF PaceOK

LEMMA NextPace == InTime /\ PaceIInv /\ [TopNext]_topVars => PaceIInv'
<1> SUFFICES ASSUME InTime, PaceIInv, [TopNext]_topVars PROVE PaceIInv'
  OBVIOUS
<1>1. WaitIInv /\ WaitIInv'
  BY NextWait, PaceIsWait
<1>2. ~active' => PaceIInv'
  BY <1>1 DEF PaceIInv, PaceOK, WaitIInv
<1>3. PaceOK' => PaceIInv'
  BY <1>1 DEF PaceIInv, WaitIInv
<1>4. CASE UNCHANGED vars
  BY <1>3, <1>4, StillPace DEF PaceIInv, vars, control
<1>5. CASE Press
  BY <1>2, <1>5 DEF Press, Reset
<1>6. CASE Edge
  <2>1. CASE Fault
    BY <1>2, <2>1 DEF Fault
  <2>2. CASE Run(TRUE)
    BY <1>1, <1>3, <2>2, RunPace
  <2>3. CASE Configure(CONTEXT_KEY, CONTEXT_NONCE, CONTEXT_COUNTER)
    BY <1>1, <1>3, <2>3, ConfigurePace
  <2>4. CASE Idle
    BY <1>1, <1>2, <2>4, IdleWait DEF WaitIInv
  <2> QED  BY <1>6, <2>1, <2>2, <2>3, <2>4 DEF Edge, BridgeEdge
<1> QED  BY <1>4, <1>5, <1>6 DEF TopNext, Release, EdgeInReset, topVars

(* A byte finds no room only if DEPTH + 2 wait, and these would be late. *)
LEMMA RoomWhileInTime ==
  ASSUME InTime, PaceIInv, Fault, ~overflow_sticky, overflow_sticky'
  PROVE  exhausted
<1> SUFFICES ASSUME ~exhausted PROVE FALSE
  OBVIOUS
<1>1. /\ active /\ ~faulted /\ rx_done /\ Len(queue) = DEPTH /\ ~read_request(FALSE)
      /\ BridgeIInv /\ PortsOK
  BY DEF Fault, overflow_now, PaceIInv, PaceOK, WaitOK, BridgeIInv, FaultEnds
<1>2. KeepsPace
  BY <1>1 DEF PaceIInv, PaceOK
<1>3. queue # <<>>
  BY <1>1, DepthFacts, WaitingFacts
<1>4. held_valid \/ rd_valid
  BY <1>1, <1>3 DEF read_request, PortsOK
<1> DEFINE n == Waiting
<1>5. n \in Nat /\ n >= DEPTH + 2
  <2>1. One(held_valid) \in 0..1 /\ One(rd_valid) \in 0..1 /\ One(rx_done) = 1
        /\ (One(held_valid) = 1 \/ One(rd_valid) = 1)
    BY <1>1, <1>4, OneFacts, Zenon
  <2>2. n = DEPTH + One(held_valid) + One(rd_valid) + One(rx_done)
    BY <1>1 DEF Waiting
  <2> QED  BY ONLY <2>1, <2>2, DepthFacts
<1>6. tx_left \in Nat /\ tx_left + n * ByteTime <= Grace + LATENCY + 4
  BY <1>1, <1>2 DEF PortsOK, KeepsPace, NoLater
<1>7. Grace \in Nat /\ Grace <= FRAME
  BY <1>1, PaceConstants DEF Grace, PortsOK
<1>8. n * ByteTime \in Nat /\ (DEPTH + 1) * ByteTime \in Nat
      /\ n * ByteTime >= (DEPTH + 1) * ByteTime + ByteTime
  <2>1. \A m, d, t \in Nat : m >= d + 2 =>
          m * t \in Nat /\ (d + 1) * t \in Nat /\ m * t >= (d + 1) * t + t
    <3> SUFFICES ASSUME NEW m \in Nat, NEW d \in Nat, NEW t \in Nat, m >= d + 2
                 PROVE  m * t \in Nat /\ (d + 1) * t \in Nat /\ m * t >= (d + 1) * t + t
      OBVIOUS
    <3>1. m - (d + 2) \in Nat
      OBVIOUS
    <3>2. (m - (d + 2)) * t \in Nat /\ (d + 1) * t \in Nat /\ m * t \in Nat
      BY <3>1, WorkFacts
    <3>3. m * t = (m - (d + 2)) * t + (d + 1) * t + t
      OBVIOUS
    <3> QED  BY <3>2, <3>3
  <2> HIDE DEF n
  <2> QED  BY <1>5, <2>1, DepthFacts, PaceConstants
<1>9. LATENCY + 4 <= (DEPTH + 1) * ByteTime
  BY DEF InTime
<1> HIDE DEF n
<1>10. LATENCY \in Nat /\ FRAME \in Nat /\ ByteTime = FRAME + 1
  BY PaceConstants, LatencyFacts
<1> QED  BY ONLY <1>6, <1>7, <1>8, <1>9, <1>10

LEMMA OnlyFaultLatches ==
  ASSUME TopNext, ~overflow_sticky, overflow_sticky'
  PROVE  Fault
<1>1. ~Press
  BY DEF Press, Reset
<1>2. ~Release /\ ~EdgeInReset
  BY DEF Release, EdgeInReset, vars, control
<1>3. ~Run(TRUE)
  BY DEF Run
<1>4. ~Configure(CONTEXT_KEY, CONTEXT_NONCE, CONTEXT_COUNTER) /\ ~Idle
  BY DEF Configure, Idle, control
<1> QED  BY <1>1, <1>2, <1>3, <1>4 DEF TopNext, Edge, BridgeEdge

(* A source that leaves a spare edge between its bytes is kept up with for *)
(* as long as there is keystream: the FIFO never overflows before, however *)
(* long the session, whenever the bytes come, for every depth, frame       *)
(* length and cipher latency that are in time for each other.              *)
THEOREM SourceIsKeptUpWith ==
  ASSUME InTime
  PROVE  TopSpec => KeepsUpWithSource
<1>1. PaceIInv /\ [TopNext]_topVars =>
        [~overflow_sticky /\ overflow_sticky' => exhausted]_topVars
  BY RoomWhileInTime, OnlyFaultLatches
<1>2. PaceIInv /\ [TopNext]_topVars => PaceIInv'
  BY NextPace
<1> QED  BY <1>1, <1>2, InitPace, PTL DEF TopSpec, KeepsUpWithSource
-----------------------------------------------------------------------------
(* Edges until a held byte leaves: the line has to be free of the byte     *)
(* before it, and the cipher to offer its keystream.                       *)
LeavesIn == IF tx_left > KeyIn THEN tx_left ELSE KeyIn

LEMMA LeavesInType == WaitIInv => (active => LeavesIn \in 0..FRAME + LATENCY + 4)
<1> SUFFICES ASSUME WaitIInv, active PROVE LeavesIn \in 0..FRAME + LATENCY + 4
  OBVIOUS
<1>1. tx_left \in Nat /\ tx_left <= FRAME
  BY DEF WaitIInv, WaitOK, PortsOK
<1>2. KeyIn \in Nat /\ KeyIn <= LATENCY + 4
  <2>1. CASE ENABLE_AES /\ ~current_valid
    <3>1. KeyIn = MaskIn + 1 /\ MaskIn \in Nat /\ MaskIn <= LATENCY + 3
      BY <2>1, MaskInFacts DEF KeyIn, WaitIInv, WaitOK, StreamOK
    <3> QED  BY <3>1, LatencyFacts
  <2>2. CASE ~(ENABLE_AES /\ ~current_valid)
    BY <2>2, LatencyFacts DEF KeyIn
  <2> QED  BY <2>1, <2>2
<1> QED  BY <1>1, <1>2, PaceConstants, LatencyFacts DEF LeavesIn

(* A held byte that stays is one edge nearer to the line. *)
LEMMA HeldByteNearer ==
  ASSUME WaitIInv, WaitIInv', Run(TRUE), held_valid, ~tx_start(TRUE), ~exhausted'
  PROVE  held_valid' /\ LeavesIn > 0 /\ LeavesIn' = LeavesIn - 1
<1>1. BridgeIInv /\ PortsOK /\ active /\ (ENABLE_AES => StreamOK) /\ ~exhausted
  BY RunWait DEF WaitIInv, WaitOK, Run
<1>2. held_valid'
  BY DEF Run, Hold
<1>3. tx_left \in Nat /\ tx_left' = IF tx_left = 0 THEN 0 ELSE tx_left - 1
  BY <1>1, LineRuns, PaceConstants DEF PortsOK
<1>4. KeyIn \in Nat /\ KeyIn' = IF KeyIn = 0 THEN 0 ELSE KeyIn - 1
  <2>1. ENABLE_AES' = ENABLE_AES
    BY DEF Run, CipherRun
  <2>2. CASE ~ENABLE_AES
    BY <2>1, <2>2 DEF KeyIn
  <2>3. CASE ENABLE_AES
    <3>1. Cipher!StreamRun(FALSE) /\ StreamOK
      BY <1>1, <2>3, Zenon DEF tx_start, Cipher!transfer, Run, CipherRun
    <3>2. /\ ~current_valid /\ MaskIn > 0 => ~current_valid' /\ MaskNearer
          /\ ~current_valid /\ result_valid => MaskFollows
          /\ current_valid => current_valid'
      BY <3>1, StreamRuns
    <3>3. MaskIn \in Nat /\ (~current_valid => result_valid \/ MaskIn > 0)
      <4>1. cipher_active
        BY <1>1, <2>3 DEF BridgeIInv, CipherFollows
      <4>2. ~current_valid => result_valid \/ inflight \/ ~last_issued
        BY <1>1, <2>3, <4>1, ExhaustedIs
      <4> QED  BY <3>1, <4>2, MaskInFacts, LatencyFacts DEF StreamOK, EngineOK
    <3>4. CASE current_valid
      BY <2>1, <3>2, <3>4 DEF KeyIn
    <3>5. CASE ~current_valid /\ result_valid
      <4>1. MaskIn = 0
        BY <3>1, <3>5, MaskInFacts DEF StreamOK
      <4>2. KeyIn = 1 /\ KeyIn' = 0
        BY <2>1, <2>3, <3>2, <3>5, <4>1 DEF KeyIn, MaskFollows
      <4> QED  BY <4>2
    <3>6. CASE ~current_valid /\ MaskIn > 0
      <4>1. ~current_valid' /\ MaskIn' = MaskIn - 1
        BY <3>2, <3>3, <3>6 DEF MaskNearer
      <4>2. KeyIn = MaskIn + 1 /\ KeyIn' = MaskIn' + 1
        BY <2>1, <2>3, <3>6, <4>1 DEF KeyIn
      <4> QED  BY ONLY <3>3, <3>6, <4>1, <4>2
    <3> QED  BY <3>3, <3>4, <3>5, <3>6
  <2> QED  BY <2>2, <2>3
<1>5. tx_left > 0 \/ KeyIn > 0
  <2>1. Waiting > 0 /\ FetchIn = 0
    BY <1>1, WaitingFacts
  <2> QED  BY <1>1, <2>1, WhatIsWaitedFor
<1>6. LeavesIn > 0 /\ LeavesIn' = LeavesIn - 1
  BY <1>3, <1>4, <1>5 DEF LeavesIn
<1> QED  BY <1>2, <1>6

(* The bound behind HeldByteLeaves, for every frame length, latency and    *)
(* pacing: while a session lasts the byte in the holding register is at    *)
(* most a frame and the wait for a first mask away from the line, and      *)
(* every edge that does not start it brings it one edge nearer, unless the *)
(* keystream ends.                                                         *)
THEOREM HeldByteIsBounded ==
  TopSpec => /\ [](active => LeavesIn \in 0..FRAME + LATENCY + 4)
             /\ [][Run(TRUE) /\ held_valid /\ ~tx_start(TRUE) /\ ~exhausted' =>
                     held_valid' /\ LeavesIn > 0 /\ LeavesIn' = LeavesIn - 1]_topVars
<1>1. TopInit => WaitIInv
  BY InitWait
<1>2. WaitIInv /\ WaitIInv' =>
        [Run(TRUE) /\ held_valid /\ ~tx_start(TRUE) /\ ~exhausted' =>
           held_valid' /\ LeavesIn > 0 /\ LeavesIn' = LeavesIn - 1]_topVars
  BY HeldByteNearer
<1> QED  BY <1>1, <1>2, NextWait, LeavesInType, PTL DEF TopSpec
=============================================================================
