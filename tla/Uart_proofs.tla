------------------------------ MODULE Uart_proofs ------------------------------
(***************************************************************************)
(* The serial line, for every bit time the RTL accepts and every number of *)
(* data bits.                                                              *)
(*                                                                         *)
(* First the receiver on an arbitrary line: it is silent until the line    *)
(* was idle, and it is the byte port that the bridge is modelled with.     *)
(* Both rest on one invariant.  IdleOK says how much idle time each state  *)
(* has seen; WaitOK bounds the time the port still has to wait by the      *)
(* edges the state machine needs before it can report anything.            *)
(*                                                                         *)
(* Then a transmitter and a receiver on two clocks: every byte crosses     *)
(* intact, and the transmitter is the bridge's byte port.  LinkInv counts  *)
(* the edges of both since the frame began; their difference, the drift,   *)
(* is less than half a bit time, so the line still shows a bit when the    *)
(* receiver samples it (LineIsSeen).  ArrivesIn counts the edges to the    *)
(* report of the oldest byte under way.                                    *)
(***************************************************************************)
EXTENDS UartNoise, UartLink, SequenceTheorems, TLAPS

Bits == [1..DATA_BITS -> {0, 1}]

RegistersOK ==
  /\ rx_sync \in {0, 1}
  /\ rx_meta \in {0, 1}
  /\ rx_state \in {"WAIT_IDLE", "IDLE", "START", "DATA", "STOP"}
  /\ bit_timer \in Nat /\ bit_timer <= BIT_LAST
  /\ bit_index \in Nat /\ bit_index <= DATA_BITS - 1
  /\ data_shift \in Bits
  /\ rx_data \in Bits

(* While it waits the receiver counts the idle time itself; in every other *)
(* state it has seen an idle bit since the reset or error.                 *)
IdleOK ==
  IF rx_state = "WAIT_IDLE" THEN idle = bit_timer ELSE idle = CLKS_PER_BIT

(* From the present state to the sample of a stop bit, at the earliest. *)
Until ==
  CASE rx_state = "STOP"      -> bit_timer
    [] rx_state = "DATA"      -> bit_timer + CLKS_PER_BIT * (DATA_BITS - bit_index)
    [] rx_state = "START"     -> bit_timer + CLKS_PER_BIT * (DATA_BITS + 1)
    [] rx_state = "IDLE"      -> GAP
    [] rx_state = "WAIT_IDLE" -> CLKS_PER_BIT - bit_timer + GAP

WaitOK == rx_wait \in Nat /\ rx_wait <= Until

NoiseIInv == RegistersOK /\ IdleOK /\ WaitOK

(* The bit time and its half, and the two durations, as numbers. *)
LEMMA TimeFacts ==
  /\ CLKS_PER_BIT \in Nat /\ CLKS_PER_BIT >= 8
  /\ DATA_BITS \in Nat /\ DATA_BITS >= 1
  /\ BIT_LAST = CLKS_PER_BIT - 1
  /\ HALF_LAST \in Nat /\ HALF_LAST <= BIT_LAST
  /\ CLKS_PER_BIT * (DATA_BITS + 1) \in Nat
  /\ GAP = HALF_LAST + 1 + CLKS_PER_BIT * (DATA_BITS + 1)
  /\ REARM = CLKS_PER_BIT + GAP
<1>1. CLKS_PER_BIT \in Nat /\ CLKS_PER_BIT >= 8 /\ DATA_BITS \in Nat /\ DATA_BITS >= 1
  BY RxAssumption
<1>2. CLKS_PER_BIT \div 2 \in Nat /\ CLKS_PER_BIT \div 2 >= 1
      /\ CLKS_PER_BIT \div 2 <= CLKS_PER_BIT
  BY <1>1
<1>3. /\ CLKS_PER_BIT * (DATA_BITS + 1) \in Nat
      /\ (DATA_BITS + 1) * CLKS_PER_BIT = CLKS_PER_BIT * (DATA_BITS + 1)
  BY <1>1
<1> QED  BY <1>1, <1>2, <1>3 DEF BIT_LAST, HALF_LAST, GAP, REARM

(* One bit more to go is one bit time more. *)
LEMMA BitTimes ==
  /\ \A i \in Nat : i <= DATA_BITS - 1 =>
       /\ CLKS_PER_BIT * (DATA_BITS - i) \in Nat
       /\ CLKS_PER_BIT * (DATA_BITS - i) = CLKS_PER_BIT * (DATA_BITS - (i + 1)) + CLKS_PER_BIT
  /\ CLKS_PER_BIT * (DATA_BITS + 1) = CLKS_PER_BIT * (DATA_BITS - 0) + CLKS_PER_BIT
  /\ CLKS_PER_BIT * (DATA_BITS - (DATA_BITS - 1)) = CLKS_PER_BIT
<1>1. \A c, n \in Nat : c * (n + 1) = c * n + c /\ c * n \in Nat
  OBVIOUS
<1>2. ASSUME NEW i \in Nat, i <= DATA_BITS - 1
      PROVE  /\ CLKS_PER_BIT * (DATA_BITS - i) \in Nat
             /\ CLKS_PER_BIT * (DATA_BITS - i) = CLKS_PER_BIT * (DATA_BITS - (i + 1)) + CLKS_PER_BIT
  <2>1. DATA_BITS - (i + 1) \in Nat /\ DATA_BITS - i = (DATA_BITS - (i + 1)) + 1
    BY <1>2, TimeFacts
  <2> QED  BY <1>1, <2>1, TimeFacts
<1>3. DATA_BITS - 0 = DATA_BITS /\ DATA_BITS - (DATA_BITS - 1) = 1
  BY TimeFacts
<1> QED  BY <1>1, <1>2, <1>3, TimeFacts

(* A sampled bit is shifted in, the oldest one out. *)
LEMMA ShiftedBits ==
  ASSUME NEW s \in Bits, NEW b \in {0, 1}
  PROVE  Append(Tail(s), b) \in Bits
<1>1. s \in Seq({0, 1}) /\ Len(s) = DATA_BITS
  BY TimeFacts DEF Bits
<1>2. s # <<>>
  BY <1>1, TimeFacts
<1>3. Tail(s) \in Seq({0, 1}) /\ Len(Tail(s)) = DATA_BITS - 1
  BY <1>1, <1>2, HeadTailProperties
<1>4. Append(Tail(s), b) \in Seq({0, 1}) /\ Len(Append(Tail(s), b)) = DATA_BITS
  BY <1>3, TimeFacts
<1> QED  BY <1>4, LenProperties DEF Bits

LEMMA InitNoise == NoiseInit => NoiseIInv
<1> SUFFICES ASSUME NoiseInit PROVE NoiseIInv
  OBVIOUS
<1>1. Zeros \in Bits
  BY DEF Zeros, Bits
<1> QED  BY <1>1, TimeFacts DEF NoiseInit, Init, NoiseIInv, RegistersOK, IdleOK, WaitOK, Until

LEMMA ResetNoise == NoiseReset => NoiseIInv'
<1> SUFFICES ASSUME NoiseReset PROVE NoiseIInv'
  OBVIOUS
<1>1. Zeros \in Bits
  BY DEF Zeros, Bits
<1> QED  BY <1>1, TimeFacts DEF NoiseReset, Reset, NoiseIInv, RegistersOK, IdleOK, WaitOK, Until

(* What an edge does to the two counters, by what it reports. *)
Counts ==
  /\ rx_wait' = CASE rx_done'          -> GAP
                  [] rx_framing_error' -> REARM
                  [] OTHER             -> IF rx_wait = 0 THEN 0 ELSE rx_wait - 1
  /\ idle' = IF rx_framing_error' THEN 0
             ELSE IF idle = CLKS_PER_BIT THEN idle
             ELSE IF rx_sync = 1 THEN idle + 1 ELSE 0

LEMMA ReportCounts ==
  ASSUME Counts
  PROVE  /\ rx_done' = TRUE /\ rx_framing_error' = FALSE /\ idle = CLKS_PER_BIT
              => rx_wait' = GAP /\ idle' = CLKS_PER_BIT
         /\ rx_done' = FALSE /\ rx_framing_error' = TRUE
              => rx_wait' = REARM /\ idle' = 0
<1>1. ASSUME rx_done' = TRUE, rx_framing_error' = FALSE, idle = CLKS_PER_BIT
      PROVE  rx_wait' = GAP /\ idle' = CLKS_PER_BIT
  BY <1>1 DEF Counts
<1>2. ASSUME rx_done' = FALSE, rx_framing_error' = TRUE
      PROVE  rx_wait' = REARM /\ idle' = 0
  BY <1>2 DEF Counts
<1> QED  BY <1>1, <1>2

LEMMA QuietCounts ==
  ASSUME Counts, NoPulse, WaitOK, idle \in Nat
  PROVE  /\ rx_wait' = IF rx_wait = 0 THEN 0 ELSE rx_wait - 1
         /\ idle' = IF idle = CLKS_PER_BIT THEN idle
                    ELSE IF rx_sync = 1 THEN idle + 1 ELSE 0
         /\ rx_wait' \in Nat /\ (rx_wait = 0 => rx_wait' = 0)
         /\ (rx_wait # 0 => rx_wait' = rx_wait - 1)
<1>1. rx_wait' = IF rx_wait = 0 THEN 0 ELSE rx_wait - 1
  BY DEF Counts, NoPulse
<1>2. idle' = IF idle = CLKS_PER_BIT THEN idle
              ELSE IF rx_sync = 1 THEN idle + 1 ELSE 0
  BY DEF Counts, NoPulse
<1> QED  BY <1>1, <1>2 DEF WaitOK

(* The states that do not report: each edge brings the earliest report    *)
(* nearer by one edge at most.                                             *)
LEMMA WaitIdleNoise ==
  ASSUME NoiseIInv, Counts, rx_sync' \in {0, 1}, rx_meta' \in {0, 1}, WaitIdle
  PROVE  NoiseIInv'
<1> USE TimeFacts DEF NoiseIInv
<1>1. /\ rx_state = "WAIT_IDLE" /\ idle = bit_timer /\ NoPulse
      /\ UNCHANGED <<bit_index, data_shift, rx_data>>
      /\ idle \in Nat /\ idle <= CLKS_PER_BIT - 1
  BY DEF WaitIdle, IdleOK, RegistersOK
<1>2. Until = CLKS_PER_BIT - bit_timer + GAP
  BY <1>1 DEF Until
<1>3. CASE rx_sync = 0 /\ bit_timer' = 0 /\ UNCHANGED rx_state
  <2>1. idle' = 0
    BY <1>1, <1>3, QuietCounts
  <2>2. Until' = CLKS_PER_BIT + GAP
    BY <1>1, <1>3 DEF Until
  <2> QED  BY <1>1, <1>2, <1>3, <2>1, <2>2, QuietCounts DEF RegistersOK, IdleOK, WaitOK
<1>4. CASE rx_sync = 1 /\ bit_timer = BIT_LAST /\ bit_timer' = 0 /\ rx_state' = "IDLE"
  <2>1. idle' = CLKS_PER_BIT
    BY <1>1, <1>4, QuietCounts
  <2>2. Until' = GAP
    BY <1>4 DEF Until
  <2> QED  BY <1>1, <1>2, <1>4, <2>1, <2>2, QuietCounts DEF RegistersOK, IdleOK, WaitOK
<1>5. CASE rx_sync = 1 /\ bit_timer # BIT_LAST /\ bit_timer' = bit_timer + 1
             /\ UNCHANGED rx_state
  <2>1. idle' = bit_timer'
    BY <1>1, <1>5, QuietCounts
  <2>2. Until' = CLKS_PER_BIT - bit_timer' + GAP
    BY <1>1, <1>5 DEF Until
  <2> QED  BY <1>1, <1>2, <1>5, <2>1, <2>2, QuietCounts DEF RegistersOK, IdleOK, WaitOK
<1> QED  BY <1>3, <1>4, <1>5 DEF WaitIdle

LEMMA AwaitStartNoise ==
  ASSUME NoiseIInv, Counts, rx_sync' \in {0, 1}, rx_meta' \in {0, 1}, AwaitStart
  PROVE  NoiseIInv'
<1> USE TimeFacts DEF NoiseIInv
<1>1. /\ rx_state = "IDLE" /\ idle = CLKS_PER_BIT /\ NoPulse
      /\ UNCHANGED <<bit_index, data_shift, rx_data>>
  BY DEF AwaitStart, IdleOK
<1>2. Until = GAP /\ idle' = CLKS_PER_BIT
  BY <1>1, QuietCounts DEF Until
<1>3. CASE bit_timer' = HALF_LAST /\ rx_state' = "START"
  <2>1. Until' = HALF_LAST + CLKS_PER_BIT * (DATA_BITS + 1)
    BY <1>3 DEF Until
  <2> QED  BY <1>1, <1>2, <1>3, <2>1, QuietCounts DEF RegistersOK, IdleOK, WaitOK
<1>4. CASE UNCHANGED <<bit_timer, rx_state>>
  <2>1. Until' = GAP
    BY <1>1, <1>4 DEF Until
  <2> QED  BY <1>1, <1>2, <1>4, <2>1, QuietCounts DEF RegistersOK, IdleOK, WaitOK
<1> QED  BY <1>3, <1>4 DEF AwaitStart

LEMMA CountDownNoise ==
  ASSUME NoiseIInv, Counts, rx_sync' \in {0, 1}, rx_meta' \in {0, 1}, CountDown
  PROVE  NoiseIInv'
<1> USE TimeFacts DEF NoiseIInv
<1>1. /\ rx_state \in {"START", "DATA", "STOP"} /\ idle = CLKS_PER_BIT /\ NoPulse
      /\ bit_timer # 0 /\ bit_timer' = bit_timer - 1
      /\ UNCHANGED <<rx_state, bit_index, data_shift, rx_data>>
  BY DEF CountDown, IdleOK
<1>2. idle' = CLKS_PER_BIT
  BY <1>1, QuietCounts
<1>3. /\ Until \in Nat /\ Until >= 1 /\ Until' = Until - 1
  <2>1. bit_timer \in Nat /\ bit_timer > 0 /\ bit_index \in Nat /\ bit_index <= DATA_BITS - 1
    BY <1>1 DEF RegistersOK
  <2>2. CASE rx_state = "START"
    <3>1. /\ Until = bit_timer + CLKS_PER_BIT * (DATA_BITS + 1)
          /\ Until' = bit_timer' + CLKS_PER_BIT * (DATA_BITS + 1)
      BY <1>1, <2>2 DEF Until
    <3> QED  BY <1>1, <2>1, <3>1
  <2>3. CASE rx_state = "DATA"
    <3>1. /\ Until = bit_timer + CLKS_PER_BIT * (DATA_BITS - bit_index)
          /\ Until' = bit_timer' + CLKS_PER_BIT * (DATA_BITS - bit_index)
      BY <1>1, <2>3 DEF Until
    <3>2. CLKS_PER_BIT * (DATA_BITS - bit_index) \in Nat
      BY <2>1, BitTimes
    <3> QED  BY <1>1, <2>1, <3>1, <3>2
  <2>4. CASE rx_state = "STOP"
    BY <1>1, <2>1, <2>4 DEF Until
  <2> QED  BY <1>1, <2>2, <2>3, <2>4
<1> QED  BY <1>1, <1>2, <1>3, QuietCounts DEF RegistersOK, IdleOK, WaitOK

LEMMA SampleStartNoise ==
  ASSUME NoiseIInv, Counts, rx_sync' \in {0, 1}, rx_meta' \in {0, 1}, SampleStart
  PROVE  NoiseIInv'
<1> USE TimeFacts DEF NoiseIInv
<1>1. /\ rx_state = "START" /\ bit_timer = 0 /\ idle = CLKS_PER_BIT /\ NoPulse
      /\ UNCHANGED <<data_shift, rx_data>>
  BY DEF SampleStart, IdleOK
<1>2. Until = CLKS_PER_BIT * (DATA_BITS + 1) /\ idle' = CLKS_PER_BIT
  BY <1>1, QuietCounts DEF Until
<1>3. CASE rx_state' = "IDLE" /\ UNCHANGED <<bit_timer, bit_index>>
  <2>1. Until' = GAP
    BY <1>3 DEF Until
  <2> QED  BY <1>1, <1>2, <1>3, <2>1, QuietCounts DEF RegistersOK, IdleOK, WaitOK
<1>4. CASE rx_state' = "DATA" /\ bit_timer' = BIT_LAST /\ bit_index' = 0
  <2>1. Until' = BIT_LAST + CLKS_PER_BIT * (DATA_BITS - 0)
    BY <1>4 DEF Until
  <2>2. Until' = Until - 1 /\ Until' \in Nat
    BY <1>2, <2>1, BitTimes
  <2> QED  BY <1>1, <1>2, <1>4, <2>2, QuietCounts DEF RegistersOK, IdleOK, WaitOK
<1> QED  BY <1>3, <1>4 DEF SampleStart

LEMMA SampleDataNoise ==
  ASSUME NoiseIInv, Counts, rx_sync' \in {0, 1}, rx_meta' \in {0, 1}, SampleData
  PROVE  NoiseIInv'
<1> USE TimeFacts DEF NoiseIInv
<1>1. /\ rx_state = "DATA" /\ bit_timer = 0 /\ bit_timer' = BIT_LAST
      /\ idle = CLKS_PER_BIT /\ NoPulse /\ UNCHANGED rx_data
      /\ bit_index \in Nat /\ bit_index <= DATA_BITS - 1
  BY DEF SampleData, IdleOK, RegistersOK
<1>2. data_shift' \in Bits
  BY ShiftedBits DEF SampleData, RegistersOK
<1>3. Until = CLKS_PER_BIT * (DATA_BITS - bit_index) /\ Until \in Nat
      /\ idle' = CLKS_PER_BIT
  <2>1. CLKS_PER_BIT * (DATA_BITS - bit_index) \in Nat
    BY <1>1, BitTimes
  <2> QED  BY <1>1, <2>1, QuietCounts DEF Until
<1>4. CASE bit_index = DATA_BITS - 1 /\ rx_state' = "STOP" /\ UNCHANGED bit_index
  <2>1. Until = CLKS_PER_BIT /\ Until' = BIT_LAST
    BY <1>1, <1>3, <1>4, BitTimes DEF Until
  <2> QED  BY <1>1, <1>2, <1>3, <1>4, <2>1, QuietCounts DEF RegistersOK, IdleOK, WaitOK
<1>5. CASE bit_index # DATA_BITS - 1 /\ bit_index' = bit_index + 1 /\ UNCHANGED rx_state
  <2>1. Until' = BIT_LAST + CLKS_PER_BIT * (DATA_BITS - (bit_index + 1))
    BY <1>1, <1>5 DEF Until
  <2>2. CLKS_PER_BIT * (DATA_BITS - (bit_index + 1)) \in Nat
    BY <1>1, <1>5, BitTimes
  <2>3. Until' = Until - 1 /\ Until' \in Nat
    BY <1>1, <1>3, <2>1, <2>2, BitTimes
  <2> QED  BY <1>1, <1>2, <1>3, <1>5, <2>3, QuietCounts DEF RegistersOK, IdleOK, WaitOK
<1> QED  BY <1>4, <1>5 DEF SampleData

LEMMA StopReports ==
  ASSUME SampleStop
  PROVE  /\ rx_sync = 1 => rx_done' = TRUE /\ rx_framing_error' = FALSE
         /\ rx_sync = 0 => rx_done' = FALSE /\ rx_framing_error' = TRUE
<1>1. rx_done' = (rx_sync = 1) /\ rx_framing_error' = (rx_sync = 0)
  BY DEF SampleStop
<1>2. ASSUME rx_sync = 1
      PROVE  (rx_sync = 1) = TRUE /\ (rx_sync = 0) = FALSE
  BY <1>2
<1>3. ASSUME rx_sync = 0
      PROVE  (rx_sync = 1) = FALSE /\ (rx_sync = 0) = TRUE
  BY <1>3
<1> QED  BY <1>1, <1>2, <1>3, Zenon

LEMMA SampleStopNoise ==
  ASSUME NoiseIInv, Counts, rx_sync' \in {0, 1}, rx_meta' \in {0, 1}, SampleStop
  PROVE  NoiseIInv'
<1> USE TimeFacts DEF NoiseIInv
<1>1. /\ rx_state = "STOP" /\ bit_timer = 0 /\ idle = CLKS_PER_BIT
      /\ rx_done' = (rx_sync = 1) /\ rx_framing_error' = (rx_sync = 0)
      /\ UNCHANGED <<bit_timer, bit_index, data_shift>>
      /\ rx_data' \in Bits
  BY DEF SampleStop, IdleOK, RegistersOK
<1>2. CASE rx_sync = 1
  <2>0. rx_state' = "IDLE" /\ rx_done' = TRUE /\ rx_framing_error' = FALSE
    BY <1>1, <1>2, StopReports DEF SampleStop
  <2>1. rx_state' = "IDLE" /\ rx_wait' = GAP /\ idle' = CLKS_PER_BIT
    BY <1>1, <2>0, ReportCounts
  <2>2. Until' = GAP
    BY <2>1 DEF Until
  <2> QED  BY <1>1, <2>1, <2>2 DEF RegistersOK, IdleOK, WaitOK
<1>3. CASE rx_sync = 0
  <2>0. rx_state' = "WAIT_IDLE" /\ rx_done' = FALSE /\ rx_framing_error' = TRUE
    BY <1>1, <1>3, StopReports DEF SampleStop
  <2>1. rx_state' = "WAIT_IDLE" /\ rx_wait' = REARM /\ idle' = 0
    BY <2>0, ReportCounts
  <2>2. Until' = REARM
    BY <1>1, <2>1 DEF Until
  <2> QED  BY <1>1, <2>1, <2>2 DEF RegistersOK, IdleOK, WaitOK
<1> QED  BY <1>2, <1>3 DEF RegistersOK

LEMMA EdgeFacts ==
  ASSUME NoiseIInv, NoiseEdge
  PROVE  /\ Counts /\ rx_sync' \in {0, 1} /\ rx_meta' \in {0, 1}
         /\ \/ WaitIdle \/ AwaitStart \/ CountDown
            \/ SampleStart \/ SampleData \/ SampleStop
<1> QED  BY DEF NoiseIInv, RegistersOK, NoiseEdge, Edge, Synchronise, Counts

LEMMA NextNoise == NoiseIInv /\ [NoiseNext]_noiseVars => NoiseIInv'
<1> SUFFICES ASSUME NoiseIInv, [NoiseNext]_noiseVars PROVE NoiseIInv'
  OBVIOUS
<1>1. CASE NoiseEdge
  BY <1>1, EdgeFacts, WaitIdleNoise, AwaitStartNoise, CountDownNoise,
     SampleStartNoise, SampleDataNoise, SampleStopNoise
<1>2. CASE NoiseReset
  BY <1>2, ResetNoise
<1>3. CASE UNCHANGED noiseVars
  BY <1>3 DEF noiseVars, vars, NoiseIInv, RegistersOK, IdleOK, WaitOK, Until
<1> QED  BY <1>1, <1>2, <1>3 DEF NoiseNext
-----------------------------------------------------------------------------
(* Only the sample of a stop bit reports, and it does not come before the *)
(* port has waited.                                                       *)
LEMMA ReportsAtStop ==
  ASSUME NoiseIInv, NoiseEdge, rx_done' \/ rx_framing_error'
  PROVE  SampleStop /\ rx_wait = 0 /\ idle = CLKS_PER_BIT
<1>1. SampleStop
  BY EdgeFacts DEF WaitIdle, AwaitStart, CountDown, SampleStart, SampleData, NoPulse
<1>2. Until = 0
  BY <1>1 DEF SampleStop, Until
<1> QED  BY <1>1, <1>2 DEF SampleStop, NoiseIInv, IdleOK, WaitOK

(* A break, noise or a frame in progress at a reset yields no byte and no *)
(* error, for every bit time, before the line has been high for a whole   *)
(* bit without interruption (uart_rx.sv, WAIT_IDLE).                       *)
THEOREM ReceiverSilentUntilIdle == NoiseSpec => SilentUntilIdle
<1>1. NoiseIInv /\ [NoiseNext]_noiseVars
        => [rx_done' \/ rx_framing_error' => idle = CLKS_PER_BIT]_noiseVars
  <2> SUFFICES ASSUME NoiseIInv, NoiseNext, rx_done' \/ rx_framing_error'
               PROVE  idle = CLKS_PER_BIT
    OBVIOUS
  <2>1. NoiseEdge
    BY DEF NoiseNext, NoiseReset, Reset, NoPulse
  <2> QED  BY <2>1, ReportsAtStop
<1> QED  BY <1>1, InitNoise, NextNoise, PTL DEF NoiseSpec, SilentUntilIdle

LEMMA EdgeMaps == NoiseIInv /\ NoiseEdge => Port!Clock
<1> SUFFICES ASSUME NoiseIInv, NoiseEdge PROVE Port!Clock
  OBVIOUS
<1>1. Counts
  BY EdgeFacts
<1>2. CASE rx_done' \/ rx_framing_error'
  <2>1. SampleStop /\ rx_wait = 0 /\ idle = CLKS_PER_BIT
    BY <1>2, ReportsAtStop
  <2>2. rx_sync \in {0, 1} /\ data_shift \in Bits
    BY DEF NoiseIInv, RegistersOK
  <2>3. CASE rx_sync = 1
    <3>0. rx_done' = TRUE /\ rx_framing_error' = FALSE /\ rx_data' = data_shift
      BY <2>1, <2>3, StopReports DEF SampleStop
    <3>1. rx_done' = TRUE /\ rx_framing_error' = FALSE
          /\ rx_data' = data_shift /\ rx_wait' = GAP
      BY <1>1, <2>1, <3>0, ReportCounts, ReportsAtStop
    <3>2. Port!Receive(data_shift)
      BY <2>1, <3>1 DEF Port!Receive
    <3> QED  BY <2>2, <3>2 DEF Port!Clock, Bits
  <2>4. CASE rx_sync = 0
    <3>0. rx_done' = FALSE /\ rx_framing_error' = TRUE /\ UNCHANGED rx_data
      BY <2>1, <2>4, StopReports DEF SampleStop
    <3>1. /\ rx_done' = FALSE /\ rx_framing_error' = TRUE
          /\ UNCHANGED rx_data /\ rx_wait' = REARM
      BY <1>1, <3>0, ReportCounts
    <3> QED  BY <2>1, <3>1 DEF Port!Clock, Port!FramingError
  <2> QED  BY <2>2, <2>3, <2>4
<1>3. CASE ~(rx_done' \/ rx_framing_error')
  <2>1. rx_wait' = IF rx_wait = 0 THEN 0 ELSE rx_wait - 1
    BY <1>1, <1>3 DEF Counts
  <2>2. rx_done' = FALSE /\ rx_framing_error' = FALSE /\ UNCHANGED rx_data
    <3>1. ~SampleStop
      BY <1>3 DEF SampleStop, NoiseIInv, RegistersOK
    <3> QED  BY <3>1, EdgeFacts
             DEF WaitIdle, AwaitStart, CountDown, SampleStart, SampleData, NoPulse
  <2> QED  BY <2>1, <2>2 DEF Port!Clock, Port!Quiet
<1> QED  BY <1>2, <1>3

(* The port the bridge is modelled with is the one the receiver provides,  *)
(* whatever the line does: bytes and errors at least GAP and REARM edges   *)
(* apart, never both at once, and a byte register that changes only with a *)
(* byte.                                                                   *)
THEOREM ReceiverImplementsPort == NoiseSpec => ImplementsPort
<1>1. NoiseInit => Port!Init
  BY DEF NoiseInit, Init, Port!Init
<1>2. NoiseIInv /\ [NoiseNext]_noiseVars => [Port!Clock \/ Port!Reset]_(Port!vars)
  <2> SUFFICES ASSUME NoiseIInv, [NoiseNext]_noiseVars
               PROVE  Port!Clock \/ Port!Reset \/ UNCHANGED Port!vars
    OBVIOUS
  <2>1. NoiseReset => Port!Reset
    BY DEF NoiseReset, Reset, NoPulse, Port!Reset
  <2>2. UNCHANGED noiseVars => UNCHANGED Port!vars
    BY DEF noiseVars, vars, Port!vars
  <2> QED  BY <2>1, <2>2, EdgeMaps DEF NoiseNext
<1> QED  BY <1>1, <1>2, InitNoise, NextNoise, PTL DEF NoiseSpec, ImplementsPort
-----------------------------------------------------------------------------
(* The clocks gain less than half a bit time on each other within a frame. *)
LinkOK ==
  /\ Data \subseteq Bits
  /\ TOLERANCE \in Nat
  /\ TOLERANCE + CLKS_PER_BIT \div 2 < CLKS_PER_BIT

(* The line in bit j of the frame of d: start bit, data, stop bit. *)
Level(d, j) == IF j = 0 THEN 0 ELSE IF j <= DATA_BITS THEN d[j] ELSE 1

(* Edges in j bit times. *)
Span(j) == j * CLKS_PER_BIT

Half == CLKS_PER_BIT \div 2

(* Bit times follow each other without a gap. *)
LEMMA SpanFacts ==
  /\ Span(0) = 0
  /\ \A i \in Nat : Span(i) \in Nat /\ Span(i + 1) = Span(i) + CLKS_PER_BIT
  /\ \A i, j \in Nat : i <= j => Span(i) <= Span(j)
  /\ \A i, j \in Nat : i < j => Span(i) + CLKS_PER_BIT <= Span(j)
  /\ Span(DATA_BITS + 1) \in Nat /\ Span(DATA_BITS) \in Nat
  /\ Span(DATA_BITS + 1) = Span(DATA_BITS) + CLKS_PER_BIT
<1>1. \A c, i \in Nat : (i + 1) * c = i * c + c /\ i * c \in Nat /\ 0 * c = 0
  OBVIOUS
<1>2. \A c, i, j \in Nat : i <= j => i * c <= j * c
  <2> SUFFICES ASSUME NEW c \in Nat, NEW i \in Nat, NEW j \in Nat, i <= j
               PROVE  i * c <= j * c
    OBVIOUS
  <2>1. PICK m \in Nat : j = i + m
    <3>1. j - i \in Nat /\ j = i + (j - i)
      OBVIOUS
    <3> QED  BY <3>1
  <2>2. (i + m) * c = i * c + m * c /\ m * c \in Nat /\ i * c \in Nat
    OBVIOUS
  <2> QED  BY <2>1, <2>2
<1>3. CLKS_PER_BIT \in Nat
  BY TimeFacts
<1>4. ASSUME NEW i \in Nat, NEW j \in Nat, i < j
      PROVE  Span(i) + CLKS_PER_BIT <= Span(j)
  <2>1. (i + 1) * CLKS_PER_BIT <= j * CLKS_PER_BIT
    <3>1. i + 1 \in Nat /\ i + 1 <= j
      BY <1>4
    <3> QED  BY <1>2, <1>3, <3>1
  <2> QED  BY <1>1, <1>3, <2>1 DEF Span
<1>5. /\ Span(DATA_BITS + 1) \in Nat /\ Span(DATA_BITS) \in Nat
      /\ Span(DATA_BITS + 1) = Span(DATA_BITS) + CLKS_PER_BIT
  BY <1>1, TimeFacts DEF Span
<1> QED  BY <1>1, <1>2, <1>3, <1>4, <1>5 DEF Span

(* Half a bit time, rounded down, and the receiver's constant for it. *)
LEMMA HalfFacts ==
  /\ Half \in Nat /\ Half >= 4 /\ 2 * Half <= CLKS_PER_BIT /\ CLKS_PER_BIT <= 2 * Half + 1
  /\ HALF_LAST = Half - 1
<1>1. CLKS_PER_BIT \in Nat /\ CLKS_PER_BIT >= 8
  BY TimeFacts
<1> QED  BY <1>1 DEF Half, HALF_LAST
-----------------------------------------------------------------------------
(* The receiver at edge k of the frame of d, with the bytes c under way.   *)
(* Until the start bit has passed the synchroniser it may still be busy    *)
(* with the stop bit of the byte before.                                   *)
Waking(k, d, c) ==
  /\ k \in 0..2
  /\ rx_meta = (IF k = 0 THEN 1 ELSE 0)
  /\ \/ rx_state = "IDLE" /\ rx_sync = (IF k = 2 THEN 0 ELSE 1) /\ c = <<d>>
     \/ /\ rx_state = "STOP" /\ k + bit_timer <= 1 /\ (bit_timer = 0 => rx_sync = 1)
        /\ c = <<data_shift, d>>

InStart(k, d, c) ==
  /\ rx_state = "START"
  /\ k = Half + 2 - bit_timer /\ bit_timer < Half
  /\ bit_timer > 0 => rx_meta = 0
  /\ rx_sync = 0
  /\ c = <<d>>

(* A bit is on its way through the synchroniser when its sample is due. *)
InData(k, d, c) ==
  /\ rx_state = "DATA"
  /\ k = Half + 2 + Span(bit_index + 1) - bit_timer
  /\ bit_timer = 1 => rx_meta = d[bit_index + 1]
  /\ bit_timer = 0 => rx_sync = d[bit_index + 1]
  /\ \A i \in 1..bit_index : data_shift[DATA_BITS - bit_index + i] = d[i]
  /\ c = <<d>>

InStop(k, d, c) ==
  /\ rx_state = "STOP"
  /\ k = Half + 2 + Span(DATA_BITS + 1) - bit_timer
  /\ bit_timer <= 1 => rx_meta = 1
  /\ bit_timer = 0 => rx_sync = 1
  /\ data_shift = d
  /\ c = <<d>>

Given(k, d, c) ==
  /\ rx_state = "IDLE"
  /\ k >= Half + 3 + Span(DATA_BITS + 1)
  /\ rx_meta = 1 /\ rx_sync = 1
  /\ c = <<>>

InFrame(k, d, c) ==
  Waking(k, d, c) \/ InStart(k, d, c) \/ InData(k, d, c) \/ InStop(k, d, c) \/ Given(k, d, c)

(* The receiver while no frame is sent. *)
Between(c) ==
  /\ rx_meta = 1
  /\ \/ rx_state = "IDLE" /\ rx_sync = 1 /\ c = <<>>
     \/ rx_state = "STOP" /\ bit_timer <= 1 /\ (bit_timer = 0 => rx_sync = 1) /\ c = <<data_shift>>

(* What an edge at k sees on the line: every bit, half a bit time in. *)
Sees(k, d) ==
  /\ k <= Half => tx = 0
  /\ \A j \in 1..DATA_BITS : k = Half + Span(j) => tx = d[j]
  /\ k >= Half + Span(DATA_BITS + 1) => tx = 1

RxOK ==
  /\ RegistersOK
  /\ rx_done \in BOOLEAN
  /\ rx_done => rx_state = "IDLE"

(* What an edge reports of the bytes c under way, and what is left of them. *)
Quietly(c, rest) ==
  rx_done' = FALSE /\ rx_framing_error' = FALSE /\ rest = c

Delivers(c, rest) ==
  /\ rx_done' = TRUE /\ rx_framing_error' = FALSE
  /\ c # <<>> /\ rx_data' = Head(c) /\ rest = Tail(c)
  /\ ~rx_done

(* The receiver's registers stay in range, and rx_done is a pulse at rest. *)
LEMMA EdgeOK ==
  ASSUME RxOK, Edge(tx), tx \in {0, 1}
  PROVE  RxOK'
<1> USE TimeFacts DEF RegistersOK
<1>0. RegistersOK
  BY DEF RxOK
<1>1. rx_meta' \in {0, 1} /\ rx_sync' \in {0, 1}
  BY <1>0 DEF Edge, Synchronise
<1>2. ASSUME NoPulse, RegistersOK' PROVE RxOK'
  <2>1. rx_done' = FALSE
    BY <1>2 DEF NoPulse
  <2> HIDE DEF RegistersOK
  <2> QED  BY <1>2, <2>1, Zenon DEF RxOK
<1>3. CASE WaitIdle
  <2>1. RegistersOK'
    BY <1>0, <1>1, <1>3 DEF WaitIdle
  <2> QED  BY <1>2, <1>3, <2>1 DEF WaitIdle
<1>4. CASE AwaitStart
  <2>1. RegistersOK'
    BY <1>0, <1>1, <1>4 DEF AwaitStart
  <2> QED  BY <1>2, <1>4, <2>1 DEF AwaitStart
<1>5. CASE CountDown
  <2>1. RegistersOK'
    BY <1>0, <1>1, <1>5 DEF CountDown
  <2> QED  BY <1>2, <1>5, <2>1 DEF CountDown
<1>6. CASE SampleStart
  <2>1. RegistersOK'
    BY <1>0, <1>1, <1>6 DEF SampleStart
  <2> QED  BY <1>2, <1>6, <2>1 DEF SampleStart
<1>7. CASE SampleData
  <2>1. data_shift' \in Bits
    BY <1>0, <1>7, ShiftedBits DEF SampleData
  <2>2. RegistersOK'
    BY <1>0, <1>1, <1>7, <2>1 DEF SampleData
  <2> QED  BY <1>2, <1>7, <2>2 DEF SampleData
<1>8. CASE SampleStop
  <2>1. RegistersOK' /\ (rx_sync = 1 => rx_state' = "IDLE")
    BY <1>0, <1>1, <1>8 DEF SampleStop
  <2>2. CASE rx_sync = 1
    <3>1. rx_done' = TRUE /\ rx_state' = "IDLE"
      BY <1>8, <2>1, <2>2, StopReports
    <3> HIDE DEF RegistersOK
    <3> QED  BY <2>1, <3>1, Zenon DEF RxOK
  <2>3. CASE rx_sync = 0
    <3>1. rx_done' = FALSE
      BY <1>8, <2>3, StopReports
    <3> HIDE DEF RegistersOK
    <3> QED  BY <2>1, <3>1, Zenon DEF RxOK
  <2> QED  BY <1>0, <2>2, <2>3
<1> QED  BY <1>3, <1>4, <1>5, <1>6, <1>7, <1>8 DEF Edge

(* The state and the timer say what an edge does. *)
LEMMA EdgeByState ==
  ASSUME Edge(tx)
  PROVE  /\ rx_meta' = tx /\ rx_sync' = rx_meta
         /\ rx_state = "IDLE" => AwaitStart
         /\ rx_state \in {"START", "DATA", "STOP"} /\ bit_timer # 0 => CountDown
         /\ rx_state = "START" /\ bit_timer = 0 => SampleStart
         /\ rx_state = "DATA" /\ bit_timer = 0 => SampleData
         /\ rx_state = "STOP" /\ bit_timer = 0 => SampleStop
<1> QED  BY DEF Edge, Synchronise, WaitIdle, AwaitStart, CountDown, SampleStart,
               SampleData, SampleStop

(* The sample of a high stop bit delivers the byte that was shifted in. *)
LEMMA StopDelivers ==
  ASSUME RxOK, rx_state = "STOP", rx_sync = 1, SampleStop,
         NEW c, c # <<>>, Head(c) = data_shift
  PROVE  Delivers(c, Tail(c))
<1>1. rx_done' = TRUE /\ rx_framing_error' = FALSE /\ rx_data' = Head(c)
  BY StopReports DEF SampleStop
<1>2. ~rx_done
  BY DEF RxOK
<1> QED  BY <1>1, <1>2 DEF Delivers

(* The outcome of an edge in a frame. *)
Moves(k, d, c) ==
  \E rest : /\ Quietly(c, rest) \/ Delivers(c, rest)
            /\ InFrame(k, d, rest)'

(* An edge that reports nothing leaves under way what was. *)
LEMMA QuietMoves ==
  ASSUME NEW k, NEW d, NEW c, NoPulse, InFrame(k, d, c)'
  PROVE  Moves(k, d, c)
<1>1. Quietly(c, c)
  BY DEF Quietly, NoPulse
<1> QED  BY <1>1 DEF Moves

(* The start bit passes the synchroniser while the byte before is given. *)
LEMMA WakingMoves ==
  ASSUME NEW k \in Int, NEW d \in Bits, NEW c,
         RxOK, Sees(k, d), Edge(tx), Waking(k, d, c)
  PROVE  Moves(k + 1, d, c)
<1> USE HalfFacts
<1>1. /\ k \in 0..2 /\ rx_meta = (IF k = 0 THEN 1 ELSE 0)
      /\ rx_meta' = 0 /\ rx_sync' = rx_meta
  BY EdgeByState DEF Waking, Sees
<1>2. CASE rx_state = "IDLE" /\ rx_sync = (IF k = 2 THEN 0 ELSE 1) /\ c = <<d>>
  <2>1. AwaitStart
    BY <1>2, EdgeByState
  <2>2. CASE k < 2
    <3>1. rx_state' = "IDLE" /\ rx_sync' = (IF k + 1 = 2 THEN 0 ELSE 1)
      BY <1>1, <1>2, <2>1, <2>2 DEF AwaitStart
    <3>2. Waking(k + 1, d, c)'
      BY <1>1, <1>2, <2>2, <3>1 DEF Waking
    <3> QED  BY <2>1, <3>2, QuietMoves DEF AwaitStart, InFrame
  <2>3. CASE k = 2
    <3>1. rx_state' = "START" /\ bit_timer' = HALF_LAST /\ rx_sync' = 0
      BY <1>1, <1>2, <2>1, <2>3 DEF AwaitStart
    <3>2. InStart(k + 1, d, c)'
      BY <1>1, <1>2, <2>3, <3>1 DEF InStart
    <3> QED  BY <2>1, <3>2, QuietMoves DEF AwaitStart, InFrame
  <2> QED  BY <1>1, <2>2, <2>3
<1>3. CASE /\ rx_state = "STOP" /\ k + bit_timer <= 1 /\ (bit_timer = 0 => rx_sync = 1)
           /\ c = <<data_shift, d>>
  <2>1. bit_timer \in Nat
    BY DEF RxOK, RegistersOK
  <2>2. CASE bit_timer = 0
    <3>1. SampleStop /\ rx_sync = 1
      BY <1>3, <2>2, EdgeByState
    <3>2. c # <<>> /\ Head(c) = data_shift /\ Tail(c) = <<d>>
      BY <1>3
    <3>3. Delivers(c, Tail(c))
      BY <1>3, <3>1, <3>2, StopDelivers
    <3>4. rx_state' = "IDLE" /\ k <= 1
      BY <1>1, <1>3, <2>2, <3>1 DEF SampleStop
    <3>5. Waking(k + 1, d, <<d>>)'
      BY <1>1, <3>4 DEF Waking
    <3> QED  BY <3>2, <3>3, <3>5 DEF Moves, InFrame
  <2>3. CASE bit_timer # 0
    <3>1. CountDown
      BY <1>3, <2>3, EdgeByState
    <3>2. k = 0 /\ bit_timer' = 0 /\ rx_state' = "STOP" /\ data_shift' = data_shift
      BY <1>1, <1>3, <2>1, <2>3, <3>1 DEF CountDown
    <3>3. Waking(k + 1, d, c)'
      BY <1>1, <1>3, <3>2 DEF Waking
    <3> QED  BY <3>1, <3>3, QuietMoves DEF CountDown, InFrame
  <2> QED  BY <2>2, <2>3
<1> QED  BY <1>2, <1>3 DEF Waking

(* The start bit is sampled in its middle, and it is low there. *)
LEMMA InStartMoves ==
  ASSUME NEW k \in Int, NEW d \in Bits, NEW c,
         RxOK, Sees(k, d), Edge(tx), InStart(k, d, c)
  PROVE  Moves(k + 1, d, c)
<1> USE HalfFacts, TimeFacts DEF RxOK, RegistersOK
<1>1. bit_timer \in Nat /\ rx_meta' = tx /\ rx_sync' = rx_meta
  BY EdgeByState
<1>2. CASE bit_timer # 0
  <2>1. CountDown
    BY <1>2, EdgeByState DEF InStart
  <2>2. /\ rx_state' = "START" /\ bit_timer' = bit_timer - 1 /\ rx_sync' = 0
        /\ k + 1 = Half + 2 - bit_timer' /\ bit_timer' < Half /\ c = <<d>>
    BY <1>1, <1>2, <2>1 DEF InStart, CountDown
  <2>3. bit_timer' > 0 => rx_meta' = 0
    BY <1>1, <2>2 DEF Sees
  <2>4. InStart(k + 1, d, c)'
    BY <2>2, <2>3 DEF InStart
  <2> QED  BY <2>1, <2>4, QuietMoves DEF CountDown, InFrame
<1>3. CASE bit_timer = 0
  <2>1. SampleStart /\ rx_sync = 0 /\ k = Half + 2 /\ c = <<d>>
    BY <1>3, EdgeByState DEF InStart
  <2>2. rx_state' = "DATA" /\ bit_timer' = BIT_LAST /\ bit_index' = 0
    BY <2>1 DEF SampleStart
  <2>3. Span(0 + 1) = CLKS_PER_BIT
    BY SpanFacts
  <2>4. InData(k + 1, d, c)'
    BY <2>1, <2>2, <2>3 DEF InData
  <2> QED  BY <2>1, <2>4, QuietMoves DEF SampleStart, InFrame
<1> QED  BY <1>2, <1>3

(* Where each bit goes when one is shifted in. *)
LEMMA ShiftedPlaces ==
  ASSUME NEW s \in Bits, NEW b \in {0, 1}
  PROVE  /\ \A i \in 1..DATA_BITS - 1 : Append(Tail(s), b)[i] = s[i + 1]
         /\ Append(Tail(s), b)[DATA_BITS] = b
<1>1. s \in Seq({0, 1}) /\ Len(s) = DATA_BITS /\ s # <<>>
  BY TimeFacts DEF Bits
<1>2. /\ Tail(s) \in Seq({0, 1}) /\ Len(Tail(s)) = DATA_BITS - 1
      /\ \A i \in 1..Len(Tail(s)) : Tail(s)[i] = s[i + 1]
  BY <1>1, HeadTailProperties
<1> QED  BY <1>2, TimeFacts, AppendProperties, SMTT(30)

(* From one sample to the next is one bit time. *)
LEMMA NextSample ==
  ASSUME NEW s \in Nat
  PROVE  Half + 2 + s + 1 = Half + 2 + (s + CLKS_PER_BIT) - BIT_LAST
<1> QED  BY HalfFacts, TimeFacts

(* Each data bit is sampled in its middle and shifted in behind the others. *)
LEMMA InDataMoves ==
  ASSUME NEW k \in Int, NEW d \in Bits, NEW c,
         RxOK, Sees(k, d), Edge(tx), InData(k, d, c)
  PROVE  Moves(k + 1, d, c)
<1> USE HalfFacts, TimeFacts
<1>1. /\ bit_timer \in Nat /\ rx_meta' = tx /\ rx_sync' = rx_meta
      /\ bit_index \in Nat /\ bit_index <= DATA_BITS - 1
      /\ data_shift \in Bits /\ rx_sync \in {0, 1}
  BY EdgeByState DEF RxOK, RegistersOK
<1>2. /\ Span(bit_index + 1) \in Nat
      /\ Span(bit_index + 1 + 1) = Span(bit_index + 1) + CLKS_PER_BIT
  <2> DEFINE m == bit_index + 1
  <2>1. m \in Nat
    BY <1>1
  <2> HIDE DEF m
  <2>2. Span(m) \in Nat /\ Span(m + 1) = Span(m) + CLKS_PER_BIT
    BY <2>1, SpanFacts
  <2> QED  BY <2>2 DEF m
<1>3. CASE bit_timer # 0
  <2>1. CountDown
    BY <1>3, EdgeByState DEF InData
  <2>2. /\ rx_state' = "DATA" /\ bit_timer' = bit_timer - 1 /\ c = <<d>>
        /\ bit_index' = bit_index /\ data_shift' = data_shift
        /\ k + 1 = Half + 2 + Span(bit_index + 1) - bit_timer'
    BY <1>1, <1>2, <1>3, <2>1 DEF InData, CountDown
  <2>3. bit_timer' = 1 => rx_meta' = d[bit_index + 1]
    <3>1. bit_timer' = 1 => k = Half + Span(bit_index + 1)
      BY <1>1, <1>2, <2>2
    <3>2. bit_index + 1 \in 1..DATA_BITS
      BY <1>1
    <3> QED  BY <1>1, <3>1, <3>2 DEF Sees
  <2>4. bit_timer' = 0 => rx_sync' = d[bit_index + 1]
    BY <1>1, <2>2 DEF InData
  <2>5. InData(k + 1, d, c)'
    BY <2>2, <2>3, <2>4 DEF InData
  <2> QED  BY <2>1, <2>5, QuietMoves DEF CountDown, InFrame
<1>4. CASE bit_timer = 0
  <2>1. SampleData /\ rx_sync = d[bit_index + 1] /\ c = <<d>>
        /\ k = Half + 2 + Span(bit_index + 1)
        /\ \A i \in 1..bit_index : data_shift[DATA_BITS - bit_index + i] = d[i]
    BY <1>1, <1>2, <1>4, EdgeByState DEF InData
  <2>2. /\ data_shift' = Append(Tail(data_shift), rx_sync)
        /\ bit_timer' = BIT_LAST
    BY <2>1 DEF SampleData
  <2>3. \A i \in 1..bit_index + 1 : data_shift'[DATA_BITS - (bit_index + 1) + i] = d[i]
    <3> SUFFICES ASSUME NEW i \in 1..bit_index + 1
                 PROVE  data_shift'[DATA_BITS - (bit_index + 1) + i] = d[i]
      OBVIOUS
    <3>1. CASE i = bit_index + 1
      <4>1. DATA_BITS - (bit_index + 1) + i = DATA_BITS
        BY <1>1, <3>1
      <4> QED  BY <1>1, <2>1, <2>2, <3>1, <4>1, ShiftedPlaces
    <3>2. CASE i # bit_index + 1
      <4> DEFINE q == DATA_BITS - (bit_index + 1) + i
      <4>1. q \in 1..DATA_BITS - 1 /\ q + 1 = DATA_BITS - bit_index + i /\ i \in 1..bit_index
        BY <1>1, <3>2
      <4> HIDE DEF q
      <4>2. data_shift'[q] = data_shift[q + 1]
        BY <1>1, <2>2, <4>1, ShiftedPlaces
      <4> QED  BY <2>1, <4>1, <4>2 DEF q
    <3> QED  BY <3>1, <3>2
  <2>4. CASE bit_index = DATA_BITS - 1
    <3>1. rx_state' = "STOP" /\ bit_index' = bit_index
      BY <2>1, <2>4 DEF SampleData
    <3>2. data_shift' = d
      <4>1. data_shift' \in Bits
        BY <1>1, <2>2, ShiftedBits
      <4>2. \A i \in 1..DATA_BITS : data_shift'[i] = d[i]
        <5>1. bit_index + 1 = DATA_BITS /\ \A i \in 1..DATA_BITS : DATA_BITS - DATA_BITS + i = i
          BY <2>4
        <5> QED  BY <2>3, <5>1
      <4> QED  BY <4>1, <4>2 DEF Bits
    <3>3. k + 1 = Half + 2 + Span(DATA_BITS + 1) - bit_timer'
      <4>1. bit_index + 1 = DATA_BITS
        BY <2>4
      <4>2. Span(DATA_BITS) \in Nat /\ Span(DATA_BITS + 1) = Span(DATA_BITS) + CLKS_PER_BIT
        BY SpanFacts
      <4>3. k = Half + 2 + Span(DATA_BITS)
        BY <2>1, <4>1
      <4> QED  BY <2>2, <4>2, <4>3, NextSample
    <3>4. InStop(k + 1, d, c)'
      BY <2>1, <2>2, <3>1, <3>2, <3>3 DEF InStop
    <3> QED  BY <2>1, <3>4, QuietMoves DEF SampleData, InFrame
  <2>5. CASE bit_index # DATA_BITS - 1
    <3>1. rx_state' = "DATA" /\ bit_index' = bit_index + 1
      BY <2>1, <2>5 DEF SampleData
    <3>2. k + 1 = Half + 2 + Span(bit_index' + 1) - bit_timer'
      <4>1. Span(bit_index' + 1) = Span(bit_index + 1) + CLKS_PER_BIT
        BY <1>2, <3>1
      <4> QED  BY <1>2, <2>1, <2>2, <4>1, NextSample
    <3>3. \A i \in 1..bit_index' : data_shift'[DATA_BITS - bit_index' + i] = d[i]
      BY ONLY <2>3, <3>1
    <3>4. bit_timer' # 1 /\ bit_timer' # 0
      BY <2>2
    <3>5. InData(k + 1, d, c)'
      BY ONLY <2>1, <3>1, <3>2, <3>3, <3>4 DEF InData
    <3> QED  BY <2>1, <3>5, QuietMoves DEF SampleData, InFrame
  <2> QED  BY <2>4, <2>5
<1> QED  BY <1>3, <1>4

(* The stop bit is sampled in its middle, and the byte is given. *)
LEMMA InStopMoves ==
  ASSUME NEW k \in Int, NEW d \in Bits, NEW c,
         RxOK, Sees(k, d), Edge(tx), InStop(k, d, c)
  PROVE  Moves(k + 1, d, c)
<1> USE HalfFacts, TimeFacts
<1>1. /\ bit_timer \in Nat /\ rx_meta' = tx /\ rx_sync' = rx_meta
      /\ Span(DATA_BITS + 1) \in Nat
  BY EdgeByState, SpanFacts DEF RxOK, RegistersOK
<1>2. k >= Half + Span(DATA_BITS + 1) => rx_meta' = 1
  BY <1>1 DEF Sees
<1>3. CASE bit_timer # 0
  <2>1. CountDown
    BY <1>3, EdgeByState DEF InStop
  <2>2. /\ rx_state' = "STOP" /\ bit_timer' = bit_timer - 1 /\ c = <<d>> /\ data_shift' = d
        /\ k + 1 = Half + 2 + Span(DATA_BITS + 1) - bit_timer'
    BY <1>1, <1>3, <2>1 DEF InStop, CountDown
  <2>3. bit_timer' <= 1 => rx_meta' = 1
    BY <1>1, <1>2, <2>2
  <2>4. bit_timer' = 0 => rx_sync' = 1
    BY <1>1, <2>2 DEF InStop
  <2>5. InStop(k + 1, d, c)'
    BY <2>2, <2>3, <2>4 DEF InStop
  <2> QED  BY <2>1, <2>5, QuietMoves DEF CountDown, InFrame
<1>4. CASE bit_timer = 0
  <2>1. /\ SampleStop /\ rx_sync = 1 /\ rx_sync' = 1 /\ c = <<d>> /\ data_shift = d
        /\ rx_state = "STOP" /\ k = Half + 2 + Span(DATA_BITS + 1)
    BY <1>1, <1>4, EdgeByState DEF InStop
  <2>2. c # <<>> /\ Head(c) = data_shift /\ Tail(c) = <<>>
    BY <2>1
  <2>3. Delivers(c, Tail(c))
    BY <2>1, <2>2, StopDelivers
  <2>4. rx_state' = "IDLE" /\ rx_meta' = 1
    BY <1>1, <1>2, <2>1 DEF SampleStop
  <2>5. Given(k + 1, d, <<>>)'
    BY <1>1, <2>1, <2>4 DEF Given
  <2> QED  BY <2>2, <2>3, <2>5 DEF Moves, InFrame
<1> QED  BY <1>3, <1>4

(* After the sample of the stop bit the receiver waits for the next frame. *)
LEMMA GivenMoves ==
  ASSUME NEW k \in Int, NEW d \in Bits, NEW c,
         RxOK, Sees(k, d), Edge(tx), Given(k, d, c)
  PROVE  Moves(k + 1, d, c)
<1>1. Span(DATA_BITS + 1) \in Nat
  BY SpanFacts, TimeFacts
<1>2. rx_meta' = 1 /\ rx_sync' = 1 /\ AwaitStart
  BY <1>1, EdgeByState, HalfFacts DEF Given, Sees
<1>3. rx_state' = "IDLE"
  BY <1>2 DEF AwaitStart, Given
<1>4. Given(k + 1, d, c)'
  BY <1>1, <1>2, <1>3, HalfFacts DEF Given
<1> QED  BY <1>2, <1>4, QuietMoves DEF AwaitStart, InFrame

(* An edge in a frame, whatever the receiver is at. *)
LEMMA FrameMoves ==
  ASSUME NEW k \in Int, NEW d \in Bits, NEW c,
         RxOK, Sees(k, d), Edge(tx), tx \in {0, 1}, InFrame(k, d, c)
  PROVE  Moves(k + 1, d, c)
<1> QED  BY WakingMoves, InStartMoves, InDataMoves, InStopMoves, GivenMoves DEF InFrame

(* The line is at rest, or at the end of a stop bit. *)
LEMMA BetweenMoves ==
  ASSUME NEW c, RxOK, Edge(tx), tx = 1, Between(c)
  PROVE  \E rest : (Quietly(c, rest) \/ Delivers(c, rest)) /\ Between(rest)'
<1>1. bit_timer \in Nat /\ rx_meta' = 1 /\ rx_sync' = 1
  BY EdgeByState DEF RxOK, RegistersOK, Between
<1>2. CASE rx_state = "IDLE" /\ rx_sync = 1 /\ c = <<>>
  <2>1. AwaitStart
    BY <1>2, EdgeByState
  <2>2. Between(c)' /\ Quietly(c, c)
    BY <1>1, <1>2, <2>1 DEF AwaitStart, Between, Quietly, NoPulse
  <2> QED  BY <2>2
<1>3. CASE /\ rx_state = "STOP" /\ bit_timer <= 1 /\ (bit_timer = 0 => rx_sync = 1)
           /\ c = <<data_shift>>
  <2>1. CASE bit_timer = 0
    <3>1. SampleStop /\ rx_sync = 1
      BY <1>3, <2>1, EdgeByState
    <3>2. c # <<>> /\ Head(c) = data_shift /\ Tail(c) = <<>>
      BY <1>3
    <3>3. Delivers(c, Tail(c)) /\ rx_state' = "IDLE"
      BY <1>3, <3>1, <3>2, StopDelivers DEF SampleStop
    <3>4. Between(<<>>)'
      BY <1>1, <3>3 DEF Between
    <3> QED  BY <3>2, <3>3, <3>4
  <2>2. CASE bit_timer # 0
    <3>1. CountDown
      BY <1>3, <2>2, EdgeByState
    <3>2. bit_timer' = 0 /\ rx_state' = "STOP" /\ data_shift' = data_shift
      BY <1>1, <1>3, <2>2, <3>1 DEF CountDown
    <3>3. Between(c)' /\ Quietly(c, c)
      BY <1>1, <1>3, <3>1, <3>2 DEF Between, Quietly, CountDown, NoPulse
    <3> QED  BY <3>3
  <2> QED  BY <2>1, <2>2
<1> QED  BY <1>2, <1>3 DEF Between
-----------------------------------------------------------------------------
(* The transmitter's registers: the frame holds the levels still to come. *)
TxOK ==
  /\ tx \in {0, 1} /\ tx_busy \in BOOLEAN
  /\ tx_timer \in Nat /\ tx_timer <= BIT_LAST
  /\ tx_index \in Nat /\ tx_index <= DATA_BITS + 1
  /\ frame \in [1..DATA_BITS + 1 -> {0, 1}]
  /\ ~tx_busy => tx = 1
  /\ tx_busy => /\ tx_frame \in Bits
                /\ tx = Level(tx_frame, tx_index)
                /\ \A i \in 1..DATA_BITS + 1 : frame[i] = Level(tx_frame, tx_index + i)

(* The transmitter's edges since it took the byte. *)
Elapsed == Span(tx_index) + (BIT_LAST - tx_timer)

(* Each bit lasts one bit time. *)
LEMMA ElapsedFacts ==
  ASSUME TxOK
  PROVE  /\ Elapsed \in Nat
         /\ Span(tx_index) \in Nat
         /\ Span(tx_index) <= Elapsed /\ Elapsed < Span(tx_index) + CLKS_PER_BIT
<1>1. tx_index \in Nat /\ Span(tx_index) \in Nat
  BY SpanFacts DEF TxOK
<1> QED  BY <1>1, TimeFacts DEF TxOK, Elapsed

(* Where each level goes when the frame register is shifted. *)
LEMMA FrameShifts ==
  ASSUME NEW f \in [1..DATA_BITS + 1 -> {0, 1}]
  PROVE  /\ Head(f) = f[1]
         /\ Append(Tail(f), 1) \in [1..DATA_BITS + 1 -> {0, 1}]
         /\ \A i \in 1..DATA_BITS : Append(Tail(f), 1)[i] = f[i + 1]
         /\ Append(Tail(f), 1)[DATA_BITS + 1] = 1
<1>1. f \in Seq({0, 1}) /\ Len(f) = DATA_BITS + 1 /\ f # <<>>
  BY TimeFacts
<1>2. /\ Head(f) = f[1] /\ Tail(f) \in Seq({0, 1}) /\ Len(Tail(f)) = DATA_BITS
      /\ \A i \in 1..Len(Tail(f)) : Tail(f)[i] = f[i + 1]
  BY <1>1, HeadTailProperties, TimeFacts
<1>3. /\ Append(Tail(f), 1) \in Seq({0, 1}) /\ Len(Append(Tail(f), 1)) = DATA_BITS + 1
      /\ \A i \in 1..DATA_BITS : Append(Tail(f), 1)[i] = Tail(f)[i]
      /\ Append(Tail(f), 1)[DATA_BITS + 1] = 1
  BY <1>2, AppendProperties, TimeFacts
<1> QED  BY <1>2, <1>3, LenProperties

(* The transmitter takes a byte: the start bit is on the line. *)
LEMMA TxStarts ==
  ASSUME NEW data \in Bits, Tx!Start(data)
  PROVE  TxOK' /\ Elapsed' = 0 /\ tx_busy' = TRUE /\ tx_frame' = data
<1> USE TimeFacts
<1>1. /\ tx' = 0 /\ tx_busy' = TRUE /\ tx_timer' = BIT_LAST /\ tx_index' = 0
      /\ frame' = Append(data, 1) /\ tx_frame' = data
  BY DEF Tx!Start, Tx!BIT_LAST, BIT_LAST
<1>2. data \in Seq({0, 1}) /\ Len(data) = DATA_BITS
  BY DEF Bits
<1>3. /\ Append(data, 1) \in Seq({0, 1}) /\ Len(Append(data, 1)) = DATA_BITS + 1
      /\ \A i \in 1..DATA_BITS : Append(data, 1)[i] = data[i]
      /\ Append(data, 1)[DATA_BITS + 1] = 1
  BY <1>2, AppendProperties, SMTT(30)
<1>4. frame' \in [1..DATA_BITS + 1 -> {0, 1}]
  BY <1>1, <1>3, LenProperties
<1>5. \A i \in 1..DATA_BITS + 1 : frame'[i] = Level(data, 0 + i)
  BY <1>1, <1>3 DEF Level
<1>6. tx' = Level(tx_frame', tx_index')
  BY <1>1 DEF Level
<1>7. TxOK'
  BY <1>1, <1>4, <1>5, <1>6 DEF TxOK
<1>8. Elapsed' = 0
  BY <1>1, SpanFacts DEF Elapsed
<1> QED  BY <1>1, <1>7, <1>8

(* An edge within a bit. *)
LEMMA TxHolds ==
  ASSUME TxOK, Tx!HoldBit
  PROVE  TxOK' /\ Elapsed' = Elapsed + 1 /\ tx_busy' = tx_busy /\ tx_frame' = tx_frame
<1>1. /\ tx_timer' = tx_timer - 1 /\ tx_timer > 0
      /\ UNCHANGED <<tx, tx_busy, tx_index, frame, tx_frame>>
  BY DEF Tx!HoldBit, TxOK
<1>2. Span(tx_index) \in Nat
  BY ElapsedFacts
<1>3. Elapsed' = Elapsed + 1
  BY <1>1, <1>2, TimeFacts DEF Elapsed, TxOK
<1> QED  BY <1>1, <1>3, TimeFacts DEF TxOK

(* The edge between two bits. *)
LEMMA TxShifts ==
  ASSUME TxOK, Tx!NextBit
  PROVE  TxOK' /\ Elapsed' = Elapsed + 1 /\ tx_busy' = tx_busy /\ tx_frame' = tx_frame
<1> USE TimeFacts
<1>1. /\ tx_busy /\ tx_timer = 0 /\ tx_index < DATA_BITS + 1
      /\ tx' = Head(frame) /\ frame' = Append(Tail(frame), 1)
      /\ tx_index' = tx_index + 1 /\ tx_timer' = BIT_LAST
      /\ UNCHANGED <<tx_busy, tx_frame>>
  BY DEF Tx!NextBit, Tx!BIT_LAST, BIT_LAST, TxOK
<1>2. /\ frame \in [1..DATA_BITS + 1 -> {0, 1}] /\ tx_index \in Nat /\ tx_frame \in Bits
      /\ \A i \in 1..DATA_BITS + 1 : frame[i] = Level(tx_frame, tx_index + i)
  BY <1>1 DEF TxOK
<1>3. tx' = Level(tx_frame, tx_index + 1) /\ tx' \in {0, 1}
  <2>1. tx' = frame[1]
    BY <1>1, <1>2, FrameShifts
  <2> QED  BY <1>2, <2>1
<1>4. \A i \in 1..DATA_BITS + 1 : frame'[i] = Level(tx_frame, tx_index + 1 + i)
  <2> SUFFICES ASSUME NEW i \in 1..DATA_BITS + 1
               PROVE  frame'[i] = Level(tx_frame, tx_index + 1 + i)
    OBVIOUS
  <2>1. CASE i = DATA_BITS + 1
    BY <1>1, <1>2, <2>1, FrameShifts DEF Level
  <2>2. CASE i # DATA_BITS + 1
    <3>1. frame'[i] = frame[i + 1]
      BY <1>1, <1>2, <2>2, FrameShifts
    <3>2. i + 1 \in 1..DATA_BITS + 1 /\ tx_index + (i + 1) = tx_index + 1 + i
      BY <1>2, <2>2
    <3> QED  BY <1>2, <3>1, <3>2
  <2> QED  BY <2>1, <2>2
<1>5. frame' \in [1..DATA_BITS + 1 -> {0, 1}]
  BY <1>1, <1>2, FrameShifts
<1>6. TxOK'
  <2>1. \A i \in 1..DATA_BITS + 1 : frame'[i] = Level(tx_frame', tx_index' + i)
    BY <1>1, <1>4
  <2>2. tx' = Level(tx_frame', tx_index')
    BY <1>1, <1>3
  <2>3. /\ tx_index' \in Nat /\ tx_index' <= DATA_BITS + 1
        /\ tx_timer' \in Nat /\ tx_timer' <= BIT_LAST
    BY <1>1, <1>2
  <2>4. tx_busy' \in BOOLEAN /\ tx_busy'
    BY <1>1 DEF TxOK
  <2> QED  BY <1>1, <1>2, <1>3, <1>5, <2>1, <2>2, <2>3, <2>4 DEF TxOK
<1>7. Elapsed' = Elapsed + 1
  <2>1. Span(tx_index') = Span(tx_index) + CLKS_PER_BIT /\ Span(tx_index) \in Nat
    BY <1>1, <1>2, SpanFacts
  <2> QED  BY <1>1, <2>1 DEF Elapsed
<1> QED  BY <1>1, <1>6, <1>7

(* An edge at rest. *)
LEMMA TxRests ==
  ASSUME TxOK, Tx!Rest
  PROVE  TxOK' /\ ~tx_busy /\ ~tx_busy'
<1> QED  BY DEF Tx!Rest, TxOK

(* The edge at the end of the stop bit. *)
LEMMA TxEnds ==
  ASSUME TxOK, Tx!EndFrame
  PROVE  TxOK' /\ tx_busy /\ tx_busy' = FALSE
         /\ Elapsed = Span(DATA_BITS + 1) + BIT_LAST
<1>1. /\ tx_busy /\ tx_timer = 0 /\ tx_index = DATA_BITS + 1 /\ tx' = 1 /\ tx_busy' = FALSE
      /\ UNCHANGED <<tx_timer, tx_index, frame>>
  BY DEF Tx!EndFrame
<1>2. TxOK'
  BY <1>1 DEF TxOK
<1>3. Elapsed = Span(DATA_BITS + 1) + BIT_LAST
  BY <1>1, SpanFacts, TimeFacts DEF Elapsed
<1> QED  BY <1>1, <1>2, <1>3

(* Half a bit time of slack: however the clocks have drifted apart within  *)
(* the tolerance, the line still shows the bit the receiver is to sample.  *)
LEMMA LineIsSeen ==
  ASSUME TxOK, tx_busy, LinkOK, drift \in -TOLERANCE..TOLERANCE,
         NEW k \in Int, k = Elapsed - drift
  PROVE  Sees(k, tx_frame)
<1> USE TimeFacts, HalfFacts
<1>1. /\ drift \in Int /\ -TOLERANCE <= drift /\ drift <= TOLERANCE /\ TOLERANCE \in Nat
      /\ TOLERANCE + Half < CLKS_PER_BIT /\ TOLERANCE <= Half
  BY DEF LinkOK, Half
<1>2. /\ tx_index \in Nat /\ tx_index <= DATA_BITS + 1
      /\ tx = Level(tx_frame, tx_index)
  BY DEF TxOK
<1>3. /\ Elapsed \in Nat /\ Span(tx_index) \in Nat
      /\ Span(tx_index) <= Elapsed /\ Elapsed < Span(tx_index) + CLKS_PER_BIT
  BY ElapsedFacts
<1>4. ASSUME NEW j \in Nat, Span(j) <= Elapsed
      PROVE  tx_index >= j
  <2>1. Span(j) \in Nat
    BY <1>4, SpanFacts
  <2>2. tx_index < j => Span(tx_index) + CLKS_PER_BIT <= Span(j)
    BY <1>2, <1>4, SpanFacts
  <2> QED  BY <1>2, <1>3, <1>4, <2>1, <2>2
<1>5. ASSUME NEW j \in Nat, Elapsed < Span(j) + CLKS_PER_BIT
      PROVE  tx_index <= j
  <2>1. Span(j) \in Nat
    BY <1>5, SpanFacts
  <2>2. j < tx_index => Span(j) + CLKS_PER_BIT <= Span(tx_index)
    BY <1>2, <1>5, SpanFacts
  <2> QED  BY <1>2, <1>3, <1>5, <2>1, <2>2
<1>6. k <= Half => tx = 0
  <2> SUFFICES ASSUME k <= Half PROVE tx = 0
    OBVIOUS
  <2>1. Elapsed < Span(0) + CLKS_PER_BIT
    BY <1>1, <1>3, SpanFacts
  <2>2. tx_index = 0
    BY <1>2, <1>5, <2>1
  <2> QED  BY <1>2, <2>2 DEF Level
<1>7. \A j \in 1..DATA_BITS : k = Half + Span(j) => tx = tx_frame[j]
  <2> SUFFICES ASSUME NEW j \in 1..DATA_BITS, k = Half + Span(j)
               PROVE  tx = tx_frame[j]
    OBVIOUS
  <2>1. j \in Nat /\ Span(j) \in Nat
    BY SpanFacts
  <2>2. Span(j) <= Elapsed /\ Elapsed < Span(j) + CLKS_PER_BIT
    BY <1>1, <1>3, <2>1
  <2>3. tx_index = j
    BY <1>2, <1>4, <1>5, <2>1, <2>2
  <2> QED  BY <1>2, <2>3 DEF Level
<1>8. k >= Half + Span(DATA_BITS + 1) => tx = 1
  <2> SUFFICES ASSUME k >= Half + Span(DATA_BITS + 1) PROVE tx = 1
    OBVIOUS
  <2>1. Span(DATA_BITS + 1) <= Elapsed
    BY <1>1, <1>3, SpanFacts
  <2> DEFINE m == DATA_BITS + 1
  <2>2. m \in Nat /\ Span(m) <= Elapsed
    BY <2>1
  <2> HIDE DEF m
  <2>3. tx_index >= m
    BY <1>4, <2>2
  <2>4. tx_index # 0 /\ ~(tx_index <= DATA_BITS)
    BY <1>2, <2>3 DEF m
  <2> QED  BY <1>2, <2>4 DEF Level
<1> QED  BY <1>6, <1>7, <1>8 DEF Sees
-----------------------------------------------------------------------------
(* The receiver agrees with the frame on the line, and what is under way   *)
(* is in its shift register, on the line, or both.                         *)
LinkInv ==
  /\ RxOK /\ TxOK
  /\ drift \in -TOLERANCE..TOLERANCE
  /\ rx_framing_error = FALSE
  /\ tx_busy => InFrame(Elapsed - drift, tx_frame, crossing)
  /\ ~tx_busy => Between(crossing)

(* When a frame ends the receiver has given the byte, or is about to. *)
LEMMA FrameIsOver ==
  ASSUME NEW k \in Int, NEW d, NEW c, k >= Half + 1 + Span(DATA_BITS + 1)
  PROVE  /\ RxOK /\ InFrame(k, d, c) => Between(c)
         /\ (RxOK /\ InFrame(k, d, c) => Between(c))'
<1> USE HalfFacts, TimeFacts
<1>1. RxOK /\ InFrame(k, d, c) => Between(c)
  <2> SUFFICES ASSUME RxOK, InFrame(k, d, c) PROVE Between(c)
    OBVIOUS
  <2>1. /\ bit_timer \in Nat /\ bit_index \in Nat /\ bit_index <= DATA_BITS - 1
    BY DEF RxOK, RegistersOK
  <2>2. Span(DATA_BITS + 1) \in Nat /\ Span(DATA_BITS) \in Nat
        /\ Span(DATA_BITS + 1) = Span(DATA_BITS) + CLKS_PER_BIT
    BY SpanFacts
  <2>3. ~Waking(k, d, c)
    BY <2>2 DEF Waking
  <2>4. ~InStart(k, d, c)
    BY <2>1, <2>2 DEF InStart
  <2>5. ~InData(k, d, c)
    <3> DEFINE m == bit_index + 1
    <3>1. m \in Nat /\ m <= DATA_BITS
      BY <2>1
    <3> HIDE DEF m
    <3>2. Span(m) \in Nat /\ Span(m) <= Span(DATA_BITS)
      BY <3>1, SpanFacts
    <3>3. InData(k, d, c) => k = Half + 2 + Span(m) - bit_timer
      BY DEF InData, m
    <3> QED  BY <2>1, <2>2, <3>2, <3>3
  <2>6. InStop(k, d, c) => Between(c)
    BY <2>1, <2>2 DEF InStop, Between
  <2>7. Given(k, d, c) => Between(c)
    BY DEF Given, Between
  <2> QED  BY <2>3, <2>4, <2>5, <2>6, <2>7 DEF InFrame
<1>2. (RxOK /\ InFrame(k, d, c) => Between(c))'
  BY <1>1, PTL
<1> QED  BY <1>1, <1>2

(* Two bytes, one after the other. *)
LEMMA TwoBytes ==
  ASSUME NEW S, NEW a \in S, NEW b \in S
  PROVE  /\ <<a>> \o <<b>> = <<a, b>>
         /\ <<>> \in Seq(S) /\ <<a>> \in Seq(S) /\ <<a, b>> \in Seq(S)
<1>1. /\ <<>> \in Seq(S)
      /\ <<a>> \in Seq(S) /\ Len(<<a>>) = 1 /\ <<a>>[1] = a
      /\ <<b>> \in Seq(S) /\ Len(<<b>>) = 1 /\ <<b>>[1] = b
  OBVIOUS
<1>2. /\ <<a, b>> \in Seq(S) /\ Len(<<a, b>>) = 2 /\ <<a, b>>[1] = a /\ <<a, b>>[2] = b
  OBVIOUS
<1>3. /\ <<a>> \o <<b>> \in Seq(S) /\ Len(<<a>> \o <<b>>) = 2
      /\ (<<a>> \o <<b>>)[1] = a /\ (<<a>> \o <<b>>)[2] = b
  BY <1>1, ConcatProperties
<1>4. <<a>> \o <<b>> = <<a, b>>
  <2> DEFINE s == <<a>> \o <<b>>
             t == <<a, b>>
  <2>1. /\ s \in Seq(S) /\ Len(s) = 2 /\ s[1] = a /\ s[2] = b
        /\ t \in Seq(S) /\ Len(t) = 2 /\ t[1] = a /\ t[2] = b
    BY <1>2, <1>3
  <2> HIDE DEF s, t
  <2>2. \A i \in 1..Len(s) : s[i] = t[i]
    <3> SUFFICES ASSUME NEW i \in 1..Len(s) PROVE s[i] = t[i]
      OBVIOUS
    <3>1. i = 1 \/ i = 2
      BY <2>1
    <3> QED  BY <2>1, <3>1
  <2>3. s = t
    BY <2>1, <2>2, SeqEqual
  <2> QED  BY <2>3 DEF s, t
<1> QED  BY <1>1, <1>2, <1>4

(* A byte taken at rest is under way behind what the receiver still has. *)
LEMMA FrameBegins ==
  ASSUME NEW d \in Bits, NEW c
  PROVE  (RxOK /\ Between(c) => InFrame(0, d, c \o <<d>>))'
<1>1. RxOK /\ Between(c) => InFrame(0, d, c \o <<d>>)
  <2> SUFFICES ASSUME RxOK, Between(c) PROVE Waking(0, d, c \o <<d>>)
    BY DEF InFrame
  <2>1. bit_timer \in Nat /\ data_shift \in Bits
    BY DEF RxOK, RegistersOK
  <2>2. CASE rx_state = "IDLE" /\ rx_sync = 1 /\ c = <<>>
    <3>1. c \o <<d>> = <<d>>
      BY <2>2
    <3> QED  BY <2>2, <3>1 DEF Waking, Between
  <2>3. CASE /\ rx_state = "STOP" /\ bit_timer <= 1 /\ (bit_timer = 0 => rx_sync = 1)
             /\ c = <<data_shift>>
    <3>1. c \o <<d>> = <<data_shift, d>>
      BY <2>1, <2>3, TwoBytes
    <3> QED  BY <2>1, <2>3, <3>1 DEF Waking, Between
  <2> QED  BY <2>2, <2>3 DEF Between
<1> QED  BY <1>1, PTL

(* What is under way is a sequence of bytes. *)
LEMMA UnderWay ==
  ASSUME NEW k, NEW d \in Bits, NEW c
  PROVE  /\ (RxOK /\ (InFrame(k, d, c) \/ Between(c)) => c \in Seq(Bits))'
         /\ RxOK /\ (InFrame(k, d, c) \/ Between(c)) => c \in Seq(Bits)
<1>1. RxOK /\ (InFrame(k, d, c) \/ Between(c)) => c \in Seq(Bits)
  <2> SUFFICES ASSUME RxOK, InFrame(k, d, c) \/ Between(c) PROVE c \in Seq(Bits)
    OBVIOUS
  <2>1. data_shift \in Bits
    BY DEF RxOK, RegistersOK
  <2>2. c \in {<<>>, <<d>>, <<data_shift>>, <<data_shift, d>>}
    BY DEF InFrame, Waking, InStart, InData, InStop, Given, Between
  <2> QED  BY <2>1, <2>2, TwoBytes
<1>2. (RxOK /\ (InFrame(k, d, c) \/ Between(c)) => c \in Seq(Bits))'
  BY <1>1, PTL
<1> QED  BY <1>1, <1>2

(* What is under way after the receiver's and the transmitter's part. *)
LEMMA CrossIs ==
  ASSUME NEW rest, Quietly(crossing, rest) \/ Delivers(crossing, rest), Cross
  PROVE  /\ crossing' = rest \o Taken
         /\ rx_framing_error' = FALSE
         /\ Arrives => crossing # <<>> /\ rx_data' = Head(crossing)
<1>1. CASE Quietly(crossing, rest)
  <2>1. ~Arrives /\ rx_framing_error' = FALSE /\ rest = crossing
    BY <1>1 DEF Quietly, Arrives
  <2> QED  BY <2>1 DEF Cross
<1>2. CASE Delivers(crossing, rest)
  <2>1. Arrives
    BY <1>2 DEF Delivers, Arrives
  <2> QED  BY <1>2, <2>1 DEF Delivers, Cross
<1> QED  BY <1>1, <1>2

(* The invariant speaks of the registers, the lemmas of their values. *)
LEMMA FrameNow ==
  ASSUME NEW k, NEW d, NEW c, InFrame(k, d, c)',
         (Elapsed - drift)' = k, tx_frame' = d, crossing' = c
  PROVE  InFrame(Elapsed - drift, tx_frame, crossing)'
<1> DEFINE age == Elapsed - drift
<1>1. age' = k
  OBVIOUS
<1> HIDE DEF age
<1>2. InFrame(age, tx_frame, crossing)'
  BY <1>1 DEF InFrame, Waking, InStart, InData, InStop, Given
<1> QED  BY <1>2 DEF age

(* The same for a line at rest. *)
LEMMA BetweenNow ==
  ASSUME NEW c, Between(c)', crossing' = c
  PROVE  Between(crossing)'
<1> QED  BY DEF Between

(* An edge of the receiver, in a frame or at rest. *)
LEMMA ReceiverEdge ==
  ASSUME LinkInv, LinkOK, Edge(tx),
         NEW k \in Int, k = Elapsed - drift, NEW d, d = tx_frame
  PROVE  \E rest : /\ Quietly(crossing, rest) \/ Delivers(crossing, rest)
                   /\ RxOK'
                   /\ tx_busy => InFrame(k + 1, d, rest)'
                   /\ ~tx_busy => Between(rest)'
<1>1. Edge(tx) /\ RxOK /\ TxOK /\ tx \in {0, 1}
  BY DEF LinkInv, TxOK
<1>2. RxOK'
  BY <1>1, EdgeOK
<1>3. CASE tx_busy
  <2>1. d \in Bits
    BY <1>1, <1>3 DEF TxOK
  <2>2. Sees(k, tx_frame)
    BY <1>1, <1>3, LineIsSeen DEF LinkInv
  <2>3. InFrame(k, d, crossing)
    BY <1>3 DEF LinkInv
  <2>4. Moves(k + 1, d, crossing)
    BY <1>1, <2>1, <2>2, <2>3, FrameMoves
  <2> QED  BY <1>2, <1>3, <2>4 DEF Moves
<1>4. CASE ~tx_busy
  <2>1. tx = 1 /\ Between(crossing)
    BY <1>1, <1>4 DEF LinkInv, TxOK
  <2>2. \E rest : (Quietly(crossing, rest) \/ Delivers(crossing, rest)) /\ Between(rest)'
    BY <1>1, <2>1, BetweenMoves
  <2> QED  BY <1>2, <1>4, <2>2
<1> QED  BY <1>3, <1>4

(* No edge of the receiver. *)
LEMMA ReceiverStill ==
  ASSUME LinkInv, UNCHANGED vars,
         NEW k \in Int, k = Elapsed - drift, NEW d, d = tx_frame
  PROVE  /\ RxOK' /\ rx_framing_error' = FALSE /\ ~Arrives
         /\ \A rest : rest = crossing =>
              /\ tx_busy => InFrame(k, d, rest)'
              /\ ~tx_busy => Between(rest)'
<1>1. UNCHANGED <<rx_meta, rx_sync, rx_state, bit_timer, bit_index, data_shift,
                  rx_data, rx_done, rx_framing_error>>
  BY DEF vars
<1>2. RxOK' /\ rx_framing_error' = FALSE /\ ~Arrives
  BY <1>1 DEF LinkInv, RxOK, RegistersOK, Arrives
<1>3. ASSUME NEW rest, rest = crossing, tx_busy PROVE InFrame(k, d, rest)'
  <2>1. InFrame(k, d, rest)
    BY <1>3 DEF LinkInv
  <2> QED  BY <1>1, <2>1 DEF InFrame, Waking, InStart, InData, InStop, Given
<1>4. ASSUME NEW rest, rest = crossing, ~tx_busy PROVE Between(rest)'
  <2>1. Between(rest)
    BY <1>4 DEF LinkInv
  <2> QED  BY <1>1, <2>1 DEF Between
<1> QED  BY <1>2, <1>3, <1>4

(* The transmitter's part of a step, given the receiver's: m and n are the *)
(* edges of the one and of the other.                                      *)
LEMMA TransmitterStep ==
  ASSUME LinkInv, LinkOK, NEW m \in {0, 1}, NEW n \in {0, 1},
         \/ m = 1 /\ TxEdge
         \/ m = 0 /\ UNCHANGED txVars,
         Gained(m - n),
         NEW k \in Int, k = Elapsed - drift, NEW d, d = tx_frame, NEW rest,
         crossing' = rest \o Taken,
         RxOK', rx_framing_error' = FALSE,
         tx_busy => InFrame(k + n, d, rest)',
         ~tx_busy => Between(rest)'
  PROVE  LinkInv'
<1> USE HalfFacts, TimeFacts
<1>1. /\ TxOK /\ drift \in Int /\ -TOLERANCE <= drift /\ drift <= TOLERANCE
      /\ TOLERANCE \in Nat /\ TOLERANCE + Half < CLKS_PER_BIT
      /\ Elapsed \in Nat /\ tx_busy \in BOOLEAN
  BY ElapsedFacts DEF LinkInv, LinkOK, Half, TxOK
<1>2. ASSUME TxOK', rest \in Seq(Bits), ~(tx_busy' /\ ~tx_busy)
      PROVE  /\ drift' = drift + (m - n) /\ drift' \in -TOLERANCE..TOLERANCE
             /\ crossing' = rest
  <2>1. Taken = <<>>
    BY <1>2 DEF Taken
  <2> QED  BY <1>2, <2>1, ConcatEmptySeq DEF Gained, Drift
<1>3. ASSUME TxOK', tx_busy, tx_busy', tx_frame' = tx_frame, Elapsed' = Elapsed + m
      PROVE  LinkInv'
  <2>1. d \in Bits /\ InFrame(k + n, d, rest)'
    BY <1>1, <1>3 DEF TxOK
  <2>2. rest \in Seq(Bits)
    BY <2>1, UnderWay
  <2>3. crossing' = rest /\ drift' = drift + (m - n) /\ drift' \in -TOLERANCE..TOLERANCE
    BY <1>2, <1>3, <2>2
  <2>4. (Elapsed - drift)' = k + n
    BY <1>1, <1>3, <2>3
  <2>5. InFrame(Elapsed - drift, tx_frame, crossing)'
    BY <1>3, <2>1, <2>3, <2>4, FrameNow
  <2> QED  BY <1>3, <2>3, <2>5 DEF LinkInv
<1>4. ASSUME TxOK', ~tx_busy, ~tx_busy'
      PROVE  LinkInv'
  <2>1. Between(rest)'
    BY <1>4
  <2>2. rest \in Seq(Bits)
    <3>1. Zeros \in Bits
      BY DEF Zeros, Bits
    <3> QED  BY <2>1, <3>1, UnderWay
  <2>3. crossing' = rest /\ drift' \in -TOLERANCE..TOLERANCE
    BY <1>2, <1>4, <2>2
  <2>4. Between(crossing)'
    BY <2>1, <2>3, BetweenNow
  <2> QED  BY <1>4, <2>3, <2>4 DEF LinkInv
<1>5. CASE m = 0 /\ UNCHANGED txVars
  <2>1. UNCHANGED <<tx, tx_busy, tx_done, tx_timer, tx_index, frame, tx_frame>>
    BY <1>5 DEF txVars
  <2>2. TxOK' /\ Elapsed' = Elapsed + m /\ tx_frame' = tx_frame /\ tx_busy' = tx_busy
    BY <1>1, <1>5, <2>1 DEF TxOK, Elapsed
  <2> QED  BY <1>3, <1>4, <2>2
<1>6. CASE m = 1 /\ (Tx!HoldBit \/ Tx!NextBit)
  <2>1. TxOK' /\ Elapsed' = Elapsed + m /\ tx_busy' = tx_busy /\ tx_frame' = tx_frame
    BY <1>1, <1>6, TxHolds, TxShifts
  <2> QED  BY <1>3, <1>4, <2>1
<1>7. CASE Tx!Rest
  BY <1>1, <1>4, <1>7, TxRests
<1>8. CASE m = 1 /\ Tx!EndFrame
  <2>1. TxOK' /\ tx_busy /\ tx_busy' = FALSE /\ Elapsed = Span(DATA_BITS + 1) + BIT_LAST
    BY <1>1, <1>8, TxEnds
  <2>2. d \in Bits /\ InFrame(k + n, d, rest)'
    BY <1>1, <2>1 DEF TxOK
  <2>3. rest \in Seq(Bits)
    BY <2>2, UnderWay
  <2>4. crossing' = rest /\ drift' = drift + (m - n) /\ drift' \in -TOLERANCE..TOLERANCE
    BY <1>2, <2>1, <2>3
  <2>5. k + n >= Half + 1 + Span(DATA_BITS + 1)
    <3>1. Span(DATA_BITS + 1) \in Nat
      BY SpanFacts
    <3>2. drift' <= TOLERANCE /\ drift' = drift + (1 - n) /\ drift' \in Int
      BY <1>1, <1>8, <2>4
    <3>3. k + n = Elapsed + 1 - drift'
      BY <1>1, <3>2
    <3>4. Elapsed + 1 = Span(DATA_BITS + 1) + CLKS_PER_BIT
      BY <2>1, <3>1
    <3> QED  BY <1>1, <3>1, <3>2, <3>3, <3>4
  <2>6. Between(rest)'
    <3> DEFINE q == k + n
    <3>1. q \in Int /\ q >= Half + 1 + Span(DATA_BITS + 1) /\ InFrame(q, d, rest)'
      BY <2>2, <2>5
    <3> HIDE DEF q
    <3> QED  BY <3>1, FrameIsOver
  <2>7. Between(crossing)'
    BY <2>4, <2>6, BetweenNow
  <2> QED  BY <2>1, <2>4, <2>7 DEF LinkInv
<1>9. ASSUME NEW data \in Data, Tx!Start(data)
      PROVE  LinkInv'
  <2>1. data \in Bits /\ ~tx_busy
    BY <1>9 DEF LinkOK, Tx!Start
  <2>2. TxOK' /\ Elapsed' = 0 /\ tx_busy' = TRUE /\ tx_frame' = data
    BY <1>9, <2>1, TxStarts
  <2>3. drift' = 0 /\ drift' \in -TOLERANCE..TOLERANCE
    BY <2>1, <2>2 DEF Gained, Drift
  <2>4. crossing' = rest \o <<data>>
    BY <2>1, <2>2 DEF Taken
  <2>5. InFrame(0, data, rest \o <<data>>)'
    BY <2>1, FrameBegins
  <2>6. (Elapsed - drift)' = 0
    BY <2>2, <2>3
  <2>7. InFrame(Elapsed - drift, tx_frame, crossing)'
    BY <2>2, <2>4, <2>5, <2>6, FrameNow
  <2> QED  BY <2>2, <2>3, <2>7 DEF LinkInv
<1> QED  BY <1>5, <1>6, <1>7, <1>8, <1>9 DEF TxEdge, Tx!Tick

(* Both ends at rest, nothing under way. *)
LEMMA InitLink == LinkOK /\ LinkInit => LinkInv
<1> SUFFICES ASSUME LinkOK, LinkInit PROVE LinkInv
  OBVIOUS
<1> USE TimeFacts
<1>1. Zeros \in Bits
  BY DEF Zeros, Bits
<1>2. RxOK /\ rx_framing_error = FALSE
  <2>1. RegistersOK
    BY <1>1 DEF LinkInit, RegistersOK
  <2>2. rx_done = FALSE /\ rx_framing_error = FALSE
    BY DEF LinkInit
  <2> QED  BY <2>1, <2>2, Zenon DEF RxOK
<1>3. TxOK /\ ~tx_busy
  <2>1. tx = 1 /\ tx_busy = FALSE /\ tx_timer = 0 /\ tx_index = 0 /\ frame = Tx!Ones
    BY DEF LinkInit, Tx!Init
  <2>2. Tx!Ones \in [1..DATA_BITS + 1 -> {0, 1}]
    BY DEF Tx!Ones
  <2>3. /\ tx \in {0, 1} /\ tx = 1 /\ tx_timer \in Nat /\ tx_timer <= BIT_LAST
        /\ tx_index \in Nat /\ tx_index <= DATA_BITS + 1
        /\ frame \in [1..DATA_BITS + 1 -> {0, 1}]
    BY <2>1, <2>2
  <2>4. tx_busy \in BOOLEAN /\ ~tx_busy
    BY <2>1
  <2> QED  BY ONLY <2>3, <2>4 DEF TxOK
<1>4. Between(crossing)
  BY DEF LinkInit, Between
<1>5. drift \in -TOLERANCE..TOLERANCE
  BY DEF LinkInit, LinkOK
<1> QED  BY <1>2, <1>3, <1>4, <1>5 DEF LinkInv

(* One step of either clock, or of both, and what it reports. *)
LEMMA LinkStep ==
  ASSUME LinkInv, LinkOK, LinkNext
  PROVE  /\ LinkInv'
         /\ Arrives => crossing # <<>> /\ rx_data' = Head(crossing)
<1>1. Elapsed - drift \in Int
  BY ElapsedFacts DEF LinkInv, LinkOK
<1>2. PICK k \in Int : k = Elapsed - drift
  BY <1>1
<1>3. PICK d : d = tx_frame
  OBVIOUS
<1>4. CASE BothTick
  <2>1. TxEdge /\ Edge(tx) /\ Gained(0) /\ Cross
    BY <1>4 DEF BothTick
  <2>2. PICK rest : /\ Quietly(crossing, rest) \/ Delivers(crossing, rest)
                    /\ RxOK'
                    /\ tx_busy => InFrame(k + 1, d, rest)'
                    /\ ~tx_busy => Between(rest)'
    BY <1>2, <1>3, <2>1, ReceiverEdge
  <2>3. /\ crossing' = rest \o Taken /\ rx_framing_error' = FALSE
        /\ Arrives => crossing # <<>> /\ rx_data' = Head(crossing)
    BY <2>1, <2>2, CrossIs
  <2>4. Gained(1 - 1)
    BY <2>1
  <2>5. LinkInv'
    BY <1>2, <1>3, <2>1, <2>2, <2>3, <2>4, TransmitterStep
  <2> QED  BY <2>3, <2>5
<1>5. CASE TxTicks
  <2>1. TxEdge /\ UNCHANGED vars /\ Gained(1) /\ Cross
    BY <1>5 DEF TxTicks
  <2>2. PICK rest : rest = crossing
    OBVIOUS
  <2>3. /\ RxOK' /\ rx_framing_error' = FALSE /\ ~Arrives
        /\ tx_busy => InFrame(k + 0, d, rest)'
        /\ ~tx_busy => Between(rest)'
    <3>1. k + 0 = k
      BY <1>2
    <3>2. /\ RxOK' /\ rx_framing_error' = FALSE /\ ~Arrives
          /\ \A r : r = crossing =>
               /\ tx_busy => InFrame(k, d, r)'
               /\ ~tx_busy => Between(r)'
      BY <1>2, <1>3, <2>1, ReceiverStill
    <3> QED  BY <2>2, <3>1, <3>2
  <2>4. crossing' = rest \o Taken
    BY <2>1, <2>2, <2>3 DEF Cross
  <2>5. Gained(1 - 0)
    BY <2>1
  <2>6. LinkInv'
    BY <1>2, <1>3, <2>1, <2>3, <2>4, <2>5, TransmitterStep
  <2> QED  BY <2>3, <2>6
<1>6. CASE RxTicks
  <2>1. UNCHANGED txVars /\ Edge(tx) /\ Gained(-1) /\ Cross
    BY <1>6 DEF RxTicks
  <2>2. PICK rest : /\ Quietly(crossing, rest) \/ Delivers(crossing, rest)
                    /\ RxOK'
                    /\ tx_busy => InFrame(k + 1, d, rest)'
                    /\ ~tx_busy => Between(rest)'
    BY <1>2, <1>3, <2>1, ReceiverEdge
  <2>3. /\ crossing' = rest \o Taken /\ rx_framing_error' = FALSE
        /\ Arrives => crossing # <<>> /\ rx_data' = Head(crossing)
    BY <2>1, <2>2, CrossIs
  <2>4. Gained(0 - 1)
    BY <2>1
  <2>5. LinkInv'
    BY <1>2, <1>3, <2>1, <2>2, <2>3, <2>4, TransmitterStep
  <2> QED  BY <2>3, <2>5
<1> QED  BY <1>4, <1>5, <1>6 DEF LinkNext

(* The link's invariant is inductive. *)
LEMMA NextLink == LinkOK /\ LinkInv /\ [LinkNext]_linkVars => LinkInv'
<1> SUFFICES ASSUME LinkOK, LinkInv, [LinkNext]_linkVars PROVE LinkInv'
  OBVIOUS
<1>1. CASE UNCHANGED linkVars
  <2>1. UNCHANGED <<tx, tx_busy, tx_done, tx_timer, tx_index, frame, tx_frame,
                    rx_meta, rx_sync, rx_state, bit_timer, bit_index, data_shift,
                    rx_data, rx_done, rx_framing_error, drift, crossing>>
    BY <1>1 DEF linkVars, txVars, vars
  <2> QED  BY <2>1 DEF LinkInv, RxOK, RegistersOK, TxOK, Elapsed, InFrame, Waking, InStart,
                       InData, InStop, Given, Between
<1> QED  BY <1>1, LinkStep

(* A frame of the transmitter reaches the receiver with every bit, for     *)
(* every bit time the RTL accepts and every number of data bits, if the    *)
(* clocks gain less than half a bit time on each other within a frame      *)
(* (uart_rx.sv samples at the middle of a bit): bytes come out once and in *)
(* order, and no framing error is reported.                                *)
THEOREM BytesCrossIntact ==
  ASSUME TOLERANCE + CLKS_PER_BIT \div 2 < CLKS_PER_BIT
  PROVE  LinkSpec => CrossesIntact
<1>1. LinkOK
  BY LinkAssumption DEF LinkOK, Bits
<1>2. LinkInit => LinkInv
  BY <1>1, InitLink
<1>3. LinkInv /\ [LinkNext]_linkVars => LinkInv'
  BY <1>1, NextLink
<1>4. LinkInv /\ LinkInv' /\ [LinkNext]_linkVars
        => [/\ Arrives => crossing # <<>> /\ rx_data' = Head(crossing)
            /\ ~rx_framing_error']_linkVars
  BY <1>1, LinkStep DEF LinkInv
<1> QED  BY <1>2, <1>3, <1>4, PTL DEF LinkSpec, CrossesIntact
-----------------------------------------------------------------------------
(* The receiver's edges until it gives the oldest byte under way.          *)
ArrivesIn ==
  IF rx_state = "STOP" THEN bit_timer + 1
  ELSE IF rx_state = "DATA" THEN Span(DATA_BITS - bit_index) + bit_timer + 1
  ELSE IF rx_state = "START" THEN Span(DATA_BITS + 1) + bit_timer + 1
  ELSE Span(DATA_BITS + 1) + Half
         + (IF rx_sync = 0 THEN 1 ELSE IF rx_meta = 0 THEN 2 ELSE 3)

(* With a byte under way the receiver is busy with it, or its start bit is *)
(* at the line or in the synchroniser; no sample finds the wrong level.    *)
LEMMA ReceiverBusy ==
  ASSUME LinkInv, LinkOK, crossing # <<>>
  PROVE  \/ rx_state = "START" /\ rx_sync = 0
         \/ rx_state = "DATA"
         \/ rx_state = "STOP" /\ (bit_timer = 0 => rx_sync = 1)
         \/ rx_state = "IDLE" /\ rx_sync = 0
         \/ rx_state = "IDLE" /\ rx_sync = 1 /\ rx_meta = 0
         \/ rx_state = "IDLE" /\ rx_sync = 1 /\ rx_meta = 1 /\ tx = 0
<1>1. CASE tx_busy
  <2>1. TxOK /\ drift \in -TOLERANCE..TOLERANCE
    BY DEF LinkInv
  <2>2. Elapsed - drift \in Int
    BY <2>1, ElapsedFacts DEF LinkOK
  <2>3. PICK k \in Int : k = Elapsed - drift
    BY <2>2
  <2>4. Sees(k, tx_frame)
    BY <1>1, <2>1, <2>3, LineIsSeen
  <2>5. InFrame(k, tx_frame, crossing)
    BY <1>1, <2>3 DEF LinkInv
  <2>6. CASE Waking(k, tx_frame, crossing)
    <3>1. k <= Half => tx = 0
      BY <2>4 DEF Sees
    <3> QED  BY <2>6, <3>1, HalfFacts DEF Waking
  <2> QED  BY <2>5, <2>6 DEF InFrame, InStart, InData, InStop, Given
<1>2. CASE ~tx_busy
  BY <1>2 DEF LinkInv, Between
<1> QED  BY <1>1, <1>2

LEMMA ArrivesInType ==
  ASSUME LinkInv, LinkOK, crossing # <<>>
  PROVE  ArrivesIn \in 1..Span(DATA_BITS + 1) + Half + 3
<1>1. /\ bit_timer \in Nat /\ bit_timer <= BIT_LAST
      /\ bit_index \in Nat /\ bit_index <= DATA_BITS - 1
  BY DEF LinkInv, RxOK, RegistersOK
<1>2. Span(DATA_BITS + 1) \in Nat /\ Span(DATA_BITS + 1) >= CLKS_PER_BIT
  BY SpanFacts, TimeFacts
<1>3. CASE rx_state = "DATA"
  <2> DEFINE m == DATA_BITS - bit_index
             n == DATA_BITS + 1
  <2>1. m \in Nat /\ n \in Nat /\ m < n
    BY <1>1, TimeFacts
  <2> HIDE DEF m, n
  <2>2. Span(m) \in Nat /\ Span(m) + CLKS_PER_BIT <= Span(n)
    BY ONLY <2>1, SpanFacts
  <2>3. ArrivesIn = Span(m) + bit_timer + 1
    BY <1>3 DEF ArrivesIn, m
  <2> QED  BY <1>1, <1>2, <2>2, <2>3, TimeFacts, HalfFacts DEF n
<1>4. CASE rx_state = "STOP"
  <2>1. ArrivesIn = bit_timer + 1
    BY <1>4 DEF ArrivesIn
  <2> QED  BY <1>1, <1>2, <2>1, TimeFacts, HalfFacts
<1>5. CASE rx_state = "START"
  <2>1. ArrivesIn = Span(DATA_BITS + 1) + bit_timer + 1 /\ bit_timer < Half
    <3>1. bit_timer < Half
      BY <1>5 DEF LinkInv, InFrame, Waking, InStart, InData, InStop, Given, Between
    <3> QED  BY <1>5, <3>1 DEF ArrivesIn
  <2> QED  BY <1>1, <1>2, <2>1, TimeFacts, HalfFacts
<1>6. CASE rx_state = "IDLE"
  BY <1>2, <1>6, HalfFacts DEF ArrivesIn
<1> QED  BY <1>3, <1>4, <1>5, <1>6, ReceiverBusy

(* An edge of the receiver brings the byte one nearer; the last gives it.  *)
LEMMA ByteNearer ==
  ASSUME LinkInv, LinkOK, crossing # <<>>, Edge(tx)
  PROVE  IF ArrivesIn = 1 THEN rx_done' ELSE ArrivesIn' = ArrivesIn - 1
<1>1. /\ bit_timer \in Nat /\ bit_timer <= BIT_LAST
      /\ bit_index \in Nat /\ bit_index <= DATA_BITS - 1
      /\ RxOK
  BY DEF LinkInv, RxOK, RegistersOK
<1>2. Span(DATA_BITS + 1) \in Nat /\ Span(DATA_BITS + 1) = Span(DATA_BITS) + CLKS_PER_BIT
      /\ Span(DATA_BITS) \in Nat
  BY SpanFacts
<1> DEFINE m == DATA_BITS - bit_index
<1>3. /\ m \in Nat /\ m >= 1 /\ (bit_index = DATA_BITS - 1 => m = 1)
      /\ Span(m) \in Nat /\ Span(m) >= CLKS_PER_BIT
      /\ Span(m - 1) \in Nat /\ Span(m) = Span(m - 1) + CLKS_PER_BIT
      /\ Span(1) = CLKS_PER_BIT
  <2>1. m \in Nat /\ m >= 1 /\ (bit_index = DATA_BITS - 1 => m = 1)
    BY <1>1, TimeFacts
  <2> HIDE DEF m
  <2>2. m - 1 \in Nat /\ (m - 1) + 1 = m /\ 0 + 1 = 1
    BY <2>1
  <2>3. Span(m - 1) \in Nat /\ Span(m) = Span(m - 1) + CLKS_PER_BIT
    BY <2>2, SpanFacts
  <2>4. Span(0 + 1) = Span(0) + CLKS_PER_BIT /\ Span(0) = 0
    BY SpanFacts
  <2> QED  BY <2>1, <2>2, <2>3, <2>4, TimeFacts
<1>4. rx_state = "DATA" => ArrivesIn = Span(m) + bit_timer + 1
  BY DEF ArrivesIn
<1>5. /\ rx_state' = "STOP" => ArrivesIn' = bit_timer' + 1
      /\ rx_state' = "DATA" => ArrivesIn' = Span(DATA_BITS - bit_index') + bit_timer' + 1
      /\ rx_state' = "START" => ArrivesIn' = Span(DATA_BITS + 1) + bit_timer' + 1
      /\ rx_state' = "IDLE" => ArrivesIn' = Span(DATA_BITS + 1) + Half
           + (IF rx_sync' = 0 THEN 1 ELSE IF rx_meta' = 0 THEN 2 ELSE 3)
  BY DEF ArrivesIn
<1>6. /\ rx_state = "STOP" => ArrivesIn = bit_timer + 1
      /\ rx_state = "START" => ArrivesIn = Span(DATA_BITS + 1) + bit_timer + 1
      /\ rx_state = "IDLE" => ArrivesIn = Span(DATA_BITS + 1) + Half
           + (IF rx_sync = 0 THEN 1 ELSE IF rx_meta = 0 THEN 2 ELSE 3)
  BY DEF ArrivesIn
<1>7. rx_meta' = tx /\ rx_sync' = rx_meta
  BY EdgeByState
<1>8. CASE rx_state \in {"START", "DATA", "STOP"} /\ bit_timer # 0
  <2>1. CountDown
    BY <1>8, EdgeByState
  <2>2. rx_state' = rx_state /\ bit_index' = bit_index /\ bit_timer' = bit_timer - 1
    BY <2>1 DEF CountDown
  <2>3. DATA_BITS - bit_index' = m
    BY <2>2
  <2> HIDE DEF m
  <2> QED  BY <1>1, <1>2, <1>3, <1>4, <1>5, <1>6, <1>8, <2>2, <2>3, SMTT(30)
<1>9. CASE rx_state = "START" /\ bit_timer = 0
  <2>1. SampleStart /\ rx_sync = 0
    BY <1>9, EdgeByState, ReceiverBusy
  <2>2. rx_state' = "DATA" /\ bit_timer' = BIT_LAST /\ bit_index' = 0
    BY <2>1 DEF SampleStart
  <2>3. DATA_BITS - bit_index' = DATA_BITS
    BY <2>2, TimeFacts
  <2> QED  BY <1>2, <1>5, <1>6, <1>9, <2>2, <2>3, TimeFacts
<1>10. CASE rx_state = "DATA" /\ bit_timer = 0
  <2>1. SampleData
    BY <1>10, EdgeByState
  <2>2. CASE bit_index = DATA_BITS - 1
    <3>1. rx_state' = "STOP" /\ bit_timer' = BIT_LAST
      BY <2>1, <2>2 DEF SampleData
    <3> HIDE DEF m
    <3>2. Span(m) = CLKS_PER_BIT
      BY <1>3, <2>2
    <3> QED  BY <1>4, <1>5, <1>10, <3>1, <3>2, TimeFacts
  <2>3. CASE bit_index # DATA_BITS - 1
    <3>1. rx_state' = "DATA" /\ bit_timer' = BIT_LAST /\ bit_index' = bit_index + 1
      BY <2>1, <2>3 DEF SampleData
    <3>2. DATA_BITS - bit_index' = m - 1
      BY <1>1, <3>1, TimeFacts
    <3> HIDE DEF m
    <3> QED  BY <1>3, <1>4, <1>5, <1>10, <3>1, <3>2, TimeFacts
  <2> QED  BY <2>2, <2>3
<1>11. CASE rx_state = "STOP" /\ bit_timer = 0
  <2>1. SampleStop /\ rx_sync = 1
    BY <1>11, EdgeByState, ReceiverBusy
  <2>2. rx_done' = TRUE
    BY <1>1, <1>11, <2>1 DEF SampleStop
  <2>3. ArrivesIn = 1
    BY <1>6, <1>11
  <2> QED  BY <2>2, <2>3
<1>12. CASE rx_state = "IDLE"
  <2>1. AwaitStart
    BY <1>12, EdgeByState
  <2>2. CASE rx_sync = 0
    <3>1. rx_state' = "START" /\ bit_timer' = Half - 1
      BY <2>1, <2>2, HalfFacts DEF AwaitStart
    <3> QED  BY <1>2, <1>5, <1>6, <1>12, <2>2, <3>1, HalfFacts
  <2>3. CASE rx_sync = 1
    <3>1. rx_state' = "IDLE" /\ (rx_meta = 0 \/ (rx_meta = 1 /\ tx = 0))
      BY <1>12, <2>1, <2>3, ReceiverBusy DEF AwaitStart
    <3> QED  BY <1>2, <1>5, <1>6, <1>7, <1>12, <2>3, <3>1, HalfFacts
  <2> QED  BY <1>12, <2>2, <2>3, ReceiverBusy
<1> QED  BY <1>8, <1>9, <1>10, <1>11, <1>12, ReceiverBusy

(* The bound behind ByteArrives, for every bit time, number of data bits   *)
(* and drift within the tolerance: the oldest byte under way is at most a  *)
(* frame, half a bit and the three edges of the synchroniser away, and     *)
(* every edge of the receiver brings it one nearer, whatever the           *)
(* transmitter's clock does meanwhile.                                     *)
THEOREM ArrivalIsBounded ==
  ASSUME TOLERANCE + CLKS_PER_BIT \div 2 < CLKS_PER_BIT
  PROVE  LinkSpec =>
           /\ [](crossing # <<>> => ArrivesIn \in 1..Span(DATA_BITS + 1) + Half + 3)
           /\ [][crossing # <<>> =>
                   /\ BothTick \/ RxTicks =>
                        IF ArrivesIn = 1 THEN rx_done' ELSE ArrivesIn' = ArrivesIn - 1
                   /\ TxTicks => ArrivesIn' = ArrivesIn]_linkVars
<1>1. LinkOK
  BY LinkAssumption DEF LinkOK, Bits
<1>2. LinkInit => LinkInv
  BY <1>1, InitLink
<1>3. LinkInv /\ [LinkNext]_linkVars => LinkInv'
  BY <1>1, NextLink
<1>4. LinkInv => (crossing # <<>> => ArrivesIn \in 1..Span(DATA_BITS + 1) + Half + 3)
  BY <1>1, ArrivesInType
<1>5. LinkInv =>
        [crossing # <<>> =>
           /\ BothTick \/ RxTicks =>
                IF ArrivesIn = 1 THEN rx_done' ELSE ArrivesIn' = ArrivesIn - 1
           /\ TxTicks => ArrivesIn' = ArrivesIn]_linkVars
  <2> SUFFICES ASSUME LinkInv, crossing # <<>>
               PROVE  /\ BothTick \/ RxTicks =>
                           IF ArrivesIn = 1 THEN rx_done' ELSE ArrivesIn' = ArrivesIn - 1
                      /\ TxTicks => ArrivesIn' = ArrivesIn
    OBVIOUS
  <2>1. BothTick \/ RxTicks => Edge(tx)
    BY DEF BothTick, RxTicks
  <2>2. TxTicks => ArrivesIn' = ArrivesIn
    BY DEF TxTicks, vars, ArrivesIn
  <2> QED  BY <1>1, <2>1, <2>2, ByteNearer
<1> QED  BY <1>2, <1>3, <1>4, <1>5, PTL DEF LinkSpec
-----------------------------------------------------------------------------
(* The transmitter by itself.  What is left of a frame is counted in bit   *)
(* times and edges of the present one.                                     *)
Left == IF tx_busy
        THEN (DATA_BITS + 1 - tx_index) * CLKS_PER_BIT + tx_timer + 1
        ELSE 0

(* The transmitter's registers by themselves. *)
LEMMA TxEdgeOK ==
  ASSUME Data \subseteq Bits, TxOK, TxEdge \/ UNCHANGED txVars
  PROVE  TxOK'
<1>1. ASSUME NEW data \in Data, Tx!Start(data) PROVE TxOK'
  BY <1>1, TxStarts
<1>2. CASE UNCHANGED txVars
  <2>1. UNCHANGED <<tx, tx_busy, tx_done, tx_timer, tx_index, frame, tx_frame>>
    BY <1>2 DEF txVars
  <2> QED  BY <2>1 DEF TxOK
<1> QED  BY <1>1, <1>2, TxHolds, TxShifts, TxRests, TxEnds DEF TxEdge, Tx!Tick

(* A step of the link is an edge of the transmitter, or none. *)
LEMMA LinkMovesTx ==
  ASSUME [LinkNext]_linkVars
  PROVE  TxEdge \/ UNCHANGED txVars
<1> QED  BY DEF LinkNext, BothTick, TxTicks, RxTicks, linkVars

(* Taking a byte is the port's Start, with a whole frame to go. *)
LEMMA StartIsStart ==
  ASSUME NEW data \in Bits, Tx!Start(data)
  PROVE  Tx!Port!Start(data)
<1>1. /\ ~tx_busy /\ tx_busy' = TRUE /\ tx_done' = FALSE /\ tx_frame' = data
      /\ tx_timer' = BIT_LAST /\ tx_index' = 0
  BY DEF Tx!Start, Tx!BIT_LAST, BIT_LAST
<1>2. Left' = (DATA_BITS + 2) * CLKS_PER_BIT
  <2>1. (DATA_BITS + 1 - 0) * CLKS_PER_BIT + CLKS_PER_BIT = (DATA_BITS + 2) * CLKS_PER_BIT
        /\ (DATA_BITS + 1 - 0) * CLKS_PER_BIT \in Nat
    BY TimeFacts
  <2>2. Left' = (DATA_BITS + 1 - 0) * CLKS_PER_BIT + BIT_LAST + 1
    BY <1>1 DEF Left
  <2> QED  BY <2>1, <2>2, TimeFacts
<1> QED  BY <1>1, <1>2 DEF Left, Tx!Port!Start

(* Any other edge is one edge less of the frame, or rest. *)
LEMMA EdgeIsTick ==
  ASSUME TxOK, Tx!Tick
  PROVE  Tx!Port!Tick
<1> USE TimeFacts
<1>1. tx_timer \in Nat /\ tx_index \in Nat /\ tx_index <= DATA_BITS + 1
  BY DEF TxOK
<1>2. PICK m \in Nat : m = DATA_BITS + 1 - tx_index
  BY <1>1
<1>3. m * CLKS_PER_BIT \in Nat /\ 0 * CLKS_PER_BIT = 0
  OBVIOUS
<1>4. tx_busy => Left = m * CLKS_PER_BIT + tx_timer + 1
  BY <1>2 DEF Left
<1>5. CASE Tx!Rest
  BY <1>5 DEF Tx!Rest, Left, Tx!Port!Tick, Tx!Port!Rest
<1>6. CASE Tx!HoldBit
  <2>1. /\ tx_busy /\ tx_timer > 0 /\ tx_timer' = tx_timer - 1 /\ tx_done' = FALSE
        /\ UNCHANGED <<tx_busy, tx_index, tx_frame>>
    BY <1>1, <1>6 DEF Tx!HoldBit
  <2>2. Left' = m * CLKS_PER_BIT + tx_timer' + 1
    BY <1>2, <2>1 DEF Left
  <2>3. Left > 1 /\ Left' = Left - 1
    BY <1>1, <1>3, <1>4, <2>1, <2>2
  <2> QED  BY <2>1, <2>3 DEF Left, Tx!Port!Tick, Tx!Port!Send
<1>7. CASE Tx!NextBit
  <2>1. /\ tx_busy /\ tx_timer = 0 /\ tx_index < DATA_BITS + 1
        /\ tx_index' = tx_index + 1 /\ tx_timer' = BIT_LAST /\ tx_done' = FALSE
        /\ UNCHANGED <<tx_busy, tx_frame>>
    BY <1>1, <1>7 DEF Tx!NextBit, Tx!BIT_LAST, BIT_LAST
  <2>2. PICK n \in Nat : n = m - 1
    BY <1>1, <1>2, <2>1
  <2>3. m * CLKS_PER_BIT = n * CLKS_PER_BIT + CLKS_PER_BIT /\ n * CLKS_PER_BIT \in Nat
    <3>1. \A i, c \in Nat : (i + 1) * c = i * c + c /\ i * c \in Nat
      OBVIOUS
    <3>2. m = n + 1
      BY <2>2
    <3> QED  BY <3>1, <3>2
  <2>4. DATA_BITS + 1 - tx_index' = n
    BY <1>1, <1>2, <2>1, <2>2
  <2>5. Left' = n * CLKS_PER_BIT + BIT_LAST + 1
    BY <2>1, <2>4 DEF Left
  <2>6. Left > 1 /\ Left' = Left - 1
    BY <1>4, <2>1, <2>3, <2>5
  <2> QED  BY <2>1, <2>6 DEF Left, Tx!Port!Tick, Tx!Port!Send
<1>8. CASE Tx!EndFrame
  <2>1. /\ tx_busy /\ tx_timer = 0 /\ tx_index = DATA_BITS + 1
        /\ tx_busy' = FALSE /\ tx_done' = TRUE /\ tx_frame' = <<>>
    BY <1>8 DEF Tx!EndFrame
  <2>2. Left = 1 /\ Left' = 0
    BY <1>2, <1>3, <1>4, <2>1 DEF Left
  <2> QED  BY <2>1, <2>2 DEF Left, Tx!Port!Tick, Tx!Port!EndFrame
<1> QED  BY <1>5, <1>6, <1>7, <1>8 DEF Tx!Tick

(* The byte port the bridge is modelled with is the one the transmitter    *)
(* provides: it takes a byte whole, is busy for exactly one frame of       *)
(* DATA_BITS + 2 bit times, and pulses tx_done once at its end, for every  *)
(* bit time and whatever the far clock does (uart_tx.sv).                  *)
THEOREM TransmitterImplementsPort == LinkSpec => TxImplementsPort
<1>1. Data \subseteq Bits
  BY LinkAssumption DEF Bits
<1>2. LinkInit => TxOK /\ Tx!Port!Init
  <2> SUFFICES ASSUME LinkInit PROVE TxOK /\ Tx!Port!Init
    OBVIOUS
  <2>1. /\ tx = 1 /\ tx_busy = FALSE /\ tx_timer = 0 /\ tx_index = 0
        /\ frame = Tx!Ones /\ tx_done = FALSE /\ tx_frame = <<>>
    BY DEF LinkInit, Tx!Init
  <2>2. Tx!Ones \in [1..DATA_BITS + 1 -> {0, 1}]
    BY DEF Tx!Ones
  <2>3. /\ tx \in {0, 1} /\ tx = 1 /\ tx_timer \in Nat /\ tx_timer <= BIT_LAST
        /\ tx_index \in Nat /\ tx_index <= DATA_BITS + 1
        /\ frame \in [1..DATA_BITS + 1 -> {0, 1}]
    BY <2>1, <2>2, TimeFacts
  <2>4. tx_busy \in BOOLEAN /\ ~tx_busy
    BY <2>1
  <2>5. TxOK
    BY ONLY <2>3, <2>4 DEF TxOK
  <2>6. Tx!Port!Init
    BY <2>1 DEF Tx!Port!Init
  <2> QED  BY <2>5, <2>6
<1>3. TxOK /\ [LinkNext]_linkVars => TxOK'
  BY <1>1, LinkMovesTx, TxEdgeOK
<1>4. TxOK /\ [LinkNext]_linkVars
        => [\/ \E data \in Data : Tx!Port!Start(data)
            \/ Tx!Port!Tick]_(Tx!Port!vars)
  <2> SUFFICES ASSUME TxOK, [LinkNext]_linkVars
               PROVE  \/ \E data \in Data : Tx!Port!Start(data)
                      \/ Tx!Port!Tick
                      \/ UNCHANGED Tx!Port!vars
    OBVIOUS
  <2>1. ASSUME NEW data \in Data, Tx!Start(data)
        PROVE  \E b \in Data : Tx!Port!Start(b)
    BY <1>1, <2>1, StartIsStart
  <2>2. ASSUME Tx!Tick PROVE Tx!Port!Tick
    BY <2>2, EdgeIsTick
  <2>3. ASSUME UNCHANGED txVars PROVE UNCHANGED Tx!Port!vars
    BY <2>3 DEF txVars, Tx!Port!vars
  <2> QED  BY <2>1, <2>2, <2>3, LinkMovesTx DEF TxEdge
<1> QED  BY <1>2, <1>3, <1>4, PTL DEF LinkSpec, TxImplementsPort
=============================================================================
