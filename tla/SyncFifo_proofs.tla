--------------------------- MODULE SyncFifo_proofs ---------------------------
(***************************************************************************)
(* The FIFO's invariants and its implementation of the bounded queue, for  *)
(* every depth.  DEPTH 1024 with 8-bit words is the instance on the board. *)
(***************************************************************************)
EXTENDS SyncFifo, SequenceTheorems, TLAPS

(* Registers in range and pointers in agreement: inductive together.       *)
IInv == TypeOK /\ PointersAgree /\ ContentsWritten

LEMMA DepthFacts == DEPTH \in Nat /\ DEPTH >= 2 /\ NoData \notin Data
  BY DepthAssumption

LEMMA AddrFacts ==
  /\ 0 \in Addr
  /\ \A a : a \in Addr <=> a \in Nat /\ a < DEPTH
  BY DepthFacts DEF Addr

LEMMA InitIInv == Init => IInv
<1> SUFFICES ASSUME Init PROVE IInv
  OBVIOUS
<1> USE DepthFacts, AddrFacts DEF Init
<1>1. TypeOK
  <2>1. memory \in [Addr -> Data \cup {NoData}]
    OBVIOUS
  <2>2. wr_ptr \in Addr /\ rd_ptr \in Addr
    OBVIOUS
  <2>3. level \in 0..DEPTH /\ high_water \in 0..DEPTH
    OBVIOUS
  <2> QED  BY <2>1, <2>2, <2>3 DEF TypeOK
<1>2. PointersAgree  BY DEF PointersAgree, Slot
<1>3. ContentsWritten  BY DEF ContentsWritten
<1> QED  BY <1>1, <1>2, <1>3 DEF IInv

(* A slot less than DEPTH words away is an address, and two of them differ.*)
LEMMA SlotFacts ==
  ASSUME TypeOK
  PROVE  /\ \A i \in 0..DEPTH : Slot(i) \in Addr
         /\ \A i, j \in 0..DEPTH-1 : Slot(i) = Slot(j) => i = j
         /\ Slot(0) = rd_ptr
         /\ Slot(DEPTH) = rd_ptr
         /\ \A i \in 0..DEPTH-1 : Slot(i + 1) = Succ(Slot(i))
  BY DepthFacts, AddrFacts DEF TypeOK, Slot, Succ

(* Moving the read pointer on shifts every slot by one. *)
LEMMA SlotShift ==
  ASSUME TypeOK, rd_ptr' = Succ(rd_ptr)
  PROVE  \A i \in 0..DEPTH-1 : Slot(i)' = Slot(i + 1)
  BY DepthFacts, AddrFacts DEF TypeOK, Slot, Succ

LEMMA SlotSame ==
  ASSUME rd_ptr' = rd_ptr
  PROVE  \A i : Slot(i)' = Slot(i)
  BY DEF Slot

(* The four things an edge can do to the ring. *)
LEMMA ClockCases ==
  ASSUME TypeOK, NEW wr_en \in BOOLEAN, NEW rd_en \in BOOLEAN, NEW wr_data \in Data,
         Clock(wr_en, wr_data, rd_en)
  PROVE  \/ /\ push(wr_en, rd_en) /\ ~pop(rd_en)
            /\ level < DEPTH
            /\ memory' = [memory EXCEPT ![wr_ptr] = wr_data]
            /\ wr_ptr' = Succ(wr_ptr) /\ rd_ptr' = rd_ptr
            /\ level' = level + 1
            /\ high_water' = IF level = high_water THEN level + 1 ELSE high_water
         \/ /\ ~push(wr_en, rd_en) /\ pop(rd_en)
            /\ level > 0
            /\ memory' = memory
            /\ wr_ptr' = wr_ptr /\ rd_ptr' = Succ(rd_ptr)
            /\ level' = level - 1 /\ high_water' = high_water
         \/ /\ push(wr_en, rd_en) /\ pop(rd_en)
            /\ level > 0
            /\ memory' = [memory EXCEPT ![wr_ptr] = wr_data]
            /\ wr_ptr' = Succ(wr_ptr) /\ rd_ptr' = Succ(rd_ptr)
            /\ level' = level /\ high_water' = high_water
         \/ /\ ~push(wr_en, rd_en) /\ ~pop(rd_en)
            /\ memory' = memory
            /\ wr_ptr' = wr_ptr /\ rd_ptr' = rd_ptr
            /\ level' = level /\ high_water' = high_water
  BY DepthFacts DEF TypeOK, Clock, RamPorts, Pointers, Occupancy, push, pop, full, empty

LEMMA ClockTypeOK ==
  ASSUME IInv, NEW wr_en \in BOOLEAN, NEW rd_en \in BOOLEAN, NEW wr_data \in Data,
         Clock(wr_en, wr_data, rd_en)
  PROVE  TypeOK'
<1> USE DepthFacts, AddrFacts DEF IInv
<1>1. TypeOK /\ PointersAgree
  OBVIOUS
<1>2. \A p \in Addr : Succ(p) \in Addr
  BY DEF Succ
<1>3. memory' \in [Addr -> Data \cup {NoData}]
  BY <1>1 DEF TypeOK, Clock, RamPorts
<1>4. rd_data' \in Data \cup {NoData}
  BY <1>1 DEF TypeOK, Clock, RamPorts
<1>5. wr_ptr' \in Addr /\ rd_ptr' \in Addr
  BY <1>1, <1>2 DEF TypeOK, Clock, Pointers
<1>6. level' \in 0..DEPTH /\ high_water' \in 0..DEPTH
  BY <1>1, ClockCases DEF TypeOK, PointersAgree
<1>7. rd_valid' \in BOOLEAN /\ overflow' \in BOOLEAN
  BY DEF Clock, pop, push, empty, full
<1> QED  BY <1>3, <1>4, <1>5, <1>6, <1>7 DEF TypeOK

LEMMA ClockIInv ==
  ASSUME IInv, NEW wr_en \in BOOLEAN, NEW rd_en \in BOOLEAN, NEW wr_data \in Data,
         Clock(wr_en, wr_data, rd_en)
  PROVE  IInv'
<1> USE DepthFacts, AddrFacts
<1>1. TypeOK /\ PointersAgree /\ ContentsWritten
  BY DEF IInv
<1>2. TypeOK'
  BY ClockTypeOK
<1>3. PointersAgree'
  BY <1>1, ClockCases DEF TypeOK, PointersAgree, Slot, Succ
<1>4. ContentsWritten'
  <2> SUFFICES ASSUME NEW i \in 0..DEPTH-1, i < level'
               PROVE  memory'[Slot(i)'] \in Data
    BY DEF ContentsWritten
  <2>1. level \in 0..DEPTH /\ wr_ptr = Slot(level) /\ memory \in [Addr -> Data \cup {NoData}]
    BY <1>1 DEF TypeOK, PointersAgree
  <2>2. \A j \in 0..DEPTH-1 : j < level => memory[Slot(j)] \in Data
    BY <1>1 DEF ContentsWritten
  <2>3. CASE push(wr_en, rd_en) /\ ~pop(rd_en)
    BY <1>1, <2>1, <2>2, <2>3, ClockCases, SlotFacts, SlotSame
  <2>4. CASE ~push(wr_en, rd_en) /\ pop(rd_en)
    BY <1>1, <2>1, <2>2, <2>4, ClockCases, SlotShift
  <2>5. CASE push(wr_en, rd_en) /\ pop(rd_en)
    BY <1>1, <2>1, <2>2, <2>5, ClockCases, SlotFacts, SlotShift
  <2>6. CASE ~push(wr_en, rd_en) /\ ~pop(rd_en)
    BY <1>1, <2>1, <2>2, <2>6, ClockCases, SlotSame
  <2> QED  BY <2>3, <2>4, <2>5, <2>6
<1> QED  BY <1>2, <1>3, <1>4 DEF IInv

LEMMA ResetIInv == IInv /\ Reset => IInv'
<1> SUFFICES ASSUME IInv, Reset PROVE IInv'
  OBVIOUS
<1> USE DepthFacts, AddrFacts DEF Reset
<1>1. TypeOK'
  <2>1. memory' \in [Addr -> Data \cup {NoData}]
    BY DEF IInv, TypeOK
  <2>2. wr_ptr' \in Addr /\ rd_ptr' \in Addr
    OBVIOUS
  <2>3. level' \in 0..DEPTH /\ high_water' \in 0..DEPTH
    OBVIOUS
  <2> QED  BY <2>1, <2>2, <2>3 DEF IInv, TypeOK
<1>2. PointersAgree'  BY DEF PointersAgree, Slot
<1>3. ContentsWritten'  BY DEF ContentsWritten
<1> QED  BY <1>1, <1>2, <1>3 DEF IInv

LEMMA NextIInv == IInv /\ [Next]_vars => IInv'
<1> SUFFICES ASSUME IInv, [Next]_vars  PROVE IInv'
  OBVIOUS
<1>1. CASE \E wr_en, rd_en \in BOOLEAN, wr_data \in Data : Clock(wr_en, wr_data, rd_en)
  BY <1>1, ClockIInv
<1>2. CASE Reset
  BY <1>2, ResetIInv
<1>3. CASE UNCHANGED vars
  BY <1>3 DEF vars, IInv, TypeOK, PointersAgree, ContentsWritten, Slot
<1> QED  BY <1>1, <1>2, <1>3 DEF Next

(* For every depth: the registers stay in range, the pointers and the      *)
(* occupancy agree, and every word between the pointers was written.       *)
THEOREM FifoInvariant == Spec => [](TypeOK /\ PointersAgree /\ ContentsWritten)
<1>1. Spec => []IInv
  BY InitIInv, NextIInv, PTL DEF Spec
<1>2. IInv => TypeOK /\ PointersAgree /\ ContentsWritten
  BY DEF IInv
<1> QED  BY <1>1, <1>2, PTL

-----------------------------------------------------------------------------
(* The ring as a queue. *)

LEMMA ContentsIsSeq ==
  ASSUME IInv
  PROVE  /\ Contents \in Seq(Data)
         /\ Len(Contents) = level
         /\ DOMAIN Contents = 1..level
         /\ \A i \in 1..level : Contents[i] = memory[Slot(i - 1)]
<1>1. level \in 0..DEPTH /\ level \in Nat
  BY DepthFacts DEF IInv, TypeOK
<1>2. \A i \in 1..level : memory[Slot(i - 1)] \in Data
  BY <1>1, DepthFacts DEF IInv, ContentsWritten
<1>3. Contents \in [1..level -> Data]
  BY <1>2 DEF Contents
<1>4. Contents \in Seq(Data)
  BY <1>1, <1>3
<1>5. Len(Contents) = level /\ DOMAIN Contents = 1..level
  BY <1>1, <1>3, <1>4
<1> QED  BY <1>4, <1>5 DEF Contents

LEMMA EmptyContents ==
  ASSUME IInv
  PROVE  (Contents # <<>>) = (level # 0)
<1>1. Len(Contents) = level /\ Contents \in Seq(Data)
  BY ContentsIsSeq
<1> QED  BY <1>1, EmptySeq

LEMMA HeadOfContents ==
  ASSUME IInv, level # 0
  PROVE  Head(Contents) = memory[rd_ptr]
<1>1. level \in Nat /\ 1 \in 1..level
  BY DepthFacts DEF IInv, TypeOK
<1>2. Contents[1] = memory[Slot(0)]
  BY <1>1, ContentsIsSeq
<1>3. Slot(0) = rd_ptr
  BY SlotFacts DEF IInv
<1> QED  BY <1>2, <1>3

LEMMA TailOfContents ==
  ASSUME IInv, level # 0
  PROVE  /\ Tail(Contents) \in Seq(Data)
         /\ Len(Tail(Contents)) = level - 1
         /\ \A i \in 1..level-1 : Tail(Contents)[i] = memory[Slot(i)]
<1>1. level \in Nat /\ level > 0 /\ level <= DEPTH
  BY DepthFacts DEF IInv, TypeOK
<1>2. Contents \in Seq(Data) /\ Len(Contents) = level /\ Contents # <<>>
  BY ContentsIsSeq, EmptyContents
<1>3. /\ Tail(Contents) \in Seq(Data) /\ Len(Tail(Contents)) = level - 1
      /\ \A i \in 1..level-1 : Tail(Contents)[i] = Contents[i + 1]
  BY <1>1, <1>2, HeadTailProperties
<1>4. \A i \in 1..level-1 : Contents[i + 1] = memory[Slot(i)]
  BY <1>1, ContentsIsSeq
<1> QED  BY <1>3, <1>4

(* The bytes an edge leaves in the ring are those the bounded queue keeps. *)
LEMMA ClockContents ==
  ASSUME IInv, NEW wr_en \in BOOLEAN, NEW rd_en \in BOOLEAN, NEW wr_data \in Data,
         Clock(wr_en, wr_data, rd_en)
  PROVE  Contents' = IF push(wr_en, rd_en)
                     THEN Append(IF pop(rd_en) THEN Tail(Contents) ELSE Contents, wr_data)
                     ELSE IF pop(rd_en) THEN Tail(Contents) ELSE Contents
<1> DEFINE rest == IF pop(rd_en) THEN Tail(Contents) ELSE Contents
           n    == IF pop(rd_en) THEN level - 1 ELSE level
           next == IF push(wr_en, rd_en) THEN Append(rest, wr_data) ELSE rest
<1> USE DepthFacts
<1>1. IInv' /\ TypeOK /\ TypeOK'
  BY ClockIInv DEF IInv
<1>2. level \in Nat /\ level <= DEPTH /\ wr_ptr = Slot(level)
      /\ memory \in [Addr -> Data \cup {NoData}]
  BY DEF IInv, TypeOK, PointersAgree
<1>3. pop(rd_en) => level # 0
  BY DEF pop, empty
<1>4. rest \in Seq(Data) /\ Len(rest) = n /\ n \in Nat
  BY <1>2, <1>3, ContentsIsSeq, TailOfContents
<1>5. \A i \in 1..n : rest[i] = memory[Slot(IF pop(rd_en) THEN i ELSE i - 1)]
  BY <1>2, <1>3, ContentsIsSeq, TailOfContents
<1>6. /\ next \in Seq(Data)
      /\ Len(next) = IF push(wr_en, rd_en) THEN n + 1 ELSE n
      /\ \A i \in 1..n : next[i] = rest[i]
      /\ push(wr_en, rd_en) => next[n + 1] = wr_data
  BY <1>4, AppendProperties
<1>7. level' = IF push(wr_en, rd_en) THEN n + 1 ELSE n
  BY <1>1, <1>2, ClockCases
<1>8. /\ Contents' \in Seq(Data) /\ Len(Contents') = level'
      /\ \A i \in 1..level' : Contents'[i] = memory'[Slot(i - 1)']
  <2>1. (Contents \in Seq(Data) /\ Len(Contents) = level)'
    BY <1>1, ContentsIsSeq, PTL
  <2> QED  BY <2>1 DEF Contents
<1>9. \A i \in 1..level' : Contents'[i] = next[i]
  <2> SUFFICES ASSUME NEW i \in 1..level'  PROVE Contents'[i] = next[i]
    OBVIOUS
  <2>1. /\ Contents'[i] = memory'[Slot(i - 1)']
        /\ i \in Nat /\ i >= 1 /\ i - 1 \in 0..DEPTH-1
    BY <1>1, <1>2, <1>8, AddrFacts DEF TypeOK
  <2>2. /\ i \in 1..n => next[i] = memory[Slot(IF pop(rd_en) THEN i ELSE i - 1)]
        /\ push(wr_en, rd_en) /\ i = n + 1 => next[i] = wr_data
    BY <1>5, <1>6
  <2> HIDE DEF next, rest
  <2>3. CASE push(wr_en, rd_en) /\ ~pop(rd_en)
    <3>1. Slot(i - 1)' = Slot(i - 1)
      BY <1>1, <2>3, ClockCases, SlotSame
    <3>2. i - 1 < level => Slot(i - 1) # wr_ptr
      BY <1>1, <1>2, <2>1, <2>3, ClockCases, SlotFacts
    <3>3. wr_ptr \in Addr /\ Slot(i - 1) \in Addr
      BY <1>1, <2>1, SlotFacts DEF TypeOK
    <3> QED  BY <1>1, <1>2, <2>1, <2>2, <2>3, <3>1, <3>2, <3>3, ClockCases
  <2>4. CASE ~push(wr_en, rd_en) /\ pop(rd_en)
    <3>1. Slot(i - 1)' = Slot(i)
      BY <1>1, <2>1, <2>4, ClockCases, SlotShift
    <3> QED  BY <1>1, <1>2, <2>1, <2>2, <2>4, <3>1, ClockCases
  <2>5. CASE push(wr_en, rd_en) /\ pop(rd_en)
    <3>1. Slot(i - 1)' = Slot(i)
      BY <1>1, <2>1, <2>5, ClockCases, SlotShift
    <3>2. i < level => Slot(i) # wr_ptr
      BY <1>1, <1>2, <2>1, SlotFacts
    <3>3. i <= level /\ wr_ptr \in Addr /\ Slot(i) \in Addr
      BY <1>1, <1>2, <2>1, <2>5, ClockCases, SlotFacts DEF TypeOK
    <3> QED  BY <1>1, <1>2, <2>1, <2>2, <2>5, <3>1, <3>2, <3>3, ClockCases
  <2>6. CASE ~push(wr_en, rd_en) /\ ~pop(rd_en)
    <3>1. Slot(i - 1)' = Slot(i - 1)
      BY <1>1, <2>6, ClockCases, SlotSame
    <3> QED  BY <1>1, <1>2, <2>1, <2>2, <2>6, <3>1, ClockCases
  <2> QED  BY <2>3, <2>4, <2>5, <2>6
<1>10. next \in Seq(Data) /\ Len(next) = level' /\ level' \in Nat
  BY <1>4, <1>6, <1>7
<1> HIDE DEF next, rest, n
<1>11. Contents' = next
  BY <1>8, <1>9, <1>10, SeqEqual
<1> QED  BY <1>11 DEF next, rest

(* An edge of the ring is an edge of the queue. *)
LEMMA ClockIsQueueClock ==
  ASSUME IInv, NEW wr_en \in BOOLEAN, NEW rd_en \in BOOLEAN, NEW wr_data \in Data,
         Clock(wr_en, wr_data, rd_en)
  PROVE  Queue!Clock(wr_en, wr_data, rd_en)
<1>1. /\ TypeOK /\ level \in 0..DEPTH /\ high_water \in 0..DEPTH /\ level <= high_water
      /\ DEPTH \in Nat
  BY DepthFacts DEF IInv, TypeOK, PointersAgree
<1>2. /\ (Contents # <<>>) = (level # 0)
      /\ Len(Contents) = level
      /\ level # 0 => /\ Len(Tail(Contents)) = level - 1
                      /\ Head(Contents) = memory[rd_ptr]
  BY EmptyContents, ContentsIsSeq, TailOfContents, HeadOfContents
<1>3. pop(rd_en) = (rd_en /\ Contents # <<>>)
  BY <1>2 DEF pop, empty
<1>4. Queue!Remaining(rd_en) = IF pop(rd_en) THEN Tail(Contents) ELSE Contents
  BY <1>3 DEF Queue!Remaining
<1>5. Queue!Accepted(wr_en, rd_en) = push(wr_en, rd_en)
  BY <1>1, <1>2, <1>3, <1>4 DEF Queue!Accepted, push, pop, full, empty
<1>6. Contents' = IF Queue!Accepted(wr_en, rd_en)
                  THEN Append(Queue!Remaining(rd_en), wr_data)
                  ELSE Queue!Remaining(rd_en)
  BY <1>4, <1>5, ClockContents
<1>7. Len(Contents') = level'
  <2>1. IInv'
    BY ClockIInv
  <2>2. (Len(Contents) = level)'
    BY <2>1, ContentsIsSeq, PTL
  <2> QED  BY <2>2
<1>8. high_water' = Queue!Larger(high_water, Len(Contents'))
  BY <1>1, <1>7, ClockCases DEF Queue!Larger
<1>9. /\ rd_valid' = (rd_en /\ Contents # <<>>)
      /\ rd_data' = IF rd_en /\ Contents # <<>> THEN Head(Contents) ELSE rd_data
  BY <1>2, <1>3 DEF Clock, RamPorts, pop, empty
<1>10. overflow' = (wr_en /\ ~Queue!Accepted(wr_en, rd_en))
  BY <1>5 DEF Clock
<1> QED  BY <1>6, <1>8, <1>9, <1>10 DEF Queue!Clock, Queue!ReadPort

LEMMA ResetIsQueueReset ==
  ASSUME IInv, Reset
  PROVE  Queue!Reset
<1>1. IInv'
  BY ResetIInv
<1>2. ((Contents # <<>>) = (level # 0))'
  BY <1>1, EmptyContents, PTL
<1>3. Contents' = <<>>
  BY <1>2 DEF Reset
<1> QED  BY <1>3 DEF Reset, Queue!Reset, Queue!Forget

LEMMA StepIsQueueStep == IInv /\ [Next]_vars => [Queue!Next]_Queue!vars
<1> SUFFICES ASSUME IInv, [Next]_vars  PROVE [Queue!Next]_Queue!vars
  OBVIOUS
<1>1. CASE \E wr_en, rd_en \in BOOLEAN, wr_data \in Data : Clock(wr_en, wr_data, rd_en)
  BY <1>1, ClockIsQueueClock DEF Queue!Next
<1>2. CASE Reset
  BY <1>2, ResetIsQueueReset DEF Queue!Next
<1>3. CASE UNCHANGED vars
  BY <1>3 DEF vars, Queue!vars, Contents, Slot
<1> QED  BY <1>1, <1>2, <1>3 DEF Next

(* For every depth the ring of separately kept pointers is the bounded     *)
(* queue: no byte is lost, reordered, repeated or resurrected by a reset,  *)
(* overflow tells exactly the refused writes, high_water the peak.         *)
THEOREM FifoImplementsQueue == Spec => ImplementsQueue
<1>1. Init => Queue!Init
  <2> SUFFICES ASSUME Init  PROVE Queue!Init
    OBVIOUS
  <2>1. Contents = <<>>
    BY InitIInv, EmptyContents DEF Init
  <2> QED  BY <2>1 DEF Init, Queue!Init
<1>2. Spec => []IInv
  BY InitIInv, NextIInv, PTL DEF Spec
<1> QED  BY <1>1, <1>2, StepIsQueueStep, PTL DEF Spec, ImplementsQueue, Queue!Spec
=============================================================================
