------------------------------ MODULE SyncFifo ------------------------------
(***************************************************************************)
(* rtl/common/sync_fifo.sv: the single-clock FIFO of both bridges, a RAM   *)
(* of DEPTH words with a write pointer, a read pointer and an occupancy    *)
(* counter that are kept separately and must agree.                        *)
(*                                                                         *)
(* A step is a rising edge of clk with rst low, its inputs sampled at the  *)
(* edge, or the asynchronous assertion of rst.  Edges with rst high change *)
(* nothing (push and pop are masked by !rst), so they are stuttering       *)
(* steps.  Neither the RAM nor rd_data has a reset: after Reset the old    *)
(* bytes are still in memory and must never be delivered.                  *)
(***************************************************************************)
EXTENDS Naturals, Sequences

CONSTANTS
  DEPTH,    \* number of RAM words
  Data,     \* the values a byte can take
  NoData    \* a RAM word or output register never written since power-up

(* The RTL stops elaboration unless DEPTH is a power of two, at least 2:   *)
(* the pointers wrap because their width is $clog2(DEPTH).                 *)
ASSUME DepthAssumption ==
  /\ DEPTH \in Nat
  /\ DEPTH >= 2
  /\ \E k \in 1..DEPTH : DEPTH = 2^k
  /\ NoData \notin Data

VARIABLES
  memory, rd_data,             \* the RAM block and its registered output
  wr_ptr, rd_ptr,              \* addresses of the next write and read
  level, high_water,           \* occupancy now, and its peak since reset
  rd_valid, overflow           \* one-cycle answers to rd_en and wr_en

vars == <<memory, rd_data, wr_ptr, rd_ptr, level, high_water, rd_valid, overflow>>

Addr == 0 .. DEPTH - 1

empty == level = 0
full  == level = DEPTH

pop(rd_en)         == rd_en /\ ~empty
push(wr_en, rd_en) == wr_en /\ (~full \/ pop(rd_en))

(* A pointer of $clog2(DEPTH) bits plus one. *)
Succ(ptr) == IF ptr = DEPTH - 1 THEN 0 ELSE ptr + 1

Init ==
  /\ memory = [a \in Addr |-> NoData]
  /\ rd_data = NoData
  /\ wr_ptr = 0
  /\ rd_ptr = 0
  /\ level = 0
  /\ high_water = 0
  /\ rd_valid = FALSE
  /\ overflow = FALSE

(* Mutant: a RAM that reads the word written at the same edge. *)
RamPortsWriteFirst(wr_en, wr_data, rd_en) ==
  /\ memory' = IF push(wr_en, rd_en) THEN [memory EXCEPT ![wr_ptr] = wr_data]
                                     ELSE memory
  /\ rd_data' = IF pop(rd_en) THEN memory'[rd_ptr] ELSE rd_data

(* The unreset RAM ports: both sides use the values before the edge, so a *)
(* read that collides with a write returns the old word.                  *)
RamPorts(wr_en, wr_data, rd_en) ==
  /\ memory' = IF push(wr_en, rd_en) THEN [memory EXCEPT ![wr_ptr] = wr_data]
                                     ELSE memory
  /\ rd_data' = IF pop(rd_en) THEN memory[rd_ptr] ELSE rd_data

Pointers(wr_en, rd_en) ==
  /\ wr_ptr' = IF push(wr_en, rd_en) THEN Succ(wr_ptr) ELSE wr_ptr
  /\ rd_ptr' = IF pop(rd_en) THEN Succ(rd_ptr) ELSE rd_ptr

Occupancy(wr_en, rd_en) ==
  \/ /\ push(wr_en, rd_en) /\ ~pop(rd_en)
     /\ level' = level + 1
     /\ high_water' = IF level = high_water THEN level + 1 ELSE high_water
  \/ /\ ~push(wr_en, rd_en) /\ pop(rd_en)
     /\ level' = level - 1
     /\ UNCHANGED high_water
  \/ /\ push(wr_en, rd_en) = pop(rd_en)
     /\ UNCHANGED <<level, high_water>>

Clock(wr_en, wr_data, rd_en) ==
  /\ RamPorts(wr_en, wr_data, rd_en)
  /\ Pointers(wr_en, rd_en)
  /\ Occupancy(wr_en, rd_en)
  /\ rd_valid' = pop(rd_en)
  /\ overflow' = (wr_en /\ ~push(wr_en, rd_en))

(* Mutant: a reset that leaves the read pointer where it is. *)
ResetKeepsReadPointer ==
  /\ wr_ptr' = 0
  /\ level' = 0
  /\ high_water' = 0
  /\ rd_valid' = FALSE
  /\ overflow' = FALSE
  /\ UNCHANGED <<memory, rd_data, rd_ptr>>

Reset ==
  /\ wr_ptr' = 0
  /\ rd_ptr' = 0
  /\ level' = 0
  /\ high_water' = 0
  /\ rd_valid' = FALSE
  /\ overflow' = FALSE
  /\ UNCHANGED <<memory, rd_data>>

Next ==
  \/ \E wr_en, rd_en \in BOOLEAN, wr_data \in Data : Clock(wr_en, wr_data, rd_en)
  \/ Reset

Spec == Init /\ [][Next]_vars
-----------------------------------------------------------------------------
(* The registers stay within their declared widths; the read register     *)
(* holds a byte whenever rd_valid says so.                                *)
TypeOK ==
  /\ memory \in [Addr -> Data \cup {NoData}]
  /\ rd_data \in Data \cup {NoData}
  /\ wr_ptr \in Addr
  /\ rd_ptr \in Addr
  /\ level \in 0..DEPTH
  /\ high_water \in 0..DEPTH
  /\ rd_valid \in BOOLEAN
  /\ overflow \in BOOLEAN

(* The address i words after the read pointer. *)
Slot(i) == IF rd_ptr + i < DEPTH THEN rd_ptr + i ELSE rd_ptr + i - DEPTH

(* The bytes the ring holds, oldest first. *)
Contents == [i \in 1..level |-> memory[Slot(i - 1)]]

(* The three separately kept registers agree: the write pointer is level   *)
(* words after the read pointer, whatever mix of reads, writes and refused *)
(* requests led here; and the peak is never below the present level, on    *)
(* which the equality test that updates high_water relies.                 *)
PointersAgree ==
  /\ wr_ptr = Slot(level)
  /\ level <= high_water

(* Every word between the pointers was written since power-up, so a read   *)
(* never returns an uninitialised word.                                    *)
ContentsWritten == \A i \in 0..DEPTH - 1 : i < level => memory[Slot(i)] \in Data

(* The ring implements the bounded queue: no byte is lost, duplicated,     *)
(* reordered or resurrected by a reset, a read at full makes room for the  *)
(* write of the same edge, overflow reports exactly the rejected writes    *)
(* and high_water is the peak occupancy.                                   *)
Queue == INSTANCE BoundedQueue WITH queue <- Contents

ImplementsQueue == Queue!Spec
=============================================================================
