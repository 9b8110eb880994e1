---------------------------- MODULE BoundedQueue ----------------------------
(***************************************************************************)
(* What sync_fifo promises to the blocks around it: a first-in first-out   *)
(* queue of at most DEPTH bytes with a registered read port.  The ring of  *)
(* slots, the pointers and the occupancy counter of the RTL do not appear  *)
(* here; SyncFifo implements this specification.                           *)
(*                                                                         *)
(* One step is one rising edge of clk with the inputs sampled there, or    *)
(* the asynchronous assertion of rst.                                      *)
(***************************************************************************)
EXTENDS Naturals, Sequences

CONSTANTS
  DEPTH,    \* capacity
  Data,     \* the values a byte can take
  NoData    \* contents of a RAM word or output never written since power-up

VARIABLES
  queue,       \* bytes stored, oldest first
  high_water,  \* largest occupancy since the last reset
  rd_valid,    \* a read was answered at the last edge
  rd_data,     \* the last byte read
  overflow     \* a write was rejected at the last edge

vars == <<queue, high_water, rd_valid, rd_data, overflow>>

Larger(a, b) == IF a < b THEN b ELSE a

Init ==
  /\ queue = <<>>
  /\ high_water = 0
  /\ rd_valid = FALSE
  /\ rd_data = NoData
  /\ overflow = FALSE

(* What the reader leaves behind: a read of an empty queue takes nothing. *)
Remaining(rd_en) == IF rd_en /\ queue # <<>> THEN Tail(queue) ELSE queue

(* A write is accepted when a slot is free once the read has been served. *)
Accepted(wr_en, rd_en) == wr_en /\ Len(Remaining(rd_en)) < DEPTH

(* The read port: it has an enable and no reset. *)
ReadPort(rd_en) ==
  rd_data' = IF rd_en /\ queue # <<>> THEN Head(queue) ELSE rd_data

Clock(wr_en, wr_data, rd_en) ==
  /\ queue' = IF Accepted(wr_en, rd_en)
              THEN Append(Remaining(rd_en), wr_data)
              ELSE Remaining(rd_en)
  /\ high_water' = Larger(high_water, Len(queue'))
  /\ rd_valid' = (rd_en /\ queue # <<>>)
  /\ ReadPort(rd_en)
  /\ overflow' = (wr_en /\ ~Accepted(wr_en, rd_en))

Forget ==
  /\ queue' = <<>>
  /\ high_water' = 0
  /\ rd_valid' = FALSE
  /\ overflow' = FALSE

(* Reset forgets the contents; the read register keeps its byte. *)
Reset == Forget /\ UNCHANGED rd_data

Next ==
  \/ \E wr_en, rd_en \in BOOLEAN, wr_data \in Data : Clock(wr_en, wr_data, rd_en)
  \/ Reset

Spec == Init /\ [][Next]_vars
=============================================================================
