----------------------------- MODULE SerialBench -----------------------------
(***************************************************************************)
(* scripts/serial_bench.py: one full-duplex port.  Every transaction sends *)
(* the stimulus and reads as many bytes back, in one loop, so that neither *)
(* queue fills up; the time to send runs from the start, the time to       *)
(* answer from the last byte sent.  A guard time then looks for bytes that *)
(* should not be there.  "replay" is a run of one transaction.             *)
(***************************************************************************)
EXTENDS Capture

CONSTANTS
  TRIALS         \* transactions, each of Len(Reference) bytes

(* --trials must be positive; a replay is one transaction. *)
ASSUME TrialsAssumption == TRIALS \in Nat \ {0}

VARIABLES
  trial,         \* transactions completed
  sent, response, extra, \* of the transaction in progress
  invalid,       \* a reason against the run has been noted
  received       \* what the report compares

benchVars == <<trial, sent, response, extra, invalid, received>>

vars == <<lineVars, captureVars, benchVars>>

SIZE == Len(Reference)

Init ==
  /\ CaptureInit
  /\ trial = 0
  /\ sent = 0
  /\ response = <<>>
  /\ extra = <<>>
  /\ invalid = FALSE
  /\ received = <<>>

(* All transactions as one reference, stimulus * trials. *)
BenchReference == [i \in 1 .. TRIALS * SIZE |-> Reference[((i - 1) % SIZE) + 1]]

File == stored["received"]

unchangedByBench == <<mode, ports, error, played>>
-----------------------------------------------------------------------------
(* _reserve_files, after the arguments have been checked: both files or    *)
(* none.                                                                   *)
ReserveBench ==
  /\ pc = "idle"
  /\ \/ /\ stored' = [stored EXCEPT !["received"] = <<>>]
        /\ status' = "empty"
        /\ pc' = "bench_claim"
     \/ pc' = "ended" /\ UNCHANGED <<stored, status>>
  /\ UNCHANGED <<lineVars, benchVars, unchangedByBench, claimed, expired, taken, settings>>

(* _run claims a secure context before the port is opened. *)
ClaimBench ==
  /\ pc = "bench_claim"
  /\ \/ /\ claimed' = (mode = "aes-128-ctr")
        /\ pc' = "bench_open"
        /\ UNCHANGED <<status, settings>>
     \/ Fail /\ UNCHANGED claimed
  /\ UNCHANGED <<lineVars, benchVars, unchangedByBench, expired, taken, stored>>

(* os.open and _configure: the port is set up, both queues are flushed,    *)
(* READY is printed and the first transaction begins.  An error of the     *)
(* flush leaves the port as it was set up: its settings were not returned. *)
OpenBench ==
  /\ pc = "bench_open"
  /\ \/ /\ settings' = "ours"
        /\ line' = [line EXCEPT !["received"] = <<>>]
        /\ pc' = "transact"
        /\ UNCHANGED status
     \/ Fail /\ UNCHANGED line
     \/ settings' = "ours" /\ status' = "ERROR" /\ pc' = "ended" /\ UNCHANGED line
  /\ UNCHANGED <<inbox, answered, faults, benchVars, unchangedByBench, claimed, expired,
                 taken, stored>>

Incomplete == sent < SIZE \/ Len(response) < SIZE

(* What os.read returns: all that is there, up to what is missing. *)
ReadReply(n) ==
  /\ n = Least(Available("received"), SIZE - Len(response))
  /\ response' = response \o Chunk("received", n)
  /\ taken' = [taken EXCEPT !["received"] = @ + n]

(* One turn of the loop: select returns what can be read and whether       *)
(* something can be written, and both are done.  os.write takes some of    *)
(* the bytes or, raising BlockingIOError, none; with the last byte sent    *)
(* the time to answer begins.                                              *)
Exchange ==
  /\ pc = "transact" /\ Incomplete /\ ~expired
  /\ \E n \in 0 .. Available("received"), m \in 0 .. SIZE - sent :
       /\ n + m > 0
       /\ ReadReply(n)
       /\ sent' = sent + m
       /\ inbox' = inbox \o SubSeq(Reference, sent + 1, sent')
  /\ UNCHANGED <<answered, line, faults, unchangedByBench, pc, claimed, expired, stored,
                 status, settings, trial, extra, invalid, received>>

(* Mutant: only the response is compared. *)
EndTransactionNarrow(timed_out) ==
  /\ stored' = [stored EXCEPT !["received"] = @ \o response \o extra]
  /\ received' = received \o response
  /\ invalid' = (invalid \/ timed_out)
  /\ trial' = trial + 1
  /\ sent' = 0 /\ response' = <<>> /\ extra' = <<>>
  /\ expired' = FALSE
  /\ pc' = IF timed_out \/ trial' = TRIALS THEN "judge" ELSE "transact"

(* The transaction is over: its bytes, then those of the guard time, go to *)
(* the file and to what will be compared, and the record is judged; a      *)
(* timeout ends the run, missing or extra bytes make it invalid.           *)
EndTransaction(timed_out) ==
  /\ stored' = [stored EXCEPT !["received"] = @ \o response \o extra]
  /\ received' = received \o response \o extra
  /\ invalid' = (invalid \/ timed_out \/ Len(response) < SIZE \/ extra # <<>>)
  /\ trial' = trial + 1
  /\ sent' = 0 /\ response' = <<>> /\ extra' = <<>>
  /\ expired' = FALSE
  /\ pc' = IF timed_out \/ trial' = TRIALS THEN "judge" ELSE "transact"

(* The loop finds its deadline passed, even if the answer has come, or a   *)
(* read finds the input closed.                                            *)
GiveUp ==
  /\ pc = "transact" /\ Incomplete
  /\ expired \/ Len(response) < SIZE
  /\ EndTransaction(TRUE)
  /\ UNCHANGED <<lineVars, unchangedByBench, claimed, taken, status, settings>>

(* Complete: on to the guard time, if there is one. *)
BeginGuard ==
  /\ pc = "transact" /\ ~Incomplete
  /\ \/ /\ pc' = "guard"
        /\ expired' = FALSE
        /\ UNCHANGED <<stored, benchVars>>
     \/ EndTransaction(FALSE)
  /\ UNCHANGED <<lineVars, unchangedByBench, claimed, taken, status, settings>>

(* Mutant: bytes of the guard time are only looked at. *)
GuardReadDropped ==
  /\ pc = "guard" /\ ~expired
  /\ Available("received") > 0
  /\ taken' = [taken EXCEPT !["received"] = Len(line["received"])]
  /\ UNCHANGED <<lineVars, unchangedByBench, pc, claimed, expired, stored, status,
                 settings, benchVars>>

GuardRead ==
  /\ pc = "guard" /\ ~expired
  /\ Available("received") > 0
  /\ extra' = extra \o Chunk("received", Available("received"))
  /\ taken' = [taken EXCEPT !["received"] = Len(line["received"])]
  /\ UNCHANGED <<lineVars, unchangedByBench, pc, claimed, expired, stored, status,
                 settings, trial, sent, response, invalid, received>>

(* The guard time has passed, or the input has closed. *)
EndGuard ==
  /\ pc = "guard"
  /\ EndTransaction(FALSE)
  /\ UNCHANGED <<lineVars, unchangedByBench, claimed, taken, status, settings>>

(* A system call of the transaction fails, perhaps the write to the file   *)
(* halfway: nothing of it is compared, and the run ends.                   *)
BreakOff ==
  /\ pc \in {"transact", "guard"}
  /\ \E k \in 0 .. Len(response \o extra) :
       stored' = [stored EXCEPT !["received"] = @ \o SubSeq(response \o extra, 1, k)]
  /\ invalid' = TRUE
  /\ pc' = "judge"
  /\ UNCHANGED <<lineVars, unchangedByBench, claimed, expired, taken, status, settings,
                 trial, sent, response, extra, received>>

(* The port is restored and closed, and the report compares everything     *)
(* received with everything that was to be sent.                           *)
Judge ==
  /\ pc = "judge"
  /\ settings' = "found"
  /\ status' = Verdict(compare(BenchReference, received, TRIALS * SIZE, invalid))
  /\ pc' = "ended"
  /\ UNCHANGED <<lineVars, unchangedByBench, benchVars, claimed, expired, taken, stored>>

BenchExpire ==
  /\ pc \in {"transact", "guard"} /\ ~expired
  /\ expired' = TRUE
  /\ UNCHANGED <<lineVars, unchangedByBench, benchVars, pc, claimed, taken, stored,
                 status, settings>>

BenchStep ==
  ClaimBench \/ OpenBench \/ Exchange \/ GiveUp \/ BeginGuard \/ GuardRead
    \/ EndGuard \/ BreakOff \/ Judge

Next ==
  \/ CaptureNext /\ UNCHANGED benchVars
  \/ ReserveBench \/ BenchStep \/ BenchExpire

(* Time passes, and the process runs; neither the line, the board nor the  *)
(* source owes anyone anything.                                            *)
Spec ==
  /\ Init /\ [][Next]_vars
  /\ WF_vars(CaptureStep /\ UNCHANGED benchVars)
  /\ WF_vars(Expire /\ UNCHANGED benchVars)
  /\ WF_vars(BenchStep)
  /\ WF_vars(BenchExpire)
-----------------------------------------------------------------------------
(* A PASS of either tool: the context was claimed if it had to be, the     *)
(* file holds all that was taken from the port and nothing else, and each  *)
(* of its bytes is the answer of the board to the byte at its place.       *)
PassMeansEveryByteAnswered ==
  status = "PASS" =>
    /\ claimed = (mode = "aes-128-ctr")
    /\ taken["received"] = Len(File)
    /\ File = [i \in DOMAIN File |->
                 <<IF ports = {} THEN BenchReference[i] ELSE Reference[i], i>>]

(* What the report compares is what the file holds, byte for byte, or its  *)
(* beginning when the run broke off, which no PASS survives.               *)
ReportSpeaksOfTheFile ==
  pc = "ended" /\ status \in {"PASS", "FAIL"} /\ ports = {} =>
    /\ StartsWith(File, received)
    /\ File # received => status = "FAIL"

(* Every command ends, however the line behaves: no deadline is pushed     *)
(* back for ever.                                                          *)
EveryToolEnds == (pc # "idle") ~> (pc \in {"recorded", "ended"})
=============================================================================
