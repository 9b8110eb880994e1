------------------------------- MODULE Capture -------------------------------
(***************************************************************************)
(* scripts/capture.py: record one serial port or two at once into new      *)
(* files, and compare what was recorded.  "record" reads the received      *)
(* port, "record-pair" both; the source plays its bytes to the board and   *)
(* to the reference port, but not before READY.                            *)
(*                                                                         *)
(* A step is a system call that waits or may fail.  The deadline is fixed  *)
(* when READY is given and passes at some moment.                          *)
(***************************************************************************)
EXTENDS SerialLine

CONSTANTS
  COUNT          \* bytes to record, context["bytes"]

ASSUME CountAssumption == COUNT \in Nat /\ None \notin {"PASS", "FAIL"}

VARIABLES
  pc,
  mode,          \* the context's mode
  ports,         \* the ports being recorded
  claimed,       \* the context has been claimed
  expired,       \* the deadline in force has passed
  taken,         \* bytes read from each port since its flush
  stored,        \* what the output file of each port holds
  error,         \* why a recording stopped short
  status,        \* what the report file says
  played,        \* how much the source has played
  settings       \* "ours" while the ports are not as they were found

captureVars == <<pc, mode, ports, claimed, expired, taken, stored, error, status,
                 played, settings>>

CaptureInit ==
  /\ LineInit
  /\ pc = "idle"
  /\ mode \in {"baseline", "aes-128-ctr"}
  /\ ports = {}
  /\ claimed = FALSE
  /\ expired = FALSE
  /\ taken = [q \in Port |-> 0]
  /\ stored = [q \in Port |-> None]
  /\ error = None
  /\ status = None
  /\ played = 0
  /\ settings = "found"
-----------------------------------------------------------------------------
(* compare: the received bytes are deciphered, each with the keystream     *)
(* byte of its place, and must be the reference, all of it.                *)
Values(bytes) == [i \in DOMAIN bytes |-> bytes[i][1]]

Recovered(bytes) ==
  [i \in DOMAIN bytes |->
     IF mode = "baseline" \/ bytes[i][2] = i THEN bytes[i][1] ELSE None]

compare(reference, received, count, invalid) ==
  /\ Len(reference) = count
  /\ Len(received) = count
  /\ Recovered(received) = reference
  /\ ~invalid

Verdict(passed) == IF passed THEN "PASS" ELSE "FAIL"
-----------------------------------------------------------------------------
Available(q) == Len(line[q]) - taken[q]

Pending == {q \in ports : taken[q] < COUNT}

(* Bytes taken+1 .. taken+n of a port. *)
Chunk(q, n) == SubSeq(line[q], taken[q] + 1, taken[q] + n)

Least(a, b) == IF a < b THEN a ELSE b

(* The command ends with an error.  Its with and finally blocks restore    *)
(* the ports, which is taken to succeed, and keep what the files have.     *)
Fail ==
  /\ status' = "ERROR"
  /\ settings' = "found"
  /\ pc' = "ended"

(* Control-C is no Exception: no report is written. *)
Interrupt ==
  /\ pc \notin {"idle", "recorded", "ended"}
  /\ settings' = "found"
  /\ pc' = "ended"
  /\ UNCHANGED <<lineVars, mode, ports, claimed, expired, taken, stored, error,
                 status, played>>

(* The report, then the output files, are created exclusively, before any  *)
(* port is touched.  Of a pair the first may be left behind, empty.        *)
ReserveCapture ==
  /\ pc = "idle"
  /\ ports' \in {{"received"}, Port}
  /\ \/ /\ stored' = [q \in Port |-> IF q \in ports' THEN <<>> ELSE None]
        /\ status' = "empty"
        /\ pc' = "arm"
        /\ UNCHANGED settings
     \/ pc' = "ended" /\ UNCHANGED <<stored, status, settings>>
     \/ Fail /\ UNCHANGED stored
     \/ Fail /\ ports' = Port /\ stored' = [stored EXCEPT !["reference"] = <<>>]
  /\ UNCHANGED <<lineVars, mode, claimed, expired, taken, error, played>>

(* Mutant: the input that waits at the reference port is kept. *)
ArmOneFlushed ==
  /\ pc = "arm"
  /\ \/ /\ settings' = "ours"
        /\ line' = [line EXCEPT !["received"] = <<>>]
        /\ pc' = "claim"
        /\ UNCHANGED status
     \/ Fail /\ UNCHANGED line
  /\ UNCHANGED <<inbox, answered, faults, mode, ports, claimed, expired, taken,
                 stored, error, played>>

(* Every port is opened, set up and flushed before anything else happens.  *)
Arm ==
  /\ pc = "arm"
  /\ \/ /\ settings' = "ours"
        /\ line' = [q \in Port |-> IF q \in ports THEN <<>> ELSE line[q]]
        /\ pc' = "claim"
        /\ UNCHANGED status
     \/ Fail /\ UNCHANGED line
  /\ UNCHANGED <<inbox, answered, faults, mode, ports, claimed, expired, taken,
                 stored, error, played>>

(* before_ready of record-pair claims a secure context; "record" has none. *)
(* Then READY, and the time begins to run.                                 *)
Ready ==
  /\ pc = "claim"
  /\ \/ /\ claimed' = (ports = Port /\ mode = "aes-128-ctr")
        /\ pc' = "loop"
        /\ UNCHANGED <<status, settings>>
     \/ ports = Port /\ Fail /\ UNCHANGED claimed
  /\ UNCHANGED <<lineVars, mode, ports, expired, taken, stored, error, played>>

(* What a read of port q returns: what is there, up to what is missing. *)
Readable(q) ==
  IF q \in Pending THEN Least(Available(q), COUNT - taken[q]) ELSE 0

(* One turn of the loop reads the ports in order.  One that finds its      *)
(* input closed ends the recording after those before it; one that fails   *)
(* ends the command.                                                       *)
ReadPorts ==
  /\ pc = "loop" /\ ~expired
  /\ \E read \in {Pending, Pending \ {"received"}, {}} :
       /\ taken' = [q \in Port |-> IF q \in read THEN taken[q] + Readable(q) ELSE taken[q]]
       /\ stored' = [q \in Port |->
                       IF q \in read THEN stored[q] \o Chunk(q, Readable(q)) ELSE stored[q]]
       /\ \/ taken' # taken /\ read = Pending /\ UNCHANGED <<pc, error, status, settings>>
          \/ /\ read # Pending
             /\ error' = "closed"
             /\ pc' = "store"
             /\ UNCHANGED <<status, settings>>
          \/ read # Pending /\ Fail /\ UNCHANGED error
  /\ UNCHANGED <<lineVars, mode, ports, claimed, expired, played>>

(* Mutant: the deadline bounds one wait, not the recording. *)
LeaveLoopPatient ==
  /\ pc = "loop"
  /\ \/ Pending = {} /\ UNCHANGED error
     \/ Pending # {} /\ expired /\ error' = "timeout" /\ \A q \in ports : taken[q] = 0
  /\ pc' = "store"
  /\ UNCHANGED <<lineVars, mode, ports, claimed, expired, taken, stored, status,
                 played, settings>>

(* The loop ends when nothing is pending, else when the time is up. *)
LeaveLoop ==
  /\ pc = "loop"
  /\ \/ Pending = {} /\ UNCHANGED error
     \/ Pending # {} /\ expired /\ error' = "timeout"
  /\ pc' = "store"
  /\ UNCHANGED <<lineVars, mode, ports, claimed, expired, taken, stored, status,
                 played, settings>>

(* Flush and sync, then restore the ports and write the report. *)
Store ==
  /\ pc = "store"
  /\ \/ /\ status' = IF \A q \in ports : taken[q] = COUNT THEN "CAPTURED" ELSE "INCOMPLETE"
        /\ settings' = "found"
        /\ pc' = "recorded"
     \/ Fail
  /\ UNCHANGED <<lineVars, mode, ports, claimed, expired, taken, stored, error, played>>

(* The compare command on the two files of a pair.  The operator may add   *)
(* reasons against the run.                                                *)
Compare ==
  /\ pc = "recorded" /\ ports = Port
  /\ \E invalid \in BOOLEAN :
       status' = Verdict(compare([i \in DOMAIN stored["reference"] |->
                                    stored["reference"][i][1]],
                                 stored["received"], COUNT, invalid))
  /\ pc' = "ended"
  /\ UNCHANGED <<lineVars, mode, ports, claimed, expired, taken, stored, error,
                 played, settings>>

(* The source is released by READY: each byte appears at the reference     *)
(* port and enters the board.  It does not wait for the recorder.          *)
Play ==
  /\ pc \in {"loop", "store"} /\ ports # {}
  /\ played < Len(Reference)
  /\ played' = played + 1
  /\ inbox' = Append(inbox, Reference[played'])
  /\ line' = [line EXCEPT !["reference"] = Append(@, <<Reference[played'], 0>>)]
  /\ UNCHANGED <<answered, faults, pc, mode, ports, claimed, expired, taken,
                 stored, error, status, settings>>

Expire ==
  /\ pc = "loop" /\ ~expired
  /\ expired' = TRUE
  /\ UNCHANGED <<lineVars, pc, mode, ports, claimed, taken, stored, error, status,
                 played, settings>>

CaptureStep == Arm \/ Ready \/ ReadPorts \/ LeaveLoop \/ Store

CaptureNext ==
  \/ ReserveCapture \/ CaptureStep \/ Compare \/ Interrupt \/ Play \/ Expire
  \/ LineNext /\ UNCHANGED captureVars
-----------------------------------------------------------------------------
StartsWith(s, t) == Len(t) <= Len(s) /\ SubSeq(s, 1, Len(t)) = t

(* Whatever happens while a port is recorded, its file holds the beginning *)
(* of what arrived there after the flush, in order, with no byte left out, *)
(* doubled or taken from before, and never more than was asked for.        *)
FileIsWhatArrived ==
  \A q \in ports :
    stored[q] # None =>
      /\ StartsWith(line[q], stored[q])
      /\ \A i \in DOMAIN stored[q] : stored[q][i] # Stale
      /\ Len(stored[q]) <= COUNT

=============================================================================
