---------------------------- MODULE DigitalRecord ----------------------------
(***************************************************************************)
(* record() of scripts/ad2_live_capture.py: one acquisition.  A thread     *)
(* drains the logic analyser into a bounded queue; the main loop writes    *)
(* the chunks to samples.bin, waits for common idle, decodes both lines    *)
(* and collects what the serial adapter hears of the output line.          *)
(*                                                                         *)
(* The samples the analyser will deliver are fixed as it is armed, so a    *)
(* chunk is named by the positions it covers; how much a poll returns, and *)
(* when each side runs, is open.  A byte of the output line stands for the *)
(* byte that was enciphered, under the context that is on the board.       *)
(***************************************************************************)
EXTENDS BuildManifest, UartDecoder

CONSTANTS
  Registered,    \* the contexts the registry knows, as they were created
  Streams,       \* records: samples, pairs of levels; cp2102, bytes heard;
                 \* board, the context on the board if it is another one
  WARMUP, IDLE,  \* samples of 20 ms and of 250 ms
  COUNT,         \* context["bytes"]
  QUEUE,         \* chunks the queue holds
  CHUNKS         \* how many samples a poll may return

Line == {"reference", "cipher"}

ASSUME RecordAssumption ==
  /\ \A c, d \in Registered : c.id = d.id => c = d
  /\ None \notin {"failed", "CAPTURED"}

ASSUME ChunksAssumption == CHUNKS \subseteq Nat

(* Both durations are rounded up to whole samples, and a bit is a level.   *)
ASSUME SamplesAssumption ==
  /\ WARMUP \in Nat \ {0} /\ IDLE \in Nat \ {0}
  /\ \A s \in Streams : s.samples \in Seq({0, 1} \X {0, 1})

VARIABLES
  rstep,         \* of the main thread
  used,          \* the context record() loaded
  report,        \* what the report has before the hardware is touched
  consumed,      \* contexts whose capture has started, in the registry
  board,         \* the context of the bitstream that is running
  stream,        \* what there is to be sampled and heard
  reader,        \* where the reader thread is
  stop, rerror, lost,       \* its event, its error and its loss counters
  read, queue,   \* samples it has read, and the chunks not taken yet
  raw,           \* positions of the samples in samples.bin
  preflight, ready, decoders, serial, heard,
  device,        \* "open" while the program holds the analyser
  invalid,       \* invalid_reasons is not empty
  rstatus,       \* report["status"]
  capture        \* the files of the output directory

recordVars ==
  <<rstep, used, report, consumed, board, stream, reader, stop, rerror, lost, read,
    queue, raw, preflight, ready, decoders, serial, heard, device, invalid,
    rstatus, capture>>

File == {"samples", "reference", "cipher", "cp2102", "acquisition", "comparison",
         "recovered"}

RecordInit ==
  /\ rstep = "new"
  /\ used = None
  /\ report = None
  /\ consumed = {}
  /\ board = None
  /\ stream = None
  /\ reader = "none"
  /\ stop = FALSE /\ rerror = None /\ lost = FALSE
  /\ read = 0 /\ queue = <<>> /\ raw = <<>>
  /\ preflight = None
  /\ ready = FALSE
  /\ decoders = None
  /\ serial = <<>> /\ heard = 0
  /\ device = "closed"
  /\ invalid = FALSE
  /\ rstatus = None
  /\ capture = [f \in File |-> None]

(* A file of the capture, and whether it has been edited since. *)
Written(data) == [data |-> data, version |-> 0]

thread == <<reader, rerror, lost, read>>
gathered == <<raw, preflight, ready, decoders, serial, heard>>
-----------------------------------------------------------------------------
(* Mutant: the digest alone binds the build to the context. *)
BoundDigest ==
  /\ verify(TRUE)
  /\ binding \notin {None, Torn}
  /\ binding.digest = context
  /\ manifest.design = design(used)

(* The build verifies, and its binding names the context file as it is now *)
(* and the identity that was loaded.                                       *)
Bound ==
  /\ verify(TRUE)
  /\ binding \notin {None, Torn}
  /\ binding.digest = context
  /\ binding.id = used.id
  /\ manifest.design = design(used)

Refuse == rstep' = "refused"

Load ==
  /\ rstep = "new"
  /\ used' = context
  /\ rstep' = "check"
  /\ UNCHANGED <<buildVars, report, consumed, board, stream, thread, stop, queue,
                 gathered, device, invalid, rstatus, capture>>

(* verify reads no context file, so an edit between the two is one before  *)
(* or after both.                                                          *)
Check ==
  /\ rstep = "check"
  /\ \/ Bound /\ rstep' = "report"
     \/ Refuse
  /\ UNCHANGED <<buildVars, used, report, consumed, board, stream, thread, stop, queue,
                 gathered, device, invalid, rstatus, capture>>

(* The directory, which must be new, and the report, which digests the     *)
(* context file once more: what it holds by now.  It also gets the digest  *)
(* of the bitstream in the manifest, which no command checks later.        *)
Report ==
  /\ rstep = "report"
  /\ \/ /\ report' = [digest |-> context, id |-> used.id, claim |-> None]
        /\ rstatus' = "RUNNING"
        /\ rstep' = "claim"
     \/ Refuse /\ UNCHANGED <<report, rstatus>>
  /\ UNCHANGED <<buildVars, used, consumed, board, stream, thread, stop, queue,
                 gathered, device, invalid, capture>>

(* What claim_capture returns of the context it was called with. *)
ClaimOf(c) == [id |-> c.id, mode |-> c.mode]

(* claim_capture of the context that was loaded, before anything can be    *)
(* acquired.  A secure one has to be in the registry as it is here, and    *)
(* unclaimed.                                                              *)
Claim ==
  /\ rstep = "claim"
  /\ \/ /\ design(used) = "secure" => used \in Registered \ consumed
        /\ consumed' = IF design(used) = "secure" THEN consumed \cup {used} ELSE consumed
        /\ report' = [report EXCEPT !.claim = ClaimOf(used)]
        /\ rstep' = "arm"
     \/ Refuse /\ UNCHANGED <<consumed, report>>
  /\ UNCHANGED <<buildVars, used, board, stream, thread, stop, queue,
                 gathered, device, invalid, rstatus, capture>>

(* A call of the vendor's library fails, or the analyser does not do what  *)
(* was asked of it: a buffer or a divider that is not the one set.  It may *)
(* be open already.                                                        *)
SetupFails ==
  /\ device' \in {"open", "closed"}
  /\ invalid' = TRUE
  /\ rstatus' = "FAIL"
  /\ rstep' = "finalize"
  /\ UNCHANGED <<reader, decoders, preflight>>

(* samples.bin, the serial port, the analyser: all are set up and the      *)
(* reader starts, or one fails.  The operator has put this bitstream on    *)
(* the board, or another by mistake.  Nothing reads the sources and the    *)
(* build any more: they are forgotten, and so is how the build ended and   *)
(* what was edited before.                                                 *)
Arm ==
  /\ rstep = "arm"
  /\ stream' \in Streams
  /\ board' = IF stream'.board = None THEN manifest.artifacts["sof"].from[2] ELSE stream'.board
  /\ \/ /\ device' = "open"
        /\ reader' = "start"
        /\ decoders' = [l \in Line |-> Decoder(WARMUP)]
        /\ preflight' = [warmup_seen |-> 0, idle_seen |-> 0, decoders |->
                          [l \in Line |-> Decoder(0)], active |-> FALSE]
        /\ rstep' = "loop"
        /\ UNCHANGED <<invalid, rstatus>>
     \/ SetupFails
  /\ source' = 0 /\ loaded' = None /\ params' = None
  /\ manifest' = None /\ binding' = None /\ made' = [n \in Artifact |-> None]
  /\ step' = "done" /\ edits' = 0
  /\ UNCHANGED <<context, used, report, consumed, stop, rerror, lost, read, queue, raw,
                 ready, serial, heard, capture>>
-----------------------------------------------------------------------------
(* The reader thread. *)
readerElse == <<buildVars, rstep, used, report, consumed, board, stream, stop, gathered,
                device, invalid, rstatus, capture>>

(* An exception ends its loop. *)
Raise == rerror' = "failed" /\ reader' = "stopping"

StartRecord ==
  /\ reader = "start"
  /\ \/ reader' = "poll" /\ UNCHANGED rerror
     \/ Raise
  /\ UNCHANGED <<readerElse, lost, read, queue>>

Positions(from, n) == [i \in 1 .. n |-> from + i]

(* Mutant: a chunk that finds the queue full is dropped. *)
PutDropped(chunk) ==
  /\ queue' = IF Len(queue) < QUEUE THEN Append(queue, chunk) ELSE queue
  /\ UNCHANGED <<reader, rerror>>

(* put_nowait. *)
Put(chunk) ==
  IF Len(queue) < QUEUE
  THEN queue' = Append(queue, chunk) /\ UNCHANGED <<reader, rerror>>
  ELSE Raise /\ UNCHANGED queue

(* The analyser reports samples lost or corrupt. *)
Lose ==
  /\ lost' = TRUE
  /\ Raise
  /\ UNCHANGED <<read, queue>>

(* One turn of the loop: a call fails, samples were lost or corrupted, or  *)
(* the samples that are there are read and queued.  With none it waits,    *)
(* which is no step.                                                       *)
Poll ==
  /\ reader = "poll" /\ ~stop
  /\ \/ Raise /\ UNCHANGED <<lost, read, queue>>
     \/ device = "open" /\ Lose
     \/ /\ device = "open"
        /\ \E n \in CHUNKS :
             /\ read + n <= Len(stream.samples)
             /\ read' = read + n
             /\ Put(Positions(read, n))
        /\ UNCHANGED lost
  /\ UNCHANGED readerElse

SeeStop ==
  /\ reader = "poll" /\ stop
  /\ reader' = "stopping"
  /\ UNCHANGED <<readerElse, rerror, lost, read, queue>>

(* The record is stopped in any case.  An error of that is reported unless *)
(* there was one before.                                                   *)
StopRecord ==
  /\ reader = "stopping"
  /\ reader' = "finished"
  /\ rerror' \in {rerror, "failed"}
  /\ UNCHANGED <<readerElse, lost, read, queue>>

ReaderStep == StartRecord \/ Poll \/ SeeStop \/ StopRecord
-----------------------------------------------------------------------------
(* The main loop. *)
Levels(chunk, l) ==
  [i \in DOMAIN chunk |-> stream.samples[chunk[i]][IF l = "reference" THEN 1 ELSE 2]]

CommonIdle(chunk) == \A i \in DOMAIN chunk : stream.samples[chunk[i]] = <<1, 1>>

AnyActivity(d) ==
  d.data # <<>> \/ d.start # None \/ d.framing_errors > 0 \/ d.false_starts > 0

(* preflight.feed: what falls into the warm-up is decoded for itself and   *)
(* must hold no trace of a frame; the rest has to be idle.                 *)
WarmupPart(chunk) == SubSeq(chunk, 1, Min({Len(chunk), WARMUP - preflight.warmup_seen}))
IdlePart(chunk) ==
  SubSeq(chunk, Min({Len(chunk), WARMUP - preflight.warmup_seen}) + 1, Len(chunk))

Fed(chunk) ==
  LET warmup == WarmupPart(chunk)
      idle == IdlePart(chunk)
      after == [l \in Line |-> feed(preflight.decoders[l], Levels(warmup, l), COUNT + WARMUP)]
      busy == \/ warmup # <<>> /\ \E l \in Line : AnyActivity(after[l])
              \/ ~CommonIdle(idle)
  IN [warmup_seen |-> preflight.warmup_seen + Len(warmup),
      idle_seen |-> preflight.idle_seen + (IF busy THEN 0 ELSE Len(idle)),
      decoders |-> after,
      active |-> busy]

(* Mutant: the reader is not told to stop. *)
LeaveRunning == rstep' = "join" /\ UNCHANGED stop

Leave == rstep' = "join" /\ stop' = TRUE

LoopFails ==
  /\ invalid' = TRUE
  /\ rstatus' = "FAIL"
  /\ Leave

Complete ==
  /\ ready
  /\ \A l \in Line : Len(decoders[l].data) = COUNT
  /\ Len(serial) = COUNT

(* One turn: a chunk, if there is one, then what the adapter has heard.    *)
(* An error of the reader shows before the chunk is used.                  *)
Turn ==
  /\ rstep = "loop" /\ rerror = None
  /\ LET chunk == IF queue = <<>> THEN <<>> ELSE Head(queue)
         arming == IF ready THEN preflight ELSE Fed(chunk)
         useful == IF ready THEN chunk ELSE IdlePart(chunk)
     IN
     /\ queue' = IF queue = <<>> THEN <<>> ELSE Tail(queue)
     /\ raw' = raw \o chunk
     /\ preflight' = arming
     /\ IF arming.active /\ ~ready
        THEN LoopFails /\ UNCHANGED <<decoders, serial, heard, ready>>
        ELSE /\ decoders' = [l \in Line |-> feed(decoders[l], Levels(useful, l), COUNT)]
             /\ heard' \in heard .. Len(stream.cp2102)
             /\ IF ~ready /\ heard' > heard
                THEN LoopFails /\ UNCHANGED <<serial, ready>>
                ELSE /\ serial' = SubSeq(stream.cp2102, 1, Min({COUNT, heard'}))
                     /\ ready' = (ready \/ arming.idle_seen >= IDLE)
                     /\ UNCHANGED invalid
                     /\ IF Complete' THEN rstatus' = "CAPTURED" /\ Leave
                                     ELSE UNCHANGED <<rstatus, rstep, stop>>
  /\ UNCHANGED <<buildVars, used, report, consumed, board, stream, thread, device,
                 capture>>

loopOnly == <<buildVars, used, report, consumed, board, stream, thread, queue, gathered,
              device, capture>>

(* The timeout has passed; or a file or the port fails, or Control-C. *)
TimeUp == rstep = "loop" /\ LoopFails /\ UNCHANGED loopOnly

ReaderFailed == rstep = "loop" /\ rerror # None /\ LoopFails /\ UNCHANGED loopOnly

(* The reader is joined before the port, the file and the analyser are     *)
(* let go.  Control-C may cut that short.                                  *)
Join ==
  /\ rstep = "join" /\ reader = "finished"
  /\ rstep' = "finalize"
  /\ UNCHANGED <<buildVars, used, report, consumed, board, stream, thread, stop, queue,
                 gathered, device, invalid, rstatus, capture>>

InterruptJoin ==
  /\ rstep = "join" /\ reader # "finished"
  /\ invalid' = TRUE
  /\ rstatus' = "FAIL"
  /\ rstep' = "finalize"
  /\ UNCHANGED <<buildVars, used, report, consumed, board, stream, thread, stop, queue,
                 gathered, device, capture>>

Of(l, field) == IF decoders = None THEN None ELSE decoders[l][field]

(* acquisition.json, with the digests of the files beside it. *)
Acquisition(status, reasons) ==
  [status |-> status, digest |-> report.digest, id |-> report.id, claim |-> report.claim,
   lost |-> lost, ready |-> ready, invalid |-> reasons,
   framing |-> [l \in Line |-> Of(l, "framing_errors")],
   false_starts |-> [l \in Line |-> Of(l, "false_starts")],
   starts |-> [l \in Line |-> Of(l, "starts")],
   artifacts |-> [f \in {"samples", "reference", "cipher", "cp2102"} |->
     CASE f = "samples" -> Written(raw)
       [] f = "cp2102"  -> Written(serial)
       [] OTHER -> IF decoders = None THEN None ELSE Written(decoders[f].data)]]

(* Mutant: the verdict of the loop is final. *)
FinalizeAsIs ==
  /\ rstep = "finalize"
  /\ rstep' = "recorded"
  /\ device' = "closed"
  /\ UNCHANGED <<rstatus, invalid>>
  /\ capture' = LET a == Acquisition(rstatus, invalid) IN
       [f \in File |-> IF f \in DOMAIN a.artifacts THEN a.artifacts[f]
                       ELSE IF f = "acquisition" THEN Written(a) ELSE None]
  /\ UNCHANGED <<buildVars, used, report, consumed, board, stream, thread, stop, queue,
                 gathered>>

(* finally: an error of the reader, even one after CAPTURED, fails the     *)
(* acquisition; the analyser is closed and everything is written.  A file  *)
(* that cannot be written ends it without acquisition.json.                *)
Finalize ==
  /\ rstep = "finalize"
  /\ rstep' = "recorded"
  /\ device' = "closed"
  /\ rstatus' = IF rerror = None THEN rstatus ELSE "FAIL"
  /\ invalid' = (invalid \/ rerror # None)
  /\ LET a == Acquisition(rstatus', invalid') IN
     \E written \in BOOLEAN :
       capture' = [f \in File |-> IF f \in DOMAIN a.artifacts THEN a.artifacts[f]
                                  ELSE IF f = "acquisition" /\ written THEN Written(a)
                                  ELSE None]
  /\ UNCHANGED <<buildVars, used, report, consumed, board, stream, thread, stop, queue,
                 gathered>>

(* The process is gone when both threads are; only files remain. *)
Exit ==
  /\ rstep = "recorded" /\ reader \in {"none", "finished"}
  /\ rstep' = "exited"
  /\ used' = None /\ report' = None
  /\ reader' = "none" /\ stop' = FALSE /\ rerror' = None /\ lost' = FALSE
  /\ read' = 0 /\ queue' = <<>> /\ raw' = <<>>
  /\ preflight' = None /\ ready' = FALSE /\ decoders' = None
  /\ serial' = <<>> /\ heard' = 0
  /\ invalid' = FALSE /\ rstatus' = None
  /\ UNCHANGED <<buildVars, consumed, board, stream, device, capture>>

Running == rstep \in {"loop", "join", "finalize", "recorded"}

RecordStep ==
  \/ Load \/ Check \/ Report \/ Claim \/ Arm \/ Turn \/ TimeUp \/ ReaderFailed
  \/ Join \/ InterruptJoin \/ Finalize \/ Exit

RecordNext == RecordStep \/ ReaderStep

(* What the scheduler owes the reader thread; a poll may find no sample    *)
(* for ever.                                                               *)
ReaderProceeds == StartRecord \/ SeeStop \/ StopRecord
-----------------------------------------------------------------------------
(* No sample is left out, doubled or out of order on its way into          *)
(* samples.bin, whatever the reader and the writer do to the queue.        *)
SamplesInOrder ==
  LET taken == raw \o FlattenSeq(queue) IN taken = Positions(0, Len(taken))

(* The bytes and the frame starts do not depend on where the chunks were   *)
(* cut: they are those of the samples in one piece, without the warm-up.   *)
(* And every start is a fall of that line in samples.bin.                  *)
DecodedAsOnePiece ==
  rstep = "loop" \/ rstatus = "CAPTURED" =>
    \A l \in Line :
      /\ decoders[l] = feed(Decoder(WARMUP), Levels(SubSeq(raw, WARMUP + 1, Len(raw)), l), COUNT)
      /\ \A i \in DOMAIN decoders[l].starts :
           LET p == decoders[l].starts[i] IN
           Levels(raw, l)[p] = 1 /\ Levels(raw, l)[p + 1] = 0

(* CAPTURED is written only when the reader has ended, without an error    *)
(* and without a lost sample, so no one uses the analyser any more, and    *)
(* when everything that was asked for is there.                            *)
CapturedIsClean ==
  rstep = "recorded" /\ rstatus = "CAPTURED" =>
    /\ reader = "finished" /\ rerror = None /\ ~lost
    /\ Complete

(* Every acquisition ends with the analyser released. *)
RecordEnds == (rstep = "loop") ~> (rstep = "exited" /\ device = "closed")
=============================================================================
