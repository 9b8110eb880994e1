--------------------------- MODULE Evidence_proofs ---------------------------
(***************************************************************************)
(* What a build, an acquisition, a campaign and a publication promise, for *)
(* any contexts, any samples, queue and chunk lengths, and any number of   *)
(* edits (after the acquisition, for the publication: three).  Each part   *)
(* has its invariant over what the one before left: BuildInv the           *)
(* artifacts, FilesInv and AcquisitionInv the capture, ExportInv and       *)
(* CopyInv the copies; StopInv counts the steps to the end of an           *)
(* acquisition.  Then the samples: their order, by induction over the      *)
(* chunks of the queue, and what is decoded from them, by induction over   *)
(* the samples of a chunk.                                                 *)
(***************************************************************************)
EXTENDS Evidence, WellFoundedInduction, SequenceTheorems, TLAPS

NoFile == {None, Torn}

(* What a run of a tool left, under the parameters of this build. *)
OutputSet == [from : Nat \X {params}, good : BOOLEAN, version : Nat]
Outputs == [Artifact -> OutputSet \cup {None}]

ManifestSet ==
  [status : {"RUNNING", "PASS"}, design : {"secure", "baseline"},
   sources : Nat \X {params}, artifacts : Outputs \cup {None}]

(* Every artifact was made after the sources were hashed and not before    *)
(* the sources of now; a flow that reached its end had no bad result.      *)
MadeOK(n) ==
  made[n] # None =>
    /\ made[n] \in OutputSet
    /\ made[n].from[1] <= source
    /\ manifest \notin NoFile => manifest.sources[1] <= made[n].from[1]
    /\ step \in {"audit", "version", "finish", "verify", "done"} => made[n].good
    /\ manifest \notin NoFile /\ manifest.status = "PASS" => made[n].good

BuildInv ==
  /\ source \in Nat
  /\ made \in Outputs
  /\ step \in {"new", "render", "begin", "bind", "compile"} =>
       \A n \in Artifact : made[n] = None
  /\ manifest \notin NoFile =>
       /\ manifest \in ManifestSet
       /\ manifest.sources[1] <= source
       /\ step \notin {"new", "render", "begin"}
       /\ manifest.status = "PASS" => step \in {"verify", "done", "failed"}
  /\ \A n \in Artifact : MadeOK(n)

LEMMA InitBuild == Init => BuildInv
BY DEF Init, BuildInit, BuildInv, MadeOK, NoFile, Outputs

(* Nothing but the flow and the edits touches what BuildInv speaks of. *)
LEMMA BuildKept == BuildInv /\ UNCHANGED <<source, step, params, manifest, made>> => BuildInv'
<1> SUFFICES ASSUME BuildInv, UNCHANGED <<source, step, params, manifest, made>>
             PROVE  BuildInv'
  OBVIOUS
<1>1. OutputSet' = OutputSet /\ Outputs' = Outputs /\ ManifestSet' = ManifestSet
  BY DEF OutputSet, Outputs, ManifestSet
<1> HIDE DEF OutputSet, Outputs, ManifestSet
<1> QED  BY <1>1 DEF BuildInv, MadeOK

LEMMA LoadAndReserveBuild == BuildInv /\ LoadAndReserve => BuildInv'
BY DEF BuildInv, LoadAndReserve, Then, bench, MadeOK, OutputSet, Outputs, ManifestSet

LEMMA RenderBuild == BuildInv /\ Render => BuildInv'
BY DEF BuildInv, Render, Then, bench, MadeOK, OutputSet, Outputs, ManifestSet

LEMMA BeginBuild == BuildInv /\ Begin => BuildInv'
BY DEF BuildInv, Begin, Then, bench, MadeOK, OutputSet, Outputs, ManifestSet, begin,
   inputs, design

LEMMA BindBuild == BuildInv /\ Bind => BuildInv'
BY DEF BuildInv, Bind, Then, bench, MadeOK, OutputSet, Outputs, ManifestSet

LEMMA BreakBuild == BuildInv /\ Break => BuildInv'
BY DEF BuildInv, Break, Then, bench, MadeOK, OutputSet, Outputs, ManifestSet, NoFile

LEMMA VerifyBuild == BuildInv /\ Verify => BuildInv'
BY ZenonT(40) DEF BuildInv, Verify, Then, bench, MadeOK, OutputSet, Outputs, ManifestSet

LEMMA RunBuild ==
  ASSUME BuildInv, NEW here, NEW next, NEW outputs,
         here \in {"compile", "audit", "version"},
         next \in {"audit", "version", "finish"},
         here = "compile" \/ next # "audit",
         Run(here, next, outputs)
  PROVE  BuildInv'
<1>1. PICK good \in BOOLEAN :
        /\ made' = [n \in Artifact |-> IF n \in outputs THEN Output(good) ELSE made[n]]
        /\ step' = IF good THEN next ELSE "failed"
  BY DEF Run, Then
<1>2. step = here /\ UNCHANGED <<source, params, manifest>>
  BY DEF Run, bench
<1>3. /\ Output(good) \in OutputSet /\ Output(good).from[1] = source
      /\ Output(good).good = good
  BY DEF Output, OutputSet, inputs, BuildInv
<1>4. OutputSet' = OutputSet /\ Outputs' = Outputs /\ ManifestSet' = ManifestSet
  BY <1>2 DEF OutputSet, Outputs, ManifestSet
<1> HIDE DEF Output, OutputSet
<1>5. made' \in Outputs
  BY <1>1, <1>3 DEF BuildInv, Outputs
<1>6. ASSUME NEW n \in Artifact PROVE MadeOK(n)'
  <2>1. CASE n \in outputs
    <3>1. made'[n] = Output(good)
      BY <1>1, <2>1
    <3>2. manifest \notin NoFile =>
            manifest.status # "PASS" /\ manifest.sources[1] <= source
      BY <1>2 DEF BuildInv
    <3> QED  BY <1>1, <1>2, <1>3, <1>4, <3>1, <3>2 DEF MadeOK, BuildInv
  <2>2. CASE n \notin outputs
    <3>1. made'[n] = made[n]
      BY <1>1, <2>2
    <3>2. here = "compile" => made[n] = None
      BY <1>2 DEF BuildInv
    <3>3. here # "compile" => step \in {"audit", "version", "finish", "verify", "done"}
      BY <1>2
    <3> QED  BY <1>1, <1>2, <1>4, <3>1, <3>2, <3>3 DEF MadeOK, BuildInv
  <2> QED  BY <2>1, <2>2
<1>7. step' \notin {"new", "render", "begin", "bind", "compile"}
  BY <1>1
<1>8. manifest' \notin NoFile =>
        /\ manifest' \in ManifestSet'
        /\ manifest'.sources[1] <= source'
        /\ manifest'.status # "PASS"
  BY <1>2, <1>4 DEF BuildInv
<1> QED  BY <1>2, <1>4, <1>5, <1>6, <1>7, <1>8 DEF BuildInv

LEMMA FinishBuild == BuildInv /\ finish => BuildInv'
<1> SUFFICES ASSUME BuildInv, finish PROVE BuildInv'
  OBVIOUS
<1>1. /\ step = "finish" /\ step' = "verify" /\ verify(FALSE)
      /\ \A n \in Log : made[n] # None
      /\ manifest' = [manifest EXCEPT !.status = "PASS", !.artifacts = made]
      /\ UNCHANGED <<source, params, made>>
  BY DEF finish, Then, bench
<1>2. manifest \notin NoFile /\ manifest \in ManifestSet /\ manifest.sources[1] <= source
  BY <1>1 DEF verify, NoFile, BuildInv
<1>3. OutputSet' = OutputSet /\ Outputs' = Outputs /\ ManifestSet' = ManifestSet
  BY <1>1 DEF OutputSet, Outputs, ManifestSet
<1>4. manifest' \in ManifestSet /\ manifest'.sources = manifest.sources
  BY <1>1, <1>2 DEF ManifestSet, BuildInv
<1> HIDE DEF OutputSet, Outputs, ManifestSet
<1>5. \A n \in Artifact : MadeOK(n)'
  BY <1>1, <1>2, <1>3, <1>4 DEF MadeOK, BuildInv
<1> QED  BY <1>1, <1>2, <1>3, <1>4, <1>5 DEF BuildInv

LEMMA EditBuild == BuildInv /\ Edit => BuildInv'
<1> SUFFICES ASSUME BuildInv, Edit PROVE BuildInv'
  OBVIOUS
<1>1. UNCHANGED <<step, params, manifest>>
  BY DEF Edit
<1>2. OutputSet' = OutputSet /\ Outputs' = Outputs /\ ManifestSet' = ManifestSet
  BY <1>1 DEF OutputSet, Outputs, ManifestSet
<1>3. CASE EditSource
  <2>1. source' = source + 1 /\ UNCHANGED made
    BY <1>3 DEF EditSource
  <2> QED  BY <1>1, <1>2, <2>1 DEF BuildInv, MadeOK, OutputSet, ManifestSet
<1>4. CASE EditContext
  BY <1>1, <1>4, BuildKept DEF EditContext
<1>5. CASE EditMade
  <2>1. PICK n \in Artifact :
          /\ made[n] # None
          /\ \/ made' = [made EXCEPT ![n].version = @ + 1]
             \/ made' = [made EXCEPT ![n] = None]
    BY <1>5 DEF EditMade
  <2>2. made[n] \in OutputSet /\ UNCHANGED source
    BY <1>5, <2>1 DEF BuildInv, Outputs, EditMade
  <2> DEFINE edited == [made[n] EXCEPT !.version = @ + 1]
  <2>3. edited \in OutputSet /\ edited.from = made[n].from /\ edited.good = made[n].good
    BY <2>2 DEF OutputSet
  <2>4. made' = [made EXCEPT ![n] = edited] \/ made' = [made EXCEPT ![n] = None]
    BY <2>1
  <2> HIDE DEF edited, OutputSet, ManifestSet
  <2>5. made' \in Outputs
    BY <2>3, <2>4 DEF BuildInv, Outputs
  <2>6. ASSUME NEW m \in Artifact PROVE MadeOK(m)'
    BY <1>1, <1>2, <2>1, <2>2, <2>3, <2>4 DEF BuildInv, Outputs, MadeOK
  <2>7. step' \in {"new", "render", "begin", "bind", "compile"} =>
          \A m \in Artifact : made'[m] = None
    BY <1>1, <2>1 DEF BuildInv
  <2> QED  BY <1>1, <1>2, <2>2, <2>5, <2>6, <2>7 DEF BuildInv
<1> QED  BY <1>3, <1>4, <1>5 DEF Edit

LEMMA WholeBuild == BuildInv => VerifiedBuildIsWhole
BY DEF BuildInv, VerifiedBuildIsWhole, verify, MadeOK, OutputSet, Outputs, ManifestSet,
   NoFile, inputs, Artifact
-----------------------------------------------------------------------------
(* Arm forgets the build; no other step of the record writes its files.    *)
LEMMA ArmBuild == BuildInv /\ Arm => BuildInv'
BY DEF BuildInv, Arm, SetupFails, MadeOK, NoFile, Outputs

LEMMA RecordKeepsBuild ==
  RecordNext => Arm \/ UNCHANGED <<source, step, params, manifest, made>>
<1>1. RecordNext => Arm \/ UNCHANGED buildVars
  <2>1. Load \/ Check \/ Report \/ Claim \/ Join \/ InterruptJoin \/ Finalize \/ Exit
          => UNCHANGED buildVars
    BY DEF Load, Check, Report, Claim, Join, InterruptJoin, Finalize, Exit
  <2>2. Turn \/ TimeUp \/ ReaderFailed => UNCHANGED buildVars
    BY DEF Turn, TimeUp, ReaderFailed, loopOnly
  <2>3. ReaderStep => UNCHANGED buildVars
    BY DEF ReaderStep, StartRecord, Poll, SeeStop, StopRecord, readerElse
  <2> QED  BY <2>1, <2>2, <2>3 DEF RecordNext, RecordStep
<1> QED  BY <1>1 DEF buildVars, bench

LEMMA LateKeepsBuild ==
  EditLate \/ Analyze \/ Approve \/ Copy \/ Seal \/ EditFile =>
    UNCHANGED <<source, step, params, manifest, made>>
<1>1. EditLate \/ EditFile => UNCHANGED <<source, step, params, manifest, made>>
  BY Zenon DEF EditLate, EditContext, EditFile
<1>2. Analyze \/ Approve \/ Copy \/ Seal => UNCHANGED buildVars
  BY DEF Analyze, Approve, Copy, Seal
<1> QED  BY <1>1, <1>2 DEF buildVars, bench

LEMMA StepBuild == BuildInv /\ BuildStep => BuildInv'
<1> SUFFICES ASSUME BuildInv, BuildStep PROVE BuildInv'
  OBVIOUS
<1>1. CASE LoadAndReserve BY <1>1, LoadAndReserveBuild
<1>2. CASE Render BY <1>2, RenderBuild
<1>3. CASE Begin BY <1>3, BeginBuild
<1>4. CASE Bind BY <1>4, BindBuild
<1>5. CASE Compile BY <1>5, RunBuild DEF Compile
<1>6. CASE Audit BY <1>6, RunBuild DEF Audit
<1>7. CASE Version BY <1>7, RunBuild DEF Version
<1>8. CASE finish BY <1>8, FinishBuild
<1>9. CASE Verify BY <1>9, VerifyBuild
<1>10. CASE Break BY <1>10, BreakBuild
<1> QED
  BY <1>1, <1>2, <1>3, <1>4, <1>5, <1>6, <1>7, <1>8, <1>9, <1>10 DEF BuildStep

LEMMA NextBuild == BuildInv /\ [Next]_vars => BuildInv'
<1> SUFFICES ASSUME BuildInv, [Next]_vars PROVE BuildInv'
  OBVIOUS
<1>1. CASE BuildStep
  BY <1>1, StepBuild
<1>2. CASE EditInput
  BY <1>2, EditBuild DEF EditInput
<1>3. CASE RecordNext
  BY <1>3, RecordKeepsBuild, ArmBuild, BuildKept
<1>4. CASE EditLate \/ Analyze \/ Approve \/ Copy \/ Seal \/ EditFile
  BY <1>4, LateKeepsBuild, BuildKept
<1>5. CASE UNCHANGED vars
  BY <1>5, BuildKept DEF vars, buildVars, bench
<1> QED
  BY <1>1, <1>2, <1>3, <1>4, <1>5 DEF Next

(* A directory that verifies as complete holds the results of one whole    *)
(* flow of the sources that are there now (finish and verify of            *)
(* build_manifest.py, build of bench_build.py), after any edits.           *)
THEOREM BuildIsWhole == Spec => []VerifiedBuildIsWhole
<1>1. Spec => []BuildInv
  BY InitBuild, NextBuild, PTL DEF Spec
<1> QED
  BY <1>1, WholeBuild, PTL
-----------------------------------------------------------------------------
(* CAPTURED is known before the reader is joined: until Finalize an error  *)
(* may still come, and after the join none can.                            *)
CleanInv ==
  /\ lost => rerror = "failed"
  /\ rstatus = "CAPTURED" =>
       /\ rstep \in {"join", "finalize", "recorded"}
       /\ Complete
       /\ rstep \in {"finalize", "recorded"} => reader = "finished"
       /\ rstep = "recorded" => rerror = None

cleanVars == <<rstep, reader, rerror, lost, rstatus, ready, decoders, serial>>

LEMMA InitClean == Init => CleanInv
BY RecordAssumption DEF Init, RecordInit, CleanInv

LEMMA CleanKept == CleanInv /\ UNCHANGED cleanVars => CleanInv'
BY DEF CleanInv, cleanVars, Complete

LEMMA BeforeLoopClean == CleanInv /\ (Load \/ Check \/ Report \/ Claim \/ Arm) => CleanInv'
BY DEF CleanInv, Complete, Load, Check, Report, Claim, Arm, SetupFails, Refuse, gathered, thread

LEMMA ReaderClean == CleanInv /\ ReaderStep => CleanInv'
<1> SUFFICES ASSUME CleanInv, ReaderStep PROVE CleanInv'
  OBVIOUS
<1>1. UNCHANGED <<rstep, rstatus, ready, decoders, serial>>
  BY DEF ReaderStep, StartRecord, Poll, SeeStop, StopRecord, readerElse, gathered
<1>2. reader # "finished" /\ (lost' => rerror' = "failed")
  BY DEF CleanInv, ReaderStep, StartRecord, Poll, Lose, SeeStop, StopRecord, Raise, Put
<1> QED  BY <1>1, <1>2 DEF CleanInv, Complete

LEMMA TurnClean == CleanInv /\ Turn => CleanInv'
<1> SUFFICES ASSUME CleanInv, Turn PROVE CleanInv'
  OBVIOUS
<1>1. rstep = "loop" /\ UNCHANGED <<reader, rerror, lost>>
  BY DEF Turn, thread
<1>2. \/ rstatus' = "CAPTURED" /\ rstep' = "join" /\ Complete'
      \/ rstatus' = "FAIL"
      \/ rstatus' = rstatus
  BY DEF Turn, LoopFails, Leave
<1> QED  BY <1>1, <1>2 DEF CleanInv

LEMMA EndClean ==
  CleanInv /\ (TimeUp \/ ReaderFailed \/ Join \/ InterruptJoin \/ Finalize \/ Exit)
    => CleanInv'
BY RecordAssumption
   DEF CleanInv, Complete, TimeUp, ReaderFailed, Join, InterruptJoin, Finalize, Exit,
       LoopFails, Leave, loopOnly, gathered, thread

LEMMA NextClean == CleanInv /\ [Next]_vars => CleanInv'
<1> SUFFICES ASSUME CleanInv, [Next]_vars PROVE CleanInv'
  OBVIOUS
<1>1. CASE RecordNext
  BY <1>1, BeforeLoopClean, ReaderClean, TurnClean, EndClean DEF RecordNext, RecordStep
<1>2. CASE UNCHANGED recordVars
  BY <1>2, CleanKept DEF recordVars, cleanVars
<1>3. CASE Analyze \/ EditFile
  BY <1>3, CleanKept DEF Analyze, EditFile, cleanVars, thread, gathered
<1>4. CASE Approve \/ Copy \/ Seal
  BY <1>4, CleanKept DEF Approve, Copy, Seal, recordVars, cleanVars
<1> QED
  BY <1>1, <1>2, <1>3, <1>4 DEF Next, vars, EditInput

(* Where record ends CAPTURED, the reader thread has ended without error   *)
(* or lost sample and everything asked for is there: however the reader    *)
(* and the main loop interleave, and for any samples.                      *)
THEOREM CaptureIsClean == Spec => []CapturedIsClean
<1>1. CleanInv => CapturedIsClean
  BY RecordAssumption DEF CleanInv, CapturedIsClean
<1> QED
  BY <1>1, InitClean, NextClean, PTL DEF Spec
-----------------------------------------------------------------------------
(* The main loop is never left without telling the reader, if there is     *)
(* one, and what is open is closed by Finalize.                            *)
StopInv ==
  /\ reader \in {"none", "start", "poll", "stopping", "finished"}
  /\ stop \in BOOLEAN
  /\ rstep \notin {"loop", "join", "finalize", "recorded"} => reader = "none" /\ ~stop
  /\ rstep = "loop" => reader # "none" /\ ~stop
  /\ rstep = "join" => reader # "none" /\ stop
  /\ rstep \in {"finalize", "recorded"} => (stop <=> reader # "none")
  /\ device \in {"open", "closed"}
  /\ device = "open" => rstep \in {"loop", "join", "finalize"}

(* Steps of both threads until the process is gone.                        *)
MainLeft ==
  IF rstep = "join" THEN 3 ELSE IF rstep = "finalize" THEN 2
  ELSE IF rstep = "recorded" THEN 1 ELSE 0

ReaderLeft ==
  IF reader = "start" THEN 3 ELSE IF reader = "poll" THEN 2
  ELSE IF reader = "stopping" THEN 1 ELSE 0

StepsToExit == MainLeft + ReaderLeft

Ending ==
  stop /\ RecordNext =>
    \/ stop' /\ StepsToExit' < StepsToExit
    \/ rstep' = "exited" /\ StepsToExit = 1 /\ device' = "closed"

stopVars == <<rstep, reader, stop, device>>

LEMMA InitStop == Init => StopInv
BY DEF Init, RecordInit, StopInv

LEMMA StopKept == StopInv /\ UNCHANGED stopVars => StopInv'
BY DEF StopInv, stopVars

LEMMA BeforeLoopStop == StopInv /\ (Load \/ Check \/ Report \/ Claim \/ Arm) => StopInv' /\ ~stop
BY DEF StopInv, Load, Check, Report, Claim, Arm, SetupFails, Refuse, gathered, thread

LEMMA ReaderStop == StopInv /\ ReaderStep => StopInv' /\ Ending
<1> SUFFICES ASSUME StopInv, ReaderStep PROVE StopInv' /\ Ending
  OBVIOUS
<1>1. UNCHANGED <<rstep, stop, device>>
  BY DEF ReaderStep, StartRecord, Poll, SeeStop, StopRecord, readerElse
<1>2. \/ reader = "start" /\ reader' \in {"poll", "stopping"}
      \/ reader = "poll" /\ ~stop /\ reader' \in {"poll", "stopping"}
      \/ reader = "poll" /\ reader' = "stopping"
      \/ reader = "stopping" /\ reader' = "finished"
  BY DEF ReaderStep, StartRecord, Poll, Lose, SeeStop, StopRecord, Raise, Put
<1>3. StopInv'
  BY <1>1, <1>2 DEF StopInv
<1>4. stop => stop' /\ StepsToExit' < StepsToExit
  <2> SUFFICES ASSUME stop PROVE stop' /\ StepsToExit' < StepsToExit
    OBVIOUS
  <2>1. stop'
    BY <1>1
  <2>2. MainLeft' = MainLeft /\ MainLeft \in Nat
    BY <1>1 DEF MainLeft
  <2>3. ReaderLeft' < ReaderLeft /\ ReaderLeft \in Nat /\ ReaderLeft' \in Nat
    <3>1. \/ ReaderLeft = 3 /\ ReaderLeft' \in {2, 1}
          \/ ReaderLeft = 2 /\ ReaderLeft' = 1
          \/ ReaderLeft = 1 /\ ReaderLeft' = 0
      BY <1>2 DEF ReaderLeft
    <3> QED  BY <3>1
  <2>4. StepsToExit = MainLeft + ReaderLeft /\ StepsToExit' = MainLeft' + ReaderLeft'
    BY DEF StepsToExit
  <2>5. StepsToExit' < StepsToExit
    <3>1. \A m, r, s \in Nat : s < r => m + s < m + r
      OBVIOUS
    <3>2. MainLeft' + ReaderLeft' < MainLeft + ReaderLeft
      BY <2>2, <2>3, <3>1, Zenon
    <3> QED  BY <2>4, <3>2, Zenon
  <2> QED  BY <2>1, <2>5
<1> QED  BY <1>3, <1>4, Zenon DEF Ending

LEMMA LoopStop == StopInv /\ (Turn \/ TimeUp \/ ReaderFailed) => StopInv' /\ ~stop
<1> SUFFICES ASSUME StopInv, Turn \/ TimeUp \/ ReaderFailed PROVE StopInv' /\ ~stop
  OBVIOUS
<1>1. rstep = "loop" /\ UNCHANGED <<reader, device>>
  BY DEF Turn, TimeUp, ReaderFailed, loopOnly, thread
<1>2. (rstep' = "join" /\ stop' = TRUE) \/ UNCHANGED <<rstep, stop>>
  BY DEF Turn, TimeUp, ReaderFailed, LoopFails, Leave
<1>3. ~stop
  BY <1>1 DEF StopInv
<1>4. StopInv'
  <2>1. CASE rstep' = "join" /\ stop' = TRUE
    BY <1>1, <2>1 DEF StopInv
  <2>2. CASE UNCHANGED <<rstep, stop>>
    BY <1>1, <2>2, StopKept DEF stopVars
  <2> QED  BY <1>2, <2>1, <2>2
<1> QED  BY <1>3, <1>4

LEMMA EndStop ==
  StopInv /\ (Join \/ InterruptJoin \/ Finalize \/ Exit) => StopInv' /\ Ending
<1> SUFFICES ASSUME StopInv, Join \/ InterruptJoin \/ Finalize \/ Exit
             PROVE  StopInv' /\ Ending
  OBVIOUS
<1>1. CASE Join \/ InterruptJoin \/ Finalize
  <2>1. /\ UNCHANGED <<reader, stop>>
        /\ \/ rstep = "join" /\ rstep' = "finalize" /\ device' = device
           \/ rstep = "finalize" /\ rstep' = "recorded" /\ device' = "closed"
    BY <1>1 DEF Join, InterruptJoin, Finalize, thread
  <2>2. StopInv'
    BY <2>1 DEF StopInv
  <2>3. StepsToExit' < StepsToExit
    BY <2>1 DEF StepsToExit, MainLeft, ReaderLeft, StopInv
  <2> QED  BY <2>1, <2>2, <2>3 DEF Ending
<1>2. CASE Exit
  <2>1. /\ rstep = "recorded" /\ reader \in {"none", "finished"} /\ device' = device
        /\ rstep' = "exited" /\ reader' = "none" /\ stop' = FALSE
    BY <1>2 DEF Exit
  <2>2. StopInv'
    BY <2>1 DEF StopInv
  <2>3. StepsToExit = 1 /\ device' = "closed"
    BY <2>1 DEF StepsToExit, MainLeft, ReaderLeft, StopInv
  <2> QED  BY <2>1, <2>2, <2>3 DEF Ending, StopInv
<1> QED  BY <1>1, <1>2

LEMMA NextStop == StopInv /\ [Next]_vars => StopInv' /\ [Ending]_vars
<1> SUFFICES ASSUME StopInv, [Next]_vars PROVE StopInv' /\ (Ending \/ UNCHANGED vars)
  OBVIOUS
<1>1. CASE RecordNext
  BY <1>1, BeforeLoopStop, ReaderStop, LoopStop, EndStop DEF RecordNext, RecordStep, Ending
<1>2. CASE UNCHANGED recordVars /\ ~RecordNext
  BY <1>2, StopKept DEF recordVars, stopVars, Ending
<1>3. CASE (Analyze \/ EditFile) /\ ~RecordNext
  BY <1>3, StopKept DEF Analyze, EditFile, stopVars, thread, Ending
<1>4. CASE (Approve \/ Copy \/ Seal) /\ ~RecordNext
  BY <1>4, StopKept DEF Approve, Copy, Seal, recordVars, stopVars, Ending
<1> QED
  BY <1>1, <1>2, <1>3, <1>4 DEF Next, vars, EditInput

(* What RecordEnds rests on: once the main loop of record is left, for     *)
(* whatever reason and wherever the reader thread is, the reader has been  *)
(* told to stop; from then on every step of either thread is one of at     *)
(* most six to the exit of the process, and the analyser is closed there.  *)
THEOREM StoppedRecordEnds ==
  Spec =>
    /\ [](stop => StepsToExit \in 1 .. 6)
    /\ [](rstep = "join" => stop)
    /\ [](device = "open" => rstep \in {"loop", "join", "finalize"})
    /\ [][Ending]_vars
<1>1. StopInv => /\ stop => StepsToExit \in 1 .. 6
                 /\ rstep = "join" => stop
                 /\ device = "open" => rstep \in {"loop", "join", "finalize"}
  BY DEF StopInv, StepsToExit, MainLeft, ReaderLeft
<1> QED
  BY <1>1, InitStop, NextStop, PTL DEF Spec
-----------------------------------------------------------------------------
(* The context file, what build() made of it and what swaps has counted.   *)
(* While nothing was replaced the three reads of the build agree; after    *)
(* one replacement two of them, neighbours, still do.                      *)
BindInv ==
  /\ step = "new" => swaps["build"] = 0
  /\ step \in {"render", "begin", "bind"} /\ swaps["build"] = 0 => context = loaded
  /\ step \in {"begin", "bind"} => \/ swaps["build"] = 0 /\ params = loaded
                                   \/ swaps["build"] = 1 /\ params \in {loaded, context}
                                   \/ swaps["build"] > 1
  /\ binding \notin NoFile =>
       /\ step \notin {"new", "render", "begin", "bind"}
       /\ binding.id = loaded.id
       /\ swaps["build"] = 0 => binding.digest = loaded /\ params = loaded
       /\ swaps["build"] = 1 => params \in {loaded, binding.digest}

(* The same for record(): what it found bound is what it loaded, and what  *)
(* its report names, if nothing was replaced while it read.                *)
ClaimInv ==
  /\ swaps \in [{"build", "record"} -> Nat]
  /\ rstep # "new" => step \in {"done", "failed"}
  /\ rstep = "new" => swaps["record"] = 0
  /\ rstep \in {"new", "check", "report", "claim", "arm"} => BindInv
  /\ rstep \in {"check", "report"} /\ swaps["record"] = 0 => used = context
  /\ rstep \in {"report", "claim", "arm"} =>
       /\ binding \notin NoFile /\ binding.id = used.id
       /\ swaps["record"] = 0 => binding.digest = used
       /\ manifest.artifacts["sof"].from[2] = params
  /\ rstep \in {"claim", "arm"} =>
       /\ {"digest", "claim"} \subseteq DOMAIN report
       /\ swaps["record"] = 0 => report.digest = used
  /\ rstep = "arm" /\ design(used) = "secure" => used \in Registered

LEMMA InitClaim == Init => ClaimInv
BY DEF Init, BuildInit, RecordInit, ClaimInv, BindInv, NoFile, NoSwaps

claimVars ==
  <<context, step, loaded, params, manifest, binding, rstep, used, report, swaps>>

LEMMA ClaimKept == ClaimInv /\ UNCHANGED claimVars => ClaimInv'
BY DEF ClaimInv, BindInv, NoFile, claimVars, design

LEMMA BuildClaim ==
  ClaimInv /\ BuildStep /\ UNCHANGED <<recordVars, evidenceVars>> => ClaimInv'
<1> SUFFICES ASSUME ClaimInv, BuildStep, UNCHANGED <<recordVars, evidenceVars>>
             PROVE  ClaimInv'
  OBVIOUS
<1>1. step \notin {"done", "failed"} /\ UNCHANGED <<rstep, used, report, context, swaps>>
  BY DEF BuildStep, LoadAndReserve, Render, Begin, Bind, Compile, Audit, Version, Run,
     finish, Verify, Break, recordVars, evidenceVars, bench
<1>2. rstep = "new" /\ BindInv /\ swaps["build"] \in Nat
  BY <1>1 DEF ClaimInv
<1>3. BindInv'
  <2>1. CASE LoadAndReserve BY <1>1, <1>2, <2>1 DEF LoadAndReserve, Then, bench, BindInv, NoFile
  <2>2. CASE Render BY <1>1, <1>2, <2>2 DEF Render, Then, bench, BindInv, NoFile
  <2>3. CASE Begin BY <1>1, <1>2, <2>3 DEF Begin, Then, bench, BindInv, NoFile
  <2>4. CASE Bind BY <1>1, <1>2, <2>4 DEF Bind, Then, bench, BindInv, NoFile
  <2>5. CASE Compile \/ Audit \/ Version
    BY <1>1, <1>2, <2>5 DEF Compile, Audit, Version, Run, Then, bench, BindInv, NoFile
  <2>6. CASE finish BY <1>1, <1>2, <2>6 DEF finish, Then, bench, BindInv, NoFile
  <2>7. CASE Verify BY <1>1, <1>2, <2>7 DEF Verify, Then, bench, BindInv, NoFile
  <2>8. CASE Break BY <1>1, <1>2, <2>8 DEF Break, Then, bench, BindInv, NoFile
  <2> QED  BY <2>1, <2>2, <2>3, <2>4, <2>5, <2>6, <2>7, <2>8 DEF BuildStep
<1> QED  BY <1>1, <1>2, <1>3 DEF ClaimInv

(* A replacement between the reads of a command is counted. *)
LEMMA SwapsCount ==
  ASSUME swaps \in [{"build", "record"} -> Nat], EditInput
  PROVE  /\ swaps' \in [{"build", "record"} -> Nat]
         /\ swaps'["build"] =
              IF context' # context /\ step \in {"render", "begin", "bind"}
              THEN swaps["build"] + 1 ELSE swaps["build"]
         /\ swaps'["record"] =
              IF context' # context /\ rstep \in {"check", "report"}
              THEN swaps["record"] + 1 ELSE swaps["record"]
<1>1. \A command \in {"build", "record"} : swaps[command] \in Nat
  OBVIOUS
<1>2. /\ Reading["build"] = (step \in {"render", "begin", "bind"})
      /\ Reading["record"] = (rstep \in {"check", "report"})
  BY DEF Reading
<1>3. swaps' = [command \in {"build", "record"} |->
        swaps[command] + (IF context' # context /\ Reading[command] THEN 1 ELSE 0)]
  BY DEF EditInput
<1>4. \A n \in Nat : n + 0 = n /\ n + 1 \in Nat
  OBVIOUS
<1>5. \A command \in {"build", "record"} :
        swaps'[command] = IF context' # context /\ Reading[command]
                          THEN swaps[command] + 1 ELSE swaps[command]
  BY <1>1, <1>3, <1>4
<1>6. \A command \in {"build", "record"} : swaps'[command] \in Nat
  BY <1>1, <1>4, <1>5, Zenon
<1>7. swaps' \in [{"build", "record"} -> Nat]
  BY <1>3, <1>6
<1>8. /\ swaps'["build"] = IF context' # context /\ Reading["build"]
                           THEN swaps["build"] + 1 ELSE swaps["build"]
      /\ swaps'["record"] = IF context' # context /\ Reading["record"]
                            THEN swaps["record"] + 1 ELSE swaps["record"]
  BY <1>5
<1> QED  BY <1>2, <1>7, <1>8, Zenon

LEMMA EditClaim == ClaimInv /\ EditInput => ClaimInv'
<1> SUFFICES ASSUME ClaimInv, EditInput PROVE ClaimInv'
  OBVIOUS
<1>1. /\ UNCHANGED <<step, loaded, params, manifest, binding, rstep, used, report>>
      /\ rstep \in {"new", "check", "report", "claim"}
  BY DEF EditInput, Edit, recordVars
<1>2. /\ BindInv
      /\ swaps["build"] \in Nat /\ swaps["record"] \in Nat
      /\ swaps' \in [{"build", "record"} -> Nat]
      /\ swaps'["build"] =
           IF context' # context /\ step \in {"render", "begin", "bind"}
           THEN swaps["build"] + 1 ELSE swaps["build"]
      /\ swaps'["record"] =
           IF context' # context /\ rstep \in {"check", "report"}
           THEN swaps["record"] + 1 ELSE swaps["record"]
  BY <1>1, SwapsCount DEF ClaimInv
<1>3. BindInv'
  BY <1>1, <1>2 DEF BindInv, NoFile
<1>4. /\ swaps'["record"] = 0 => swaps["record"] = 0
      /\ swaps'["record"] = 0 /\ rstep \in {"check", "report"} => context' = context
  BY <1>2
<1>5. rstep = "new" => swaps'["record"] = 0
  BY <1>2 DEF ClaimInv
<1> QED  BY <1>1, <1>2, <1>3, <1>4, <1>5 DEF ClaimInv, NoFile, design

(* What the acquisition finds: a verified build with the binding of now.   *)
LEMMA CheckClaim == BuildInv /\ ClaimInv /\ Check /\ UNCHANGED swaps => ClaimInv'
<1> SUFFICES ASSUME BuildInv, ClaimInv, Check, UNCHANGED swaps PROVE ClaimInv'
  OBVIOUS
<1>1. /\ rstep = "check"
      /\ UNCHANGED <<context, step, loaded, params, manifest, binding, used, swaps>>
      /\ (Bound /\ rstep' = "report") \/ rstep' = "refused"
  BY DEF Check, Refuse, buildVars, bench
<1>2. CASE Bound /\ rstep' = "report"
  <2>1. binding \notin NoFile /\ binding.digest = context /\ binding.id = used.id /\ verify(TRUE)
    BY <1>2 DEF Bound, NoFile
  <2>2. swaps["record"] = 0 => used = context
    BY <1>1 DEF ClaimInv
  <2>3. manifest.artifacts["sof"].from[2] = params
    <3>1. "sof" \in Artifact /\ "sof" \in Required
      BY DEF Artifact, Required
    <3>2. VerifiedBuildIsWhole
      BY WholeBuild
    <3>3. made["sof"] # None /\ manifest.artifacts = made
      BY <2>1, <3>1 DEF verify
    <3>4. made["sof"].from = <<source, params>>
      BY <2>1, <3>1, <3>2, <3>3 DEF VerifiedBuildIsWhole, inputs
    <3> QED  BY <3>3, <3>4
  <2>4. BindInv'
    BY <1>1 DEF ClaimInv, BindInv, NoFile
  <2> QED  BY <1>1, <1>2, <2>1, <2>2, <2>3, <2>4 DEF ClaimInv, NoFile
<1>3. CASE rstep' = "refused"
  BY <1>1, <1>3 DEF ClaimInv
<1> QED  BY <1>1, <1>2, <1>3

LEMMA ReportClaim == ClaimInv /\ Report /\ UNCHANGED swaps => ClaimInv'
<1> SUFFICES ASSUME ClaimInv, Report, UNCHANGED swaps PROVE ClaimInv'
  OBVIOUS
<1>1. /\ rstep = "report"
      /\ UNCHANGED <<context, step, loaded, params, manifest, binding, used, swaps>>
      /\ \/ /\ rstep' = "claim" /\ report'.digest = context
            /\ {"digest", "claim"} \subseteq DOMAIN report'
         \/ rstep' = "refused"
  BY DEF Report, Refuse, buildVars, bench
<1>2. BindInv'
  BY <1>1 DEF ClaimInv, BindInv, NoFile
<1> QED  BY <1>1, <1>2 DEF ClaimInv, NoFile

LEMMA ClaimClaim == ClaimInv /\ Claim /\ UNCHANGED swaps => ClaimInv'
<1> SUFFICES ASSUME ClaimInv, Claim, UNCHANGED swaps PROVE ClaimInv'
  OBVIOUS
<1>1. /\ rstep = "claim"
      /\ UNCHANGED <<context, step, loaded, params, manifest, binding, used, swaps>>
      /\ \/ /\ rstep' = "arm" /\ report' = [report EXCEPT !.claim = ClaimOf(used)]
            /\ design(used) = "secure" => used \in Registered
         \/ rstep' = "refused"
  BY DEF Claim, Refuse, buildVars, bench
<1>2. BindInv'
  BY <1>1 DEF ClaimInv, BindInv, NoFile
<1>3. rstep' = "arm" => DOMAIN report' = DOMAIN report /\ report'.digest = report.digest
  BY <1>1 DEF ClaimInv
<1> QED  BY <1>1, <1>2, <1>3 DEF ClaimInv, NoFile, design

(* What is counted is forgotten with what was read. *)
Forgotten == swaps' = IF Arm THEN NoSwaps ELSE swaps

LEMMA RecordClaim ==
  BuildInv /\ ClaimInv /\ step \in {"done", "failed"} /\ RecordNext /\ Forgotten
    => ClaimInv'
<1> SUFFICES ASSUME BuildInv, ClaimInv, step \in {"done", "failed"}, RecordNext, Forgotten
             PROVE  ClaimInv'
  OBVIOUS
<1>1. CASE Arm
  <2>1. rstep' \in {"loop", "finalize"} /\ step' = "done"
    BY <1>1 DEF Arm, SetupFails
  <2>2. swaps' \in [{"build", "record"} -> Nat]
    BY <1>1 DEF Forgotten, NoSwaps
  <2> QED  BY <2>1, <2>2 DEF ClaimInv
<1>2. ASSUME ~Arm PROVE ClaimInv'
  <2>1. UNCHANGED swaps
    BY <1>2 DEF Forgotten
  <2>2. CASE Load
    BY <2>1, <2>2 DEF Load, ClaimInv, BindInv, NoFile, buildVars, bench
  <2>3. CASE Check \/ Report \/ Claim
    BY <2>1, <2>3, CheckClaim, ReportClaim, ClaimClaim
  <2>4. CASE Turn \/ TimeUp \/ ReaderFailed \/ Join \/ InterruptJoin \/ Finalize \/ Exit
    <3>1. rstep' \in {"loop", "join", "finalize", "recorded", "exited"} /\ step' = step
      BY <2>4 DEF Turn, TimeUp, ReaderFailed, Join, InterruptJoin, Finalize, Exit, LoopFails,
         Leave, loopOnly, buildVars
    <3> QED  BY <2>1, <3>1 DEF ClaimInv
  <2>5. CASE ReaderStep
    BY <2>1, <2>5, ClaimKept DEF ReaderStep, StartRecord, Poll, SeeStop, StopRecord,
       readerElse, buildVars, bench, claimVars
  <2> QED
    BY <1>2, <2>2, <2>3, <2>4, <2>5 DEF RecordNext, RecordStep
<1> QED  BY <1>1, <1>2

LEMMA LateClaim ==
  ClaimInv /\ ((EditLate /\ UNCHANGED <<recordVars, evidenceVars>>) \/ Analyze \/ EditFile)
    => ClaimInv'
<1> SUFFICES ASSUME ClaimInv,
                    (EditLate /\ UNCHANGED <<recordVars, evidenceVars>>) \/ Analyze \/ EditFile
             PROVE  ClaimInv'
  OBVIOUS
<1>1. rstep = "exited" /\ rstep' = "exited" /\ step' = step /\ swaps' = swaps
  BY Zenon DEF EditLate, Analyze, EditFile, recordVars, evidenceVars, buildVars, bench
<1>2. swaps \in [{"build", "record"} -> Nat] /\ step \in {"done", "failed"}
  BY <1>1 DEF ClaimInv
<1> QED  BY <1>1, <1>2 DEF ClaimInv

LEMMA NextClaim == BuildInv /\ ClaimInv /\ [Next]_vars => ClaimInv'
<1> SUFFICES ASSUME BuildInv, ClaimInv, [Next]_vars PROVE ClaimInv'
  OBVIOUS
<1>1. CASE BuildStep /\ UNCHANGED <<recordVars, evidenceVars>>
  BY <1>1, BuildClaim
<1>2. CASE EditInput
  BY <1>2, EditClaim
<1>3. CASE step \in {"done", "failed"} /\ RecordNext /\ Forgotten
  BY <1>3, RecordClaim
<1>4. CASE (EditLate /\ UNCHANGED <<recordVars, evidenceVars>>) \/ Analyze \/ EditFile
  BY <1>4, LateClaim
<1>5. CASE Approve \/ Copy \/ Seal \/ UNCHANGED vars
  BY <1>5, ClaimKept DEF Approve, Copy, Seal, vars, buildVars, bench, recordVars, evidenceVars,
     claimVars
<1> QED
  BY <1>1, <1>2, <1>3, <1>4, <1>5 DEF Next, Forgotten

(* The bitstream of a claimed context carries that context and the report  *)
(* names it (build of bench_build.py, the binding check, the report and    *)
(* claim_capture of record), for any contexts and any edits, if the        *)
(* context file was not replaced between the first and the last read of    *)
(* either command; with one replacement between those of the build, unless *)
(* what it read first was an altered copy of that context.                 *)
THEOREM ClaimedContextIsBuilt == Spec => []ClaimedContextIsInTheBitstream
<1>1. ClaimInv => ClaimedContextIsInTheBitstream
  <2> SUFFICES ASSUME ClaimInv, rstep = "arm", design(used) = "secure", swaps["record"] = 0
               PROVE  LET compiled == manifest.artifacts["sof"].from[2] IN
                      /\ report.digest = used
                      /\ swaps["build"] = 0 => compiled = used
                      /\ swaps["build"] = 1 =>
                           compiled = used \/ (loaded.id = used.id /\ loaded \notin Registered)
    BY DEF ClaimedContextIsInTheBitstream
  <2>1. /\ BindInv /\ binding \notin NoFile /\ binding.id = used.id
        /\ binding.digest = used /\ report.digest = used /\ used \in Registered
        /\ manifest.artifacts["sof"].from[2] = params
    BY DEF ClaimInv
  <2>2. /\ binding.id = loaded.id
        /\ swaps["build"] = 0 => params = used
        /\ swaps["build"] = 1 => params = loaded \/ params = used
    BY <2>1 DEF BindInv
  <2>3. loaded.id = used.id /\ loaded \in Registered => loaded = used
    BY <2>1, RecordAssumption
  <2> QED  BY <2>1, <2>2, <2>3
<1>2. BuildInv /\ ClaimInv /\ [Next]_vars => (BuildInv /\ ClaimInv)'
  BY NextBuild, NextClaim
<1> QED
  BY <1>1, <1>2, InitBuild, InitClaim, PTL DEF Spec
-----------------------------------------------------------------------------
(* A file: what is in it, and how often it was edited. *)
IsFile(r) ==
  /\ r = [data |-> r.data, version |-> r.version]
  /\ r.version \in Nat

(* What claim_capture says it has started, the registry has as started. *)
ClaimMade(claim) == claim.mode = "aes-128-ctr" => \E u \in consumed : u.id = claim.id

(* What acquisition.json says holds of the files beside it as they were    *)
(* written, and of the registry; its verdict, unless it was edited.        *)
AcquisitionInv ==
  capture["acquisition"] # None =>
    LET a == Data("acquisition") IN
    /\ {"claim", "artifacts"} \subseteq DOMAIN a
    /\ Bytes \subseteq DOMAIN a.artifacts
    /\ ClaimMade(a.claim)
    /\ \A f \in Bytes :
         IF a.artifacts[f] = None THEN capture[f] = None ELSE a.artifacts[f].version = 0
    /\ capture["acquisition"].version = 0 /\ ~a.invalid => a.status = "CAPTURED"

FilesInv ==
  /\ invalid \in BOOLEAN
  /\ consumed \subseteq Registered
  /\ rstep \in {"arm", "loop", "join", "finalize"} => ClaimMade(report.claim)
  /\ rstep \in {"join", "finalize"} => invalid \/ rstatus = "CAPTURED"
  /\ rstep \notin {"recorded", "exited"} => \A f \in File : capture[f] = None
  /\ DOMAIN capture = File
  /\ \A f \in File : capture[f] = None \/ IsFile(capture[f])
  /\ AcquisitionInv

filesVars == <<rstep, report, consumed, invalid, rstatus, capture>>

LEMMA InitFiles == Init => FilesInv
BY DEF Init, RecordInit, FilesInv, AcquisitionInv, File

LEMMA FilesKept == FilesInv /\ UNCHANGED filesVars => FilesInv'
BY DEF FilesInv, AcquisitionInv, filesVars, ClaimMade, Data, IsFile

(* Until Finalize nothing is written. *)
LEMMA BeforeFiles ==
  FilesInv /\ ClaimInv /\ (Load \/ Check \/ Report \/ Claim \/ Arm \/ TimeUp \/ ReaderFailed \/ Join
                          \/ InterruptJoin \/ Turn)
    => FilesInv'
<1> SUFFICES ASSUME FilesInv, ClaimInv,
                    Load \/ Check \/ Report \/ Claim \/ Arm \/ TimeUp \/ ReaderFailed \/ Join
                      \/ InterruptJoin \/ Turn
             PROVE  FilesInv'
  OBVIOUS
<1>1. UNCHANGED capture /\ rstep \notin {"recorded", "exited"}
      /\ rstep' \notin {"recorded", "exited"}
  BY DEF Load, Check, Report, Claim, Arm, SetupFails, Refuse, TimeUp, ReaderFailed, Join,
     InterruptJoin, Turn, LoopFails, Leave, loopOnly
<1>2. "acquisition" \in File
  BY DEF File
<1>3. AcquisitionInv'
  BY <1>1, <1>2 DEF FilesInv, AcquisitionInv
<1>4. (\A f \in File : capture[f] = None \/ IsFile(capture[f]))'
  BY <1>1 DEF FilesInv, IsFile
<1>5. invalid' \in BOOLEAN
      /\ (rstep' \in {"join", "finalize"} => invalid' \/ rstatus' = "CAPTURED")
  BY DEF FilesInv, Load, Check, Report, Claim, Arm, SetupFails, Refuse, TimeUp, ReaderFailed, Join,
     InterruptJoin, Turn, LoopFails, Leave, loopOnly
<1>6. /\ consumed' \subseteq Registered
      /\ rstep' \in {"arm", "loop", "join", "finalize"} => ClaimMade(report.claim)'
  <2>1. CASE Claim
    <3>1. CASE rstep' = "arm"
      <4>1. /\ {"digest", "claim"} \subseteq DOMAIN report
            /\ report' = [report EXCEPT !.claim = ClaimOf(used)]
            /\ design(used) = "secure" => used \in Registered \ consumed
            /\ consumed' = IF design(used) = "secure" THEN consumed \cup {used} ELSE consumed
        BY <2>1, <3>1 DEF Claim, Refuse, ClaimInv
      <4>2. report'.claim = [id |-> used.id, mode |-> used.mode]
        BY <4>1 DEF ClaimOf
      <4>3. report'.claim.id = used.id /\ report'.claim.mode = used.mode
        BY <4>2
      <4>4. used.mode = "aes-128-ctr" => used \in consumed'
        BY <4>1 DEF design
      <4>5. consumed' \subseteq Registered
        BY <4>1 DEF FilesInv
      <4> QED  BY <4>3, <4>4, <4>5 DEF ClaimMade
    <3>2. CASE rstep' = "refused"
      BY <2>1, <3>2 DEF Claim, FilesInv
    <3> QED  BY <2>1, <3>1, <3>2 DEF Claim, Refuse
  <2>2. CASE Load \/ Check \/ Report
    BY <2>2 DEF Load, Check, Report, Refuse, FilesInv
  <2>3. CASE Arm \/ TimeUp \/ ReaderFailed \/ Join \/ InterruptJoin \/ Turn
    <3>1. UNCHANGED <<report, consumed>> /\ rstep \in {"arm", "loop", "join"}
      BY <2>3 DEF Arm, TimeUp, ReaderFailed, Join, InterruptJoin, Turn, loopOnly
    <3> QED  BY <3>1 DEF FilesInv, ClaimMade
  <2> QED  BY <2>1, <2>2, <2>3
<1> QED  BY <1>1, <1>3, <1>4, <1>5, <1>6 DEF FilesInv

LEMMA FinalizeFiles == FilesInv /\ CleanInv /\ Finalize => FilesInv'
<1> SUFFICES ASSUME FilesInv, CleanInv, Finalize PROVE FilesInv'
  OBVIOUS
<1> DEFINE a == Acquisition(rstatus', invalid')
<1>1. PICK written \in BOOLEAN :
        capture' = [f \in File |-> IF f \in DOMAIN a.artifacts THEN a.artifacts[f]
                                   ELSE IF f = "acquisition" /\ written THEN Written(a)
                                   ELSE None]
  BY DEF Finalize
<1>2. /\ DOMAIN a.artifacts = {"samples", "reference", "cipher", "cp2102"}
      /\ \A f \in DOMAIN a.artifacts :
           a.artifacts[f] = None \/ \E d : a.artifacts[f] = Written(d)
      /\ {"claim", "artifacts"} \subseteq DOMAIN a
      /\ a.claim = report.claim /\ a.invalid = invalid' /\ a.status = rstatus'
  BY DEF Acquisition
<1>3. /\ rstep = "finalize" /\ rstep' = "recorded" /\ UNCHANGED <<report, consumed>>
      /\ invalid' \in BOOLEAN /\ (~invalid' => rstatus' = "CAPTURED")
  BY DEF Finalize, FilesInv
<1> HIDE DEF a
<1>4. \A d : IsFile(Written(d)) /\ Written(d).version = 0 /\ Written(d).data = d
  BY DEF IsFile, Written
<1>5. \A f \in File : capture'[f] = None \/ IsFile(capture'[f])
  BY <1>1, <1>2, <1>4
<1>6. capture'["acquisition"] # None => capture'["acquisition"] = Written(a)
  BY <1>1, <1>2 DEF File
<1>7. AcquisitionInv'
  <2> SUFFICES ASSUME capture'["acquisition"] # None
               PROVE  /\ {"claim", "artifacts"} \subseteq DOMAIN a
                      /\ Bytes \subseteq DOMAIN a.artifacts
                      /\ a.claim.mode = "aes-128-ctr" => \E u \in consumed' : u.id = a.claim.id
                      /\ \A f \in Bytes : IF a.artifacts[f] = None THEN capture'[f] = None
                                          ELSE a.artifacts[f].version = 0
                      /\ ~a.invalid => a.status = "CAPTURED"
    <3>1. ASSUME capture'["acquisition"] # None PROVE capture'["acquisition"].data = a
      BY <1>4, <1>6, <3>1
    <3> QED  BY <3>1 DEF AcquisitionInv, Data, ClaimMade
  <2>1. \A f \in Bytes : f \in File /\ f \in DOMAIN a.artifacts
    BY <1>2 DEF Bytes, File
  <2>2. \A f \in Bytes : capture'[f] = a.artifacts[f]
    BY <1>1, <2>1
  <2>3. a.claim.mode = "aes-128-ctr" => \E u \in consumed' : u.id = a.claim.id
    BY <1>2, <1>3 DEF FilesInv, ClaimMade
  <2> QED  BY <1>2, <1>3, <1>4, <2>1, <2>2, <2>3
<1> QED  BY <1>1, <1>3, <1>5, <1>7 DEF FilesInv

LEMMA ExitFiles == FilesInv /\ Exit => FilesInv'
BY DEF FilesInv, AcquisitionInv, Exit, ClaimMade, Data, IsFile

LEMMA AnalyzeFiles == FilesInv /\ Analyze => FilesInv'
<1> SUFFICES ASSUME FilesInv, Analyze PROVE FilesInv'
  OBVIOUS
<1>1. PICK c, r : capture' = [capture EXCEPT !["comparison"] = Written(c),
                                             !["recovered"] = Written(r)]
  BY DEF Analyze
<1>2. rstep = "exited" /\ UNCHANGED <<rstep, report, consumed, invalid, rstatus>>
  BY DEF Analyze
<1>3. \A f \in File \ {"comparison", "recovered"} : capture'[f] = capture[f]
  BY <1>1 DEF FilesInv
<1>4. IsFile(Written(c)) /\ IsFile(Written(r))
  BY DEF IsFile, Written
<1>5. \A f \in File : capture'[f] = None \/ IsFile(capture'[f])
  BY <1>1, <1>4 DEF FilesInv
<1>6. "acquisition" \in File \ {"comparison", "recovered"}
      /\ Bytes \subseteq File \ {"comparison", "recovered"}
  BY DEF File, Bytes
<1>7. AcquisitionInv'
  BY <1>2, <1>3, <1>6 DEF FilesInv, AcquisitionInv, Data, ClaimMade
<1> QED  BY <1>1, <1>2, <1>5, <1>7 DEF FilesInv
(* An edit counts, and leaves digests and artifacts as they were. *)
LEMMA EditCounts ==
  ASSUME FilesInv, NEW f \in File, capture[f] # None,
         capture' = [capture EXCEPT ![f].version = @ + 1,
           ![f].data = CASE f = "acquisition" -> [@ EXCEPT !.status = "CAPTURED", !.invalid = FALSE]
                         [] f = "comparison"  -> [@ EXCEPT !.status = "PASS", !.observed = TRUE]
                         [] OTHER -> @]
  PROVE  /\ DOMAIN capture' = File
         /\ \A g \in File \ {f} : capture'[g] = capture[g]
         /\ IsFile(capture'[f]) /\ capture'[f].version = capture[f].version + 1
         /\ f \notin {"acquisition", "comparison"} => capture'[f].data = capture[f].data
         /\ f = "acquisition" =>
              capture'[f].data = [capture[f].data EXCEPT !.status = "CAPTURED", !.invalid = FALSE]
<1> DEFINE data == CASE f = "acquisition" -> [capture[f].data EXCEPT !.status = "CAPTURED", !.invalid = FALSE]
                     [] f = "comparison"  -> [capture[f].data EXCEPT !.status = "PASS", !.observed = TRUE]
                     [] OTHER -> capture[f].data
<1>1. IsFile(capture[f])
  BY DEF FilesInv
<1>2. capture'[f] = [data |-> data, version |-> capture[f].version + 1]
  BY <1>1 DEF FilesInv, IsFile
<1>3. data = CASE f = "acquisition" -> [capture[f].data EXCEPT !.status = "CAPTURED", !.invalid = FALSE]
                     [] f = "comparison"  -> [capture[f].data EXCEPT !.status = "PASS", !.observed = TRUE]
                     [] OTHER -> capture[f].data
  OBVIOUS
<1> HIDE DEF data
<1>4. DOMAIN capture' = File /\ \A g \in File \ {f} : capture'[g] = capture[g]
  BY DEF FilesInv
<1>5. IsFile(capture'[f]) /\ capture'[f].version = capture[f].version + 1
      /\ capture'[f].data = data
  <2>1. capture[f].version + 1 \in Nat
    BY <1>1 DEF IsFile
  <2>2. \A d, v : [data |-> d, version |-> v].data = d /\ [data |-> d, version |-> v].version = v
    OBVIOUS
  <2> DEFINE r == [data |-> data, version |-> capture[f].version + 1]
  <2>3. r.data = data /\ r.version = capture[f].version + 1 /\ IsFile(r)
    BY <2>1, <2>2 DEF IsFile
  <2> QED  BY <1>2, <2>3
<1> QED  BY <1>3, <1>4, <1>5

LEMMA EditFiles == FilesInv /\ EditFile => FilesInv'
<1> SUFFICES ASSUME FilesInv, EditFile PROVE FilesInv'
  OBVIOUS
<1>1. rstep = "exited" /\ UNCHANGED <<rstep, report, consumed, invalid, rstatus>>
  BY DEF EditFile
<1>2. CASE UNCHANGED capture
  BY <1>1, <1>2, FilesKept DEF filesVars
<1>3. ASSUME NEW f \in File, capture[f] # None,
             capture' = [capture EXCEPT ![f].version = @ + 1,
               ![f].data = CASE f = "acquisition" -> [@ EXCEPT !.status = "CAPTURED", !.invalid = FALSE]
                             [] f = "comparison"  -> [@ EXCEPT !.status = "PASS", !.observed = TRUE]
                             [] OTHER -> @]
      PROVE  FilesInv'
  <2>1. /\ DOMAIN capture' = File
        /\ \A g \in File \ {f} : capture'[g] = capture[g]
        /\ IsFile(capture'[f]) /\ capture'[f].version = capture[f].version + 1
        /\ f = "acquisition" =>
             capture'[f].data = [capture[f].data EXCEPT !.status = "CAPTURED", !.invalid = FALSE]
    BY <1>3, EditCounts
  <2>2. \A g \in File : capture'[g] = None \/ IsFile(capture'[g])
    BY <2>1 DEF FilesInv
  <2>3. AcquisitionInv'
    <3>1. CASE f = "acquisition"
      <4>1. capture'[f].version # 0
        BY <1>3, <2>1 DEF FilesInv, IsFile
      <4>2. AcquisitionInv /\ \A g \in Bytes : capture'[g] = capture[g]
        BY <2>1, <3>1 DEF FilesInv, Bytes, File
      <4> DEFINE a == capture["acquisition"].data
                 b == capture'["acquisition"].data
      <4>3. AcquisitionInv => {"claim", "artifacts"} \subseteq DOMAIN a
        BY <1>3, <3>1 DEF AcquisitionInv, Data
      <4>4. DOMAIN b = DOMAIN a /\ b.claim = a.claim /\ b.artifacts = a.artifacts
        BY <2>1, <3>1, <4>2, <4>3
      <4>5. {"claim", "artifacts"} \subseteq DOMAIN b /\ Bytes \subseteq DOMAIN b.artifacts
        BY <1>3, <3>1, <4>2, <4>3, <4>4 DEF AcquisitionInv, Data
      <4>6. b.claim.mode = "aes-128-ctr" => \E u \in consumed' : u.id = b.claim.id
        BY <1>1, <1>3, <3>1, <4>2, <4>4 DEF AcquisitionInv, Data, ClaimMade
      <4>7. \A g \in Bytes :
              IF b.artifacts[g] = None THEN capture'[g] = None ELSE b.artifacts[g].version = 0
        BY <1>3, <3>1, <4>2, <4>4 DEF AcquisitionInv, Data
      <4> HIDE DEF b
      <4> QED  BY <3>1, <4>1, <4>5, <4>6, <4>7 DEF AcquisitionInv, Data, ClaimMade, b
    <3>2. CASE f # "acquisition"
      <4>1. capture'["acquisition"] = capture["acquisition"]
        BY <2>1, <3>2 DEF File
      <4>2. \A g \in Bytes : capture[g] = None => capture'[g] = None
        BY <1>3, <2>1 DEF Bytes, File
      <4> QED  BY <1>1, <4>1, <4>2 DEF FilesInv, AcquisitionInv, Data, ClaimMade
    <3> QED  BY <3>1, <3>2
  <2> QED  BY <1>1, <2>1, <2>2, <2>3 DEF FilesInv
<1> QED  BY <1>2, <1>3 DEF EditFile

LEMMA NextFiles == FilesInv /\ ClaimInv /\ CleanInv /\ [Next]_vars => FilesInv'
<1> SUFFICES ASSUME FilesInv, ClaimInv, CleanInv, [Next]_vars PROVE FilesInv'
  OBVIOUS
<1>1. CASE RecordStep
  BY <1>1, BeforeFiles, FinalizeFiles, ExitFiles DEF RecordStep
<1>2. CASE ReaderStep
  BY <1>2, FilesKept DEF ReaderStep, StartRecord, Poll, SeeStop, StopRecord, readerElse,
     filesVars
<1>3. CASE Analyze \/ EditFile
  BY <1>3, AnalyzeFiles, EditFiles
<1>4. CASE UNCHANGED recordVars \/ Approve \/ Copy \/ Seal
  BY <1>4, FilesKept DEF Approve, Copy, Seal, recordVars, filesVars
<1> QED
  BY <1>1, <1>2, <1>3, <1>4 DEF Next, vars, RecordNext, EditInput

(* Bytes of None are no sentence: with a sentence in the reference, the    *)
(* output line was enciphered under this context and nothing was changed.  *)
LEMMA SentenceIsRecovered ==
  ASSUME NEW c, NEW reference \in Window, NEW cipher, Recovered(cipher, c) = reference
  PROVE  reference = cipher /\ (design(c) = "secure" => board = c)
<1>1. PICK i \in DOMAIN reference : reference[i] # None
  BY WindowAssumption
<1>2. reference # [j \in DOMAIN cipher |-> None]
  BY <1>1
<1> QED  BY <1>2 DEF Recovered, design

(* A campaign of a secure context plans for one of the registry. *)
CampaignInv == design(campaign) = "secure" => campaign \in Registered

LEMMA CampaignRegistered == Spec => []CampaignInv
<1>1. Init => CampaignInv
  BY PlannedAssumption DEF Init, CampaignInv, design
<1>2. CampaignInv /\ [Next]_vars => CampaignInv'
  <2>1. [Next]_vars => campaign' = campaign
    BY Zenon DEF Next, vars, evidenceVars, EditInput, Analyze, Approve, Copy, Seal, EditFile
  <2> QED  BY <2>1, SMTT(30) DEF CampaignInv, design
<1> QED  BY <1>1, <1>2, PTL DEF Spec

(* A run the campaign summarizes as PASS (assess, summarize and            *)
(* acquisition_valid of long_campaign.py) rests on bytes nobody changed,   *)
(* recorded with the context of the campaign on the board; and if the      *)
(* acquisition says it was claimed for that context, the registry has it   *)
(* as started: for any contexts, any samples, any number of edits of any   *)
(* file at any time, contexts put back and replaced within a command       *)
(* included.                                                               *)
THEOREM SummaryIsEvidence == Spec => []SummaryRestsOnBytes
<1>1. FilesInv /\ CampaignInv => SummaryRestsOnBytes
  <2> SUFFICES ASSUME FilesInv, CampaignInv, Present(Bytes \cup {"acquisition", "comparison"}), summarize
               PROVE  BytesAreEvidence(context)
    BY DEF SummaryRestsOnBytes
  <2>1. AcquisitionInv /\ capture["acquisition"] # None
        /\ \A f \in Bytes : capture[f] # None
    BY DEF FilesInv, Present
  <2>2. \A f \in Bytes : capture[f].version = 0
    BY <2>1 DEF summarize, AsAcquired, AcquisitionInv
  <2>3. ASSUME design(context) = "secure", Data("acquisition").claim = ClaimOf(context)
        PROVE  context \in consumed
    <3>1. context \in Registered
      BY <2>3 DEF summarize, CampaignInv
    <3>2. Data("acquisition").claim = [id |-> context.id, mode |-> context.mode]
      BY <2>3 DEF ClaimOf
    <3>3. context.mode = "aes-128-ctr"
      BY <2>3 DEF design
    <3>4. PICK u \in consumed : u.id = context.id
      BY <2>1, <3>2, <3>3 DEF AcquisitionInv, ClaimMade
    <3>5. u \in Registered
      BY <3>4 DEF FilesInv
    <3> QED  BY <3>1, <3>4, <3>5, RecordAssumption
  <2>4. /\ ~Data("acquisition").invalid
        /\ Data("cp2102") = Data("cipher")
        /\ Len(Data("cipher")) = Len(Data("reference"))
        /\ Recovered(Data("cipher"), context) = Data("reference")
        /\ Data("reference") \in Window
    BY DEF summarize, Assessed, assess
  <2>5. Data("reference") = Data("cipher") /\ (design(context) = "secure" => board = context)
    BY <2>4, SentenceIsRecovered
  <2>6. capture["acquisition"].version = 0 => Data("acquisition").status = "CAPTURED"
    BY <2>1, <2>4 DEF AcquisitionInv, Data
  <2> QED  BY <2>2, <2>3, <2>4, <2>5, <2>6 DEF BytesAreEvidence
<1>2. Init => BuildInv /\ ClaimInv /\ CleanInv /\ FilesInv
  BY InitBuild, InitClaim, InitClean, InitFiles
<1>3. BuildInv /\ ClaimInv /\ CleanInv /\ FilesInv /\ [Next]_vars
        => (BuildInv /\ ClaimInv /\ CleanInv /\ FilesInv)'
  BY NextBuild, NextClaim, NextClean, NextFiles
<1> QED
  BY <1>1, <1>2, <1>3, CampaignRegistered, PTL DEF Spec
-----------------------------------------------------------------------------
(* The four files an export compares, and how often they were changed      *)
(* since they were approved.                                               *)
Compared == {"reference", "cipher", "cp2102", "recovered"}

CopyInv(files, n) ==
  /\ \A f \in Compared : IsFile(files[f])
  /\ files["reference"].version + files["cipher"].version
       + files["cp2102"].version + files["recovered"].version <= n

(* No capture can be started for it any more. *)
Spent(c) == c \notin Registered \ consumed

(* What is approved is untouched; from then on every change is an edit.    *)
(* The context that is published is the one that was approved.             *)
ExportInv ==
  /\ edits \in Nat
  /\ public = [data |-> public.data, hashes |-> public.hashes] /\ DOMAIN public.data = Public
  /\ export \in {"none", "copy", "seal", "exported"}
  /\ export # "none" =>
       /\ rstep = "exited"
       /\ IsFile(public.data["context"])
       /\ design(public.data["context"].data) = "secure"
       /\ Spent(public.data["context"].data)
  /\ export = "copy" => CopyInv(capture, edits)
  /\ export \in {"seal", "exported"} => CopyInv(public.data, edits)
  /\ public.hashes # None => export = "exported"

LEMMA InitExport == Init => ExportInv
BY DEF Init, BuildInit, RecordInit, ExportInv, Public

exportVars == <<edits, public, export, rstep, consumed, capture>>

LEMMA ExportKept == ExportInv /\ UNCHANGED exportVars => ExportInv'
BY DEF ExportInv, exportVars, CopyInv, IsFile, Spent, design

(* Nothing is exported before the acquisition has ended. *)
LEMMA BeforeExport ==
  ExportInv /\ rstep # "exited" /\ edits' \in Nat /\ UNCHANGED <<public, export>>
    => ExportInv'
BY DEF ExportInv

LEMMA LateExport ==
  ExportInv /\ EditLate /\ UNCHANGED <<recordVars, evidenceVars>> => ExportInv'
<1> SUFFICES ASSUME ExportInv, EditLate, UNCHANGED <<recordVars, evidenceVars>>
             PROVE  ExportInv'
  OBVIOUS
<1>1. edits' = edits + 1 /\ UNCHANGED <<public, export, rstep, consumed, capture>>
  BY DEF EditLate, recordVars, evidenceVars
<1>2. edits \in Nat /\ edits' \in Nat
  BY <1>1 DEF ExportInv
<1>3. ASSUME NEW files, CopyInv(files, edits)
      PROVE  CopyInv(files, edits')
  BY <1>1, <1>2, <1>3 DEF CopyInv, Compared, IsFile
<1> QED  BY <1>1, <1>2, <1>3 DEF ExportInv, IsFile, Spent, design

LEMMA AnalyzeExport == FilesInv /\ ExportInv /\ Analyze => ExportInv'
<1> SUFFICES ASSUME FilesInv, ExportInv, Analyze PROVE ExportInv'
  OBVIOUS
<1>1. PICK c, r : capture' = [capture EXCEPT !["comparison"] = Written(c),
                                             !["recovered"] = Written(r)]
  BY DEF Analyze
<1>2. UNCHANGED <<edits, public, export, rstep, consumed>>
  BY DEF Analyze, buildVars, bench, evidenceVars
<1>3. CopyInv(capture, edits) => CopyInv(capture', edits')
  <2>1. /\ capture'["recovered"] = Written(r)
        /\ \A f \in {"reference", "cipher", "cp2102"} : capture'[f] = capture[f]
    BY <1>1 DEF FilesInv, File
  <2>2. IsFile(Written(r)) /\ Written(r).version = 0
    BY DEF IsFile, Written
  <2> QED  BY <1>2, <2>1, <2>2 DEF CopyInv, Compared, IsFile, ExportInv
<1>4. CopyInv(public.data, edits) => CopyInv(public'.data, edits')
  BY <1>2 DEF CopyInv, IsFile
<1> QED  BY <1>2, <1>3, <1>4 DEF ExportInv, IsFile, Spent, design

LEMMA ApproveExport == FilesInv /\ ExportInv /\ Approve => ExportInv'
<1> SUFFICES ASSUME FilesInv, ExportInv, Approve PROVE ExportInv'
  OBVIOUS
<1>1. /\ rstep = "exited" /\ export = "none" /\ export' = "copy"
      /\ public' = [public EXCEPT !.data["context"] = Written(context)]
      /\ UNCHANGED <<edits, rstep, consumed, capture>>
  BY DEF Approve, recordVars, buildVars, bench
<1>2. /\ public' = [data |-> public'.data, hashes |-> public'.hashes]
      /\ DOMAIN public'.data = Public
      /\ public'.data["context"] = Written(context)
      /\ public'.hashes = public.hashes
  BY <1>1 DEF ExportInv, Public
<1>3. IsFile(Written(context)) /\ Written(context).data = context
  BY DEF IsFile, Written
<1>4. design(context) = "secure" /\ Spent(context)
  <2>1. design(context) = "secure"
    BY DEF Approve, Started
  <2>2. PICK c \in consumed : c.id = context.id
    BY DEF Approve, Started
  <2>3. context \in Registered => context = c
    BY <2>2, RecordAssumption DEF FilesInv
  <2> QED  BY <2>1, <2>2, <2>3 DEF Spent
<1>5. \A f \in Bytes : IsFile(capture[f]) /\ capture[f].version = 0
  <2>1. capture["acquisition"] # None /\ \A f \in Bytes : capture[f] # None /\ f \in File
    BY DEF Approve, Present, File, Bytes
  <2>2. \A f \in Bytes : f \in Acquired
    BY <2>1 DEF FilesInv, AcquisitionInv, Acquired
  <2>3. \A f \in Bytes : capture[f] = Data("acquisition").artifacts[f]
    BY <2>2 DEF Approve, AsAcquired
  <2> QED  BY <2>1, <2>3 DEF FilesInv, AcquisitionInv
<1>6. IsFile(capture["recovered"]) /\ capture["recovered"].version = 0
  BY DEF Approve, Present, File, FilesInv
<1>7. CopyInv(capture', edits')
  BY <1>1, <1>5, <1>6 DEF CopyInv, Compared, Bytes, ExportInv, IsFile
<1> QED  BY <1>1, <1>2, <1>3, <1>4, <1>7 DEF ExportInv, Spent, design

LEMMA CopyExport == ExportInv /\ Copy => ExportInv'
<1> SUFFICES ASSUME ExportInv, Copy PROVE ExportInv'
  OBVIOUS
<1> DEFINE data == [f \in Public |-> IF f = "context" THEN public.data[f] ELSE capture[f]]
<1>1. /\ export = "copy" /\ export' = "seal"
      /\ public' = [public EXCEPT !.data = data]
      /\ UNCHANGED <<edits, rstep, consumed, capture>>
  BY DEF Copy, recordVars, buildVars, bench
<1>2. /\ DOMAIN data = Public
      /\ data["context"] = public.data["context"]
      /\ \A f \in Compared : data[f] = capture[f]
  BY DEF Public, Compared
<1> HIDE DEF data
<1>3. /\ public' = [data |-> public'.data, hashes |-> public'.hashes]
      /\ public'.data = data
      /\ public'.hashes = public.hashes
  BY <1>1 DEF ExportInv
<1>4. CopyInv(public'.data, edits')
  BY <1>1, <1>2, <1>3 DEF CopyInv, Compared, ExportInv, IsFile
<1> QED  BY <1>1, <1>2, <1>3, <1>4 DEF ExportInv, Spent, design, IsFile

LEMMA SealExport == ExportInv /\ Seal => ExportInv'
<1> SUFFICES ASSUME ExportInv, Seal PROVE ExportInv'
  OBVIOUS
<1>1. /\ export = "seal" /\ export' = "exported"
      /\ public' = [public EXCEPT !.hashes = public.data]
      /\ UNCHANGED <<edits, rstep, consumed, capture>>
  BY DEF Seal, recordVars, buildVars, bench
<1>2. public' = [data |-> public'.data, hashes |-> public'.hashes] /\ public'.data = public.data
  BY <1>1 DEF ExportInv
<1> QED  BY <1>1, <1>2 DEF ExportInv, CopyInv, Spent, design, IsFile
(* An edit adds one to one of the four versions at most, and one to edits. *)
LEMMA EditedCopy ==
  ASSUME ExportInv, NEW files, NEW edited, NEW f, CopyInv(files, edits), edits' = edits + 1,
         \A g \in Compared \ {f} : edited[g] = files[g],
         f \in Compared => IsFile(edited[f]) /\ edited[f].version = files[f].version + 1
  PROVE  CopyInv(edited, edits')
<1>1. \A g \in Compared :
        /\ files[g].version \in Nat /\ IsFile(edited[g])
        /\ edited[g].version = IF g = f THEN files[g].version + 1 ELSE files[g].version
  BY DEF CopyInv, IsFile
<1>2. Compared = {"reference", "cipher", "cp2102", "recovered"} /\ edits \in Nat
  BY DEF Compared, ExportInv
<1> QED  BY <1>1, <1>2 DEF CopyInv

LEMMA EditExport == FilesInv /\ ExportInv /\ EditFile => ExportInv'
<1> SUFFICES ASSUME FilesInv, ExportInv, EditFile PROVE ExportInv'
  OBVIOUS
<1>1. edits' = edits + 1 /\ UNCHANGED <<export, rstep, consumed>>
  BY Zenon DEF EditFile
<1>2. edits' \in Nat
  BY <1>1 DEF ExportInv
<1>3. ASSUME NEW files, CopyInv(files, edits)
      PROVE  CopyInv(files, edits')
  BY <1>1, <1>3 DEF CopyInv, Compared, IsFile, ExportInv
<1>4. ASSUME NEW f \in File, capture[f] # None, UNCHANGED public,
             capture' = [capture EXCEPT ![f].version = @ + 1,
               ![f].data = CASE f = "acquisition" -> [@ EXCEPT !.status = "CAPTURED", !.invalid = FALSE]
                             [] f = "comparison"  -> [@ EXCEPT !.status = "PASS", !.observed = TRUE]
                             [] OTHER -> @]
      PROVE  ExportInv'
  <2>1. /\ \A g \in File \ {f} : capture'[g] = capture[g]
        /\ IsFile(capture'[f]) /\ capture'[f].version = capture[f].version + 1
    BY <1>4, EditCounts
  <2>2. Compared \subseteq File
    BY DEF Compared, File
  <2>3. CopyInv(capture, edits) => CopyInv(capture', edits')
    BY <1>1, <2>1, <2>2, EditedCopy
  <2> QED  BY <1>1, <1>2, <1>3, <1>4, <2>3 DEF ExportInv, Spent, design, IsFile
<1>5. ASSUME NEW f \in Public, public.data[f] # None, UNCHANGED capture,
             public' = [public EXCEPT !.data[f].version = @ + 1]
      PROVE  ExportInv'
  <2> DEFINE edited == [public.data EXCEPT ![f].version = @ + 1]
  <2>1. /\ public' = [data |-> public'.data, hashes |-> public'.hashes]
        /\ public'.data = edited /\ public'.hashes = public.hashes
    BY <1>5 DEF ExportInv
  <2>2. /\ DOMAIN edited = Public
        /\ \A g \in Public \ {f} : edited[g] = public.data[g]
        /\ edited[f] = [public.data[f] EXCEPT !.version = @ + 1]
    BY DEF ExportInv
  <2> HIDE DEF edited
  <2>3. IsFile(public.data[f]) =>
          /\ IsFile(edited[f]) /\ edited[f].version = public.data[f].version + 1
          /\ edited[f].data = public.data[f].data
    <3> DEFINE d == public.data[f].data
               v == public.data[f].version + 1
    <3>1. IsFile(public.data[f]) => edited[f] = [data |-> d, version |-> v] /\ v \in Nat
      BY <2>2 DEF IsFile
    <3>2. [data |-> d, version |-> v].data = d /\ [data |-> d, version |-> v].version = v
      OBVIOUS
    <3> HIDE DEF d, v
    <3>3. v \in Nat => IsFile([data |-> d, version |-> v])
      BY <3>2 DEF IsFile
    <3>4. IsFile(public.data[f]) =>
            IsFile(edited[f]) /\ edited[f].version = v /\ edited[f].data = d
      BY <3>1, <3>2, <3>3
    <3> QED  BY <3>4 DEF d, v
  <2>4. CopyInv(public.data, edits) => CopyInv(public'.data, edits')
    <3>1. Compared \subseteq Public
      BY DEF Compared, Public
    <3>2. CopyInv(public.data, edits) /\ f \in Compared => IsFile(public.data[f])
      BY DEF CopyInv
    <3>3. CopyInv(public.data, edits) => CopyInv(edited, edits')
      BY <1>1, <2>2, <2>3, <3>1, <3>2, EditedCopy
    <3> QED  BY <2>1, <3>3
  <2>5. export # "none" => IsFile(edited["context"])
                           /\ edited["context"].data = public.data["context"].data
    BY <2>2, <2>3 DEF ExportInv, Public
  <2>6. (CopyInv(capture, edits) => CopyInv(capture', edits'))
    BY <1>3, <1>5
  <2> QED
    BY <1>1, <1>2, <2>1, <2>2, <2>4, <2>5, <2>6 DEF ExportInv, Spent, design, IsFile
<1> QED  BY <1>4, <1>5 DEF EditFile

LEMMA NextExport == FilesInv /\ ExportInv /\ [Next]_vars => ExportInv'
<1> SUFFICES ASSUME FilesInv, ExportInv, [Next]_vars PROVE ExportInv'
  OBVIOUS
<1>1. CASE BuildStep /\ UNCHANGED <<recordVars, evidenceVars>>
  <2>1. UNCHANGED edits
    BY <1>1 DEF BuildStep, LoadAndReserve, Render, Begin, Bind, Compile, Audit, Version, Run,
       finish, Verify, Break, bench
  <2> QED  BY <1>1, <2>1, ExportKept DEF recordVars, evidenceVars, exportVars
<1>2. CASE EditInput
  <2>1. edits' \in Nat /\ rstep # "exited" /\ UNCHANGED <<public, export>>
    BY <1>2 DEF EditInput, Edit, ExportInv
  <2> QED  BY <2>1, BeforeExport
<1>3. CASE EditLate /\ UNCHANGED <<recordVars, evidenceVars>>
  BY <1>3, LateExport
<1>4. CASE RecordStep /\ UNCHANGED <<public, export>>
  <2>1. rstep # "exited" /\ edits' \in {edits, 0} /\ UNCHANGED <<public, export>>
    BY <1>4 DEF RecordStep, Load, Check, Report, Claim, Arm, Turn, TimeUp, ReaderFailed, Join,
       InterruptJoin, Finalize, Exit, loopOnly, buildVars, bench
  <2> QED  BY <2>1, BeforeExport DEF ExportInv
<1>5. CASE ReaderStep /\ UNCHANGED <<public, export>>
  BY <1>5, ExportKept DEF ReaderStep, StartRecord, Poll, SeeStop, StopRecord, readerElse,
     buildVars, bench, exportVars
<1>6. CASE UNCHANGED vars
  BY <1>6, ExportKept DEF vars, buildVars, bench, recordVars, evidenceVars, exportVars
<1> QED
  BY <1>1, <1>2, <1>3, <1>4, <1>5, <1>6, AnalyzeExport, ApproveExport, CopyExport,
     SealExport, EditExport
     DEF Next, RecordNext

(* Three edits cannot make four files agree; those before the acquisition  *)
(* are not of its files.                                                   *)
Late == rstep \in {"loop", "join", "finalize", "recorded", "exited"}
FewInv == Late => edits \in 0 .. 3

LEMMA FewEdits ==
  ASSUME MAX_LATE \in 0 .. 3
  PROVE  Spec => []FewInv
<1>1. Init => FewInv
  BY DEF Init, RecordInit, FewInv, Late
<1>2. FewInv /\ [Next]_vars => FewInv'
  <2> SUFFICES ASSUME FewInv, [Next]_vars PROVE FewInv'
    OBVIOUS
  <2>1. CASE Arm
    BY <2>1 DEF Arm, FewInv
  <2>2. CASE EditLate \/ EditFile
    <3>1. rstep = "exited" /\ edits < MAX_LATE /\ edits' = edits + 1
      BY <2>2, Zenon DEF EditLate, EditFile
    <3> QED  BY <3>1 DEF FewInv, Late
  <2>3. CASE EditInput
    <3>1. rstep' = rstep /\ ~Late
      BY <2>3 DEF EditInput, recordVars, Late
    <3> QED  BY <3>1 DEF FewInv, Late
  <2>4. CASE Load \/ Check \/ Report \/ Claim
    BY <2>4 DEF Load, Check, Report, Claim, Refuse, FewInv, Late
  <2>5. CASE Turn \/ TimeUp \/ ReaderFailed \/ Join \/ InterruptJoin \/ Finalize \/ Exit
    <3>1. Late /\ UNCHANGED edits
      BY <2>5 DEF Turn, TimeUp, ReaderFailed, Join, InterruptJoin, Finalize, Exit, loopOnly,
         buildVars, bench, Late
    <3> QED  BY <3>1 DEF FewInv
  <2>6. CASE ReaderStep \/ (BuildStep /\ UNCHANGED recordVars)
    <3>1. UNCHANGED <<rstep, edits>>
      BY <2>6 DEF ReaderStep, StartRecord, Poll, SeeStop, StopRecord, readerElse, buildVars,
         BuildStep, LoadAndReserve, Render, Begin, Bind, Compile, Audit, Version, Run, finish,
         Verify, Break, bench, recordVars
    <3> QED  BY <3>1 DEF FewInv, Late
  <2>7. CASE Analyze \/ Approve \/ Copy \/ Seal \/ UNCHANGED vars
    <3>1. UNCHANGED <<rstep, edits>>
      BY <2>7 DEF Analyze, Approve, Copy, Seal, vars, buildVars, bench, recordVars
    <3> QED  BY <3>1 DEF FewInv, Late
  <2> QED
    BY <2>1, <2>2, <2>3, <2>4, <2>5, <2>6, <2>7 DEF Next, RecordNext, RecordStep
<1> QED  BY <1>1, <1>2, PTL DEF Spec

(* An export that verifies (export and check_export of                     *)
(* publish_experiment.py) is the approved capture, made with the context   *)
(* it publishes on the board, whichever files are changed and whenever,    *)
(* for any contexts and samples; and no capture can be started for that    *)
(* context any more: the registry has it as started, or it is an altered   *)
(* copy that no registry has.  Check_export compares the four files with   *)
(* each other, so only an operator who changes all four of them after the  *)
(* approval could make an altered export verify: the theorem is for up to  *)
(* three edits once the acquisition has the hardware, any number before.   *)
THEOREM VerifiedExportIsTheCapture ==
  ASSUME MAX_LATE \in 0 .. 3
  PROVE  Spec => []ExportIsTheCapture
<1>1. ExportInv /\ FewInv => ExportIsTheCapture
  <2> SUFFICES ASSUME ExportInv, FewInv, check_export
               PROVE  LET c == public.data["context"].data IN
                      /\ \A f \in Public \ {"context"} : public.data[f].version = 0
                      /\ c \notin Registered \ consumed /\ board = c
                      /\ public.data["reference"].data = public.data["cipher"].data
    BY DEF ExportIsTheCapture
  <2> DEFINE data == public.data
             c == public.data["context"].data
  <2>1. export = "exported" /\ CopyInv(data, edits) /\ design(c) = "secure"
       /\ c \notin Registered \ consumed
    BY DEF check_export, ExportInv, Spent
  <2>2. /\ data["cipher"].version = data["reference"].version
        /\ data["recovered"].version = data["reference"].version
        /\ data["cp2102"].version = data["reference"].version
        /\ Recovered(data["cipher"].data, c) = data["reference"].data
        /\ data["reference"].data \in Window
    BY DEF check_export
  <2>3. \A f \in Compared : data[f].version = 0
    <3> DEFINE v == data["reference"].version
    <3>1. v \in Nat
      BY <2>1 DEF CopyInv, Compared, IsFile
    <3>2. v + v + v + v <= edits
      BY <2>1, <2>2 DEF CopyInv
    <3>3. edits \in 0 .. 3
      BY <2>1 DEF ExportInv, FewInv, Late
    <3> HIDE DEF v
    <3>4. v = 0
      BY <3>1, <3>2, <3>3
    <3> QED  BY <2>2, <3>4 DEF v, Compared
  <2>4. data["reference"].data = data["cipher"].data /\ board = c
    BY <2>1, <2>2, SentenceIsRecovered
  <2> QED  BY <2>1, <2>3, <2>4 DEF Public, Compared
<1>2. Init => BuildInv /\ ClaimInv /\ CleanInv /\ FilesInv /\ ExportInv
  BY InitBuild, InitClaim, InitClean, InitFiles, InitExport
<1>3. BuildInv /\ ClaimInv /\ CleanInv /\ FilesInv /\ ExportInv /\ [Next]_vars
        => (BuildInv /\ ClaimInv /\ CleanInv /\ FilesInv /\ ExportInv)'
  BY NextBuild, NextClaim, NextClean, NextFiles, NextExport
<1> QED
  BY <1>1, <1>2, <1>3, FewEdits, PTL DEF Spec
-----------------------------------------------------------------------------
(* Induction over the naturals, for a set: what holds of 0 and passes from *)
(* each number to the next.                                                *)
LEMMA Induction ==
  ASSUME NEW S, 0 \in S, \A n \in Nat : n \in S => n + 1 \in S
  PROVE  Nat \subseteq S
<1> SUFFICES ASSUME Nat \ S # {} PROVE FALSE
  OBVIOUS
<1> DEFINE R == OpToRel(<, Nat)
<1>1. IsWellFoundedOn(R, Nat)
  BY NatLessThanWellFounded
<1>2. PICK x \in Nat \ S : \A y \in Nat \ S : ~(<<y, x>> \in R)
  <2> HIDE DEF R
  <2> QED  BY <1>1, WFMin, Zenon
<1>3. x # 0 /\ x - 1 \in Nat \ S /\ x - 1 < x
  OBVIOUS
<1>4. <<x - 1, x>> \in R
  BY <1>3 DEF OpToRel
<1> QED  BY <1>2, <1>3, <1>4

(* The recursion of FlattenSeq has a solution for every length. *)
LEMMA FlattenDefined ==
  ASSUME NEW s, NEW n \in Nat
  PROVE  \E g : g = [i \in 1 .. n |-> IF i = 1 THEN s[i] ELSE g[i - 1] \o s[i]]
<1> DEFINE Solved(k) == \E g : g = [i \in 1 .. k |-> IF i = 1 THEN s[i] ELSE g[i - 1] \o s[i]]
           S == {k \in Nat : Solved(k)}
<1>1. Solved(0)
  <2> DEFINE g == [i \in 1 .. 0 |-> s[i]]
  <2>1. g = [i \in 1 .. 0 |-> IF i = 1 THEN s[i] ELSE g[i - 1] \o s[i]]
    OBVIOUS
  <2> HIDE DEF g
  <2> QED  BY <2>1
<1>2. ASSUME NEW k \in Nat, Solved(k) PROVE Solved(k + 1)
  <2>1. PICK g : g = [i \in 1 .. k |-> IF i = 1 THEN s[i] ELSE g[i - 1] \o s[i]]
    BY <1>2
  <2>6. \A i \in 1 .. k : g[i] = IF i = 1 THEN s[i] ELSE g[i - 1] \o s[i]
    BY <2>1
  <2> DEFINE h == [i \in 1 .. k + 1 |-> IF i <= k THEN g[i]
                                        ELSE IF i = 1 THEN s[i] ELSE g[i - 1] \o s[i]]
  <2>2. \A i \in 1 .. k + 1 : h[i] = IF i = 1 THEN s[i] ELSE h[i - 1] \o s[i]
    <3> SUFFICES ASSUME NEW i \in 1 .. k + 1
                 PROVE  h[i] = IF i = 1 THEN s[i] ELSE h[i - 1] \o s[i]
      OBVIOUS
    <3>1. CASE i <= k
      <4>1. h[i] = g[i] /\ g[i] = IF i = 1 THEN s[i] ELSE g[i - 1] \o s[i]
        BY <2>6, <3>1
      <4>2. i # 1 => i - 1 \in 1 .. k + 1 /\ h[i - 1] = g[i - 1]
        BY <3>1
      <4> QED  BY <4>1, <4>2
    <3>2. CASE i = k + 1
      <4>1. h[i] = IF i = 1 THEN s[i] ELSE g[i - 1] \o s[i]
        BY <3>2
      <4>2. i # 1 => i - 1 \in 1 .. k + 1 /\ h[i - 1] = g[i - 1]
        BY <3>2
      <4> QED  BY <4>1, <4>2
    <3> QED  BY <3>1, <3>2
  <2>3. h = [i \in 1 .. k + 1 |-> h[i]]
    OBVIOUS
  <2> HIDE DEF h
  <2>4. h = [i \in 1 .. k + 1 |-> IF i = 1 THEN s[i] ELSE h[i - 1] \o s[i]]
    BY <2>2, <2>3
  <2> QED  BY <2>4, Zenon
<1> HIDE DEF Solved
<1>3. 0 \in S /\ \A k \in Nat : k \in S => k + 1 \in S
  BY <1>1, <1>2
<1>4. Nat \subseteq S => Solved(n)
  OBVIOUS
<1> HIDE DEF S
<1>5. Solved(n)
  BY <1>3, <1>4, Induction
<1> QED  BY <1>5 DEF Solved

(* What it yields, piece by piece. *)
LEMMA FlattenUnfolds ==
  ASSUME NEW T, NEW s \in Seq(Seq(T)), s # <<>>
  PROVE  \E g : /\ \A i \in 1 .. Len(s) :
                     g[i] \in Seq(T) /\ g[i] = IF i = 1 THEN s[i] ELSE g[i - 1] \o s[i]
                /\ FlattenSeq(s) = g[Len(s)]
<1> DEFINE g == CHOOSE f : f = [i \in 1 .. Len(s) |-> IF i = 1 THEN s[i] ELSE f[i - 1] \o s[i]]
<1>1. Len(s) \in Nat /\ Len(s) # 0 /\ \A i \in 1 .. Len(s) : s[i] \in Seq(T)
  BY EmptySeq
<1>2. g = [i \in 1 .. Len(s) |-> IF i = 1 THEN s[i] ELSE g[i - 1] \o s[i]]
  BY <1>1, FlattenDefined, Zenon
<1>3. FlattenSeq(s) = g[Len(s)]
  BY <1>1 DEF FlattenSeq
<1> HIDE DEF g
<1>4. \A i \in 1 .. Len(s) : g[i] = IF i = 1 THEN s[i] ELSE g[i - 1] \o s[i]
  BY <1>2
<1> DEFINE S == {k \in Nat : k + 1 \in 1 .. Len(s) => g[k + 1] \in Seq(T)}
<1>5. 0 \in S
  BY <1>1, <1>4
<1>6. ASSUME NEW k \in Nat, k \in S PROVE k + 1 \in S
  <2> SUFFICES ASSUME k + 2 \in 1 .. Len(s) PROVE g[k + 2] \in Seq(T)
    BY <1>1
  <2>1. g[k + 1] \in Seq(T) /\ s[k + 2] \in Seq(T)
    BY <1>1, <1>6
  <2>2. g[k + 2] = g[k + 1] \o s[k + 2]
    <3>1. k + 2 # 1 /\ (k + 2) - 1 = k + 1
      OBVIOUS
    <3> QED  BY <1>4, <3>1
  <2> QED  BY <2>1, <2>2
<1> HIDE DEF S
<1>7. Nat \subseteq S
  BY <1>5, <1>6, Induction
<1>8. \A i \in 1 .. Len(s) : g[i] \in Seq(T)
  <2> SUFFICES ASSUME NEW i \in 1 .. Len(s) PROVE g[i] \in Seq(T)
    OBVIOUS
  <2>1. i - 1 \in S /\ (i - 1) + 1 = i
    BY <1>1, <1>7
  <2> QED  BY <2>1 DEF S
<1> QED  BY <1>3, <1>4, <1>8

LEMMA FlattenEmpty == FlattenSeq(<<>>) = <<>>
BY DEF FlattenSeq

LEMMA FlattenAppend ==
  ASSUME NEW T, NEW s \in Seq(Seq(T)), NEW c \in Seq(T)
  PROVE  FlattenSeq(Append(s, c)) = FlattenSeq(s) \o c
<1> DEFINE t == Append(s, c)
<1>1. /\ Len(t) = Len(s) + 1 /\ Len(s) \in Nat /\ t \in Seq(Seq(T)) /\ t # <<>>
      /\ \A i \in 1 .. Len(s) : t[i] = s[i]
      /\ t[Len(s) + 1] = c
  BY EmptySeq, SMTT(30)
<1> HIDE DEF t
<1>2. PICK h : /\ \A i \in 1 .. Len(t) :
                    h[i] \in Seq(T) /\ h[i] = IF i = 1 THEN t[i] ELSE h[i - 1] \o t[i]
               /\ FlattenSeq(t) = h[Len(t)]
  BY <1>1, FlattenUnfolds
<1>3. CASE s = <<>>
  <2>1. FlattenSeq(t) = c
    BY <1>1, <1>2, <1>3
  <2> QED  BY <1>3, <2>1, FlattenEmpty DEF t
<1>4. CASE s # <<>>
  <2>1. PICK g : /\ \A i \in 1 .. Len(s) :
                      g[i] \in Seq(T) /\ g[i] = IF i = 1 THEN s[i] ELSE g[i - 1] \o s[i]
                 /\ FlattenSeq(s) = g[Len(s)]
    BY <1>4, FlattenUnfolds
  <2> DEFINE S == {k \in Nat : k + 1 \in 1 .. Len(s) => g[k + 1] = h[k + 1]}
  <2>2. 0 \in S
    BY <1>1, <1>2, <2>1
  <2>3. ASSUME NEW k \in Nat, k \in S PROVE k + 1 \in S
    <3> SUFFICES ASSUME k + 2 \in 1 .. Len(s) PROVE g[k + 2] = h[k + 2]
      OBVIOUS
    <3>1. k + 2 # 1 /\ (k + 2) - 1 = k + 1 /\ k + 1 \in 1 .. Len(s) /\ k + 2 \in 1 .. Len(t)
      BY <1>1
    <3>2. g[k + 2] = g[k + 1] \o s[k + 2] /\ h[k + 2] = h[k + 1] \o t[k + 2]
      BY <1>2, <2>1, <3>1
    <3> QED  BY <1>1, <2>3, <3>1, <3>2
  <2>4. Nat \subseteq S => g[Len(s)] = h[Len(s)]
    <3>1. Len(s) - 1 \in Nat /\ (Len(s) - 1) + 1 = Len(s) /\ Len(s) \in 1 .. Len(s)
      BY <1>1, <1>4, EmptySeq
    <3> QED  BY <3>1
  <2> HIDE DEF S
  <2>5. g[Len(s)] = h[Len(s)]
    BY <2>2, <2>3, <2>4, Induction
  <2>6. h[Len(t)] = h[Len(s)] \o c
    <3>1. Len(t) # 1 /\ Len(t) - 1 = Len(s) /\ Len(t) \in 1 .. Len(t)
      BY <1>1, <1>4, EmptySeq
    <3> QED  BY <1>1, <1>2, <3>1
  <2> QED  BY <1>2, <2>1, <2>5, <2>6 DEF t
<1> QED  BY <1>3, <1>4

LEMMA FlattenHead ==
  ASSUME NEW T, NEW s \in Seq(Seq(T)), s # <<>>
  PROVE  FlattenSeq(s) = Head(s) \o FlattenSeq(Tail(s))
<1> DEFINE t == Tail(s)
           c == Head(s)
<1>1. /\ Len(t) = Len(s) - 1 /\ Len(s) \in Nat /\ t \in Seq(Seq(T)) /\ c \in Seq(T)
      /\ \A i \in 1 .. Len(t) : t[i] = s[i + 1]
      /\ s[1] = c /\ Len(s) # 0
  BY EmptySeq
<1> HIDE DEF t, c
<1>2. PICK g : /\ \A i \in 1 .. Len(s) :
                    g[i] \in Seq(T) /\ g[i] = IF i = 1 THEN s[i] ELSE g[i - 1] \o s[i]
               /\ FlattenSeq(s) = g[Len(s)]
  BY FlattenUnfolds
<1>3. CASE t = <<>>
  <2>1. Len(s) = 1
    BY <1>1, <1>3
  <2>2. FlattenSeq(s) = c
    BY <1>1, <1>2, <2>1
  <2>3. c \o <<>> = c
    BY <1>1
  <2> QED  BY <1>3, <2>2, <2>3, FlattenEmpty DEF t, c
<1>4. CASE t # <<>>
  <2>1. PICK h : /\ \A i \in 1 .. Len(t) :
                      h[i] \in Seq(T) /\ h[i] = IF i = 1 THEN t[i] ELSE h[i - 1] \o t[i]
                 /\ FlattenSeq(t) = h[Len(t)]
    BY <1>1, <1>4, FlattenUnfolds
  <2>2. Len(t) \in Nat \ {0} /\ Len(s) = Len(t) + 1
    <3>1. Len(t) \in Nat /\ Len(t) # 0
      BY <1>1, <1>4, EmptySeq
    <3> QED  BY <1>1, <3>1
  <2> DEFINE S == {k \in Nat : k + 1 \in 1 .. Len(t) => g[k + 2] = c \o h[k + 1]}
  <2>3. 0 \in S
    <3>1. h[1] = t[1] /\ t[1] = s[2] /\ g[1] = c
      BY <1>1, <1>2, <2>1, <2>2
    <3>2. 2 \in 1 .. Len(s) /\ 2 - 1 = 1 /\ 2 # 1
      BY <2>2
    <3>3. g[2] = g[1] \o s[2]
      BY <1>2, <3>2
    <3>4. g[2] = c \o h[1]
      BY <3>1, <3>3, Zenon
    <3> QED  BY <3>4
  <2>4. ASSUME NEW k \in Nat, k \in S PROVE k + 1 \in S
    <3> SUFFICES ASSUME k + 2 \in 1 .. Len(t) PROVE g[k + 3] = c \o h[k + 2]
      OBVIOUS
    <3>1. /\ k + 2 # 1 /\ (k + 2) - 1 = k + 1 /\ k + 1 \in 1 .. Len(t)
          /\ k + 3 # 1 /\ (k + 3) - 1 = k + 2 /\ k + 3 \in 1 .. Len(s)
          /\ (k + 2) + 1 = k + 3
      BY <2>2
    <3>2. h[k + 2] = h[k + 1] \o t[k + 2] /\ g[k + 3] = g[k + 2] \o s[k + 3]
      BY <1>2, <2>1, <3>1
    <3>3. g[k + 2] = c \o h[k + 1] /\ t[k + 2] = s[k + 3]
      BY <1>1, <2>4, <3>1
    <3>4. h[k + 1] \in Seq(T) /\ t[k + 2] \in Seq(T)
      BY <1>1, <2>1, <3>1
    <3>5. (c \o h[k + 1]) \o t[k + 2] = c \o (h[k + 1] \o t[k + 2])
      <4>1. c \in Seq(T)
        BY <1>1
      <4> DEFINE y == h[k + 1]
                 z == t[k + 2]
      <4>2. y \in Seq(T) /\ z \in Seq(T)
        BY <3>4
      <4> HIDE DEF y, z, S
      <4>3. (c \o y) \o z = c \o (y \o z)
        BY <4>1, <4>2, ConcatAssociative, SMTT(40)
      <4> QED  BY <4>3 DEF y, z
    <3> QED  BY <3>2, <3>3, <3>5
  <2>5. Nat \subseteq S => g[Len(s)] = c \o h[Len(t)]
    <3>1. Len(t) - 1 \in Nat /\ (Len(t) - 1) + 1 = Len(t) /\ (Len(t) - 1) + 2 = Len(s)
          /\ Len(t) \in 1 .. Len(t)
      BY <2>2
    <3> QED  BY <3>1
  <2> HIDE DEF S
  <2>6. g[Len(s)] = c \o h[Len(t)]
    BY <2>3, <2>4, <2>5, Induction
  <2> QED  BY <1>2, <2>1, <2>6 DEF t, c
<1> QED  BY <1>3, <1>4

LEMMA FlattenType ==
  ASSUME NEW T, NEW s \in Seq(Seq(T))
  PROVE  FlattenSeq(s) \in Seq(T)
<1>1. CASE s = <<>>
  <2>1. FlattenSeq(s) = <<>>
    BY <1>1, FlattenEmpty, Zenon
  <2> QED  BY <2>1
<1>2. CASE s # <<>>
  <2>1. PICK g : /\ \A i \in 1 .. Len(s) :
                      g[i] \in Seq(T) /\ g[i] = IF i = 1 THEN s[i] ELSE g[i - 1] \o s[i]
                 /\ FlattenSeq(s) = g[Len(s)]
    BY <1>2, FlattenUnfolds
  <2>2. Len(s) \in 1 .. Len(s)
    BY <1>2, EmptySeq
  <2> QED  BY <2>1, <2>2
<1> QED  BY <1>1, <1>2

-----------------------------------------------------------------------------
LEMMA ChunkPositions ==
  ASSUME NEW from \in Nat, NEW n \in Nat
  PROVE  /\ Positions(from, n) \in Seq(Nat)
         /\ Len(Positions(from, n)) = n
         /\ Positions(0, from) \o Positions(from, n) = Positions(0, from + n)
<1>1. /\ Positions(0, from) \in Seq(Nat) /\ Len(Positions(0, from)) = from
      /\ Positions(from, n) \in Seq(Nat) /\ Len(Positions(from, n)) = n
      /\ Positions(0, from + n) \in Seq(Nat) /\ Len(Positions(0, from + n)) = from + n
  BY DEF Positions
<1>2. \A i \in 1 .. from + n :
        (Positions(0, from) \o Positions(from, n))[i] = Positions(0, from + n)[i]
  BY <1>1 DEF Positions
<1> DEFINE p == Positions(0, from)
           q == Positions(from, n)
           r == Positions(0, from + n)
<1>3. p \o q \in Seq(Nat) /\ Len(p \o q) = Len(r)
  <2>1. p \in Seq(Nat) /\ q \in Seq(Nat) /\ Len(p) = from /\ Len(q) = n /\ Len(r) = from + n
    BY <1>1
  <2> HIDE DEF p, q, r
  <2> QED  BY <2>1, SMTT(30)
<1>4. p \o q = r
  <2>1. r \in Seq(Nat) /\ Len(r) = from + n /\ \A i \in 1 .. from + n : (p \o q)[i] = r[i]
    BY <1>1, <1>2
  <2> HIDE DEF p, q, r
  <2> QED  BY <1>3, <2>1, SeqEqual
<1> QED  BY <1>1, <1>4

(* While the reader reads, everything it has read is in samples.bin or in  *)
(* the queue.  What an error cuts off comes after everything that is.      *)
Taken == raw \o FlattenSeq(queue)

SampleInv ==
  /\ read \in Nat
  /\ raw \in Seq(Nat) /\ queue \in Seq(Seq(Nat))
  /\ Taken = Positions(0, Len(Taken))
  /\ reader \in {"none", "start", "poll"} => Len(Taken) = read
  /\ rstep \in {"new", "check", "report", "claim", "arm", "refused"} => reader = "none"

sampleVars == <<read, raw, queue, reader, rstep>>

LEMMA TakenType == SampleInv => Taken \in Seq(Nat) /\ Len(Taken) \in Nat
BY FlattenType DEF SampleInv, Taken

LEMMA NothingTaken == <<>> \o FlattenSeq(<<>>) = Positions(0, 0)
BY FlattenEmpty DEF Positions

LEMMA EmptySample ==
  ASSUME read = 0, raw = <<>>, queue = <<>>, reader = "none"
  PROVE  SampleInv
<1>1. Taken = Positions(0, 0) /\ Len(Positions(0, 0)) = 0
  BY NothingTaken DEF Taken, Positions
<1>2. <<>> \in Seq(Nat) /\ <<>> \in Seq(Seq(Nat))
  OBVIOUS
<1> HIDE DEF Taken
<1> QED  BY <1>1, <1>2 DEF SampleInv

LEMMA InitSample == Init => SampleInv
BY EmptySample DEF Init, RecordInit

LEMMA SampleKept ==
  ASSUME SampleInv, UNCHANGED <<read, raw, queue>>,
         reader' = reader \/ reader' \notin {"none", "start", "poll"}
           \/ reader \in {"none", "start"},
         rstep' \in {"new", "check", "report", "claim", "arm", "refused"} => reader' = "none"
  PROVE  SampleInv'
BY DEF SampleInv, Taken

LEMMA PutSample ==
  ASSUME SampleInv, reader = "poll", NEW n \in Nat,
         read' = read + n, queue' = Append(queue, Positions(read, n)),
         UNCHANGED <<raw, reader, rstep>>
  PROVE  SampleInv'
<1>1. /\ Taken \in Seq(Nat) /\ Taken = Positions(0, read) /\ read \in Nat
      /\ raw \in Seq(Nat) /\ queue \in Seq(Seq(Nat))
  BY TakenType DEF SampleInv
<1> DEFINE c == Positions(read, n)
<1>2. c \in Seq(Nat) /\ Len(c) = n /\ Positions(0, read) \o c = Positions(0, read + n)
      /\ Len(Positions(0, read + n)) = read + n
  BY <1>1, ChunkPositions DEF Positions
<1> HIDE DEF c
<1>3. FlattenSeq(queue') = FlattenSeq(queue) \o c
  BY <1>1, <1>2, FlattenAppend DEF c
<1>4. raw \o (FlattenSeq(queue) \o c) = (raw \o FlattenSeq(queue)) \o c
  <2>1. FlattenSeq(queue) \in Seq(Nat)
    BY <1>1, FlattenType
  <2> DEFINE f == FlattenSeq(queue)
  <2> HIDE DEF f
  <2>2. raw \in Seq(Nat) /\ c \in Seq(Nat) /\ f \in Seq(Nat)
    BY <1>1, <1>2, <2>1 DEF f
  <2>3. raw \o (f \o c) = (raw \o f) \o c
    BY <2>2, ConcatAssociative, SMTT(40)
  <2> QED  BY <2>3 DEF f
<1>5. Taken' = Positions(0, read + n)
  BY <1>1, <1>2, <1>3, <1>4 DEF Taken
<1>6. queue' \in Seq(Seq(Nat))
  BY <1>1, <1>2 DEF c
<1>7. Len(Taken') = read' /\ Taken' = Positions(0, Len(Taken')) /\ read' \in Nat
  <2>1. Len(Taken') = read + n
    BY <1>2, <1>5, Zenon
  <2>2. Taken' = Positions(0, Len(Taken'))
    BY <1>5, <2>1, Zenon
  <2> QED  BY <1>1, <2>1, <2>2
<1> QED  BY <1>1, <1>6, <1>7 DEF SampleInv

LEMMA TurnSample == SampleInv /\ Turn => SampleInv'
<1> SUFFICES ASSUME SampleInv, Turn PROVE SampleInv'
  OBVIOUS
<1>1. /\ rstep = "loop" /\ UNCHANGED <<reader, read>>
      /\ rstep' \in {"loop", "join"}
  BY DEF Turn, thread, LoopFails, Leave
<1>2. raw \in Seq(Nat) /\ queue \in Seq(Seq(Nat))
  BY DEF SampleInv
<1>3. CASE queue = <<>>
  <2>1. queue' = queue /\ raw' = raw \o <<>>
    BY <1>3 DEF Turn
  <2>2. raw' = raw
    BY <1>2, <2>1
  <2> QED  BY <1>1, <2>1, <2>2, SampleKept
<1>4. CASE queue # <<>>
  <2>1. queue' = Tail(queue) /\ raw' = raw \o Head(queue)
    BY <1>4 DEF Turn
  <2> DEFINE h == Head(queue)
             f == FlattenSeq(Tail(queue))
  <2>2. h \in Seq(Nat) /\ Tail(queue) \in Seq(Seq(Nat))
    BY <1>2, <1>4, EmptySeq
  <2>3. f \in Seq(Nat) /\ FlattenSeq(queue) = h \o f
    BY <1>2, <1>4, <2>2, FlattenType, FlattenHead
  <2> HIDE DEF h, f
  <2>4. (raw \o h) \o f = raw \o (h \o f)
    BY <1>2, <2>2, <2>3, ConcatAssociative, SMTT(40)
  <2>5. Taken' = Taken
    BY <2>1, <2>3, <2>4 DEF Taken, h, f
  <2>6. raw' \in Seq(Nat) /\ queue' \in Seq(Seq(Nat))
    BY <1>2, <2>1, <2>2 DEF h
  <2> QED  BY <1>1, <2>5, <2>6 DEF SampleInv
<1> QED  BY <1>3, <1>4

LEMMA ReaderSample == SampleInv /\ ReaderStep => SampleInv'
<1> SUFFICES ASSUME SampleInv, ReaderStep PROVE SampleInv'
  OBVIOUS
<1>1. UNCHANGED <<raw, rstep>> /\ reader \in {"start", "poll", "stopping"}
  BY DEF ReaderStep, StartRecord, Poll, SeeStop, StopRecord, readerElse, gathered
<1>2. rstep \notin {"new", "check", "report", "claim", "arm", "refused"}
  BY <1>1 DEF SampleInv
<1>3. CASE StartRecord \/ SeeStop \/ StopRecord
  BY <1>1, <1>2, <1>3, SampleKept DEF StartRecord, SeeStop, StopRecord, Raise
<1>4. CASE Poll
  <2>1. CASE UNCHANGED <<read, queue>> /\ reader' = "stopping"
    BY <1>1, <1>2, <2>1, SampleKept
  <2>2. ASSUME NEW n \in CHUNKS, read' = read + n, Put(Positions(read, n))
        PROVE  SampleInv'
    <3>1. n \in Nat
      BY ChunksAssumption
    <3>2. CASE queue' = Append(queue, Positions(read, n)) /\ reader' = reader
      BY <1>1, <1>4, <2>2, <3>1, <3>2, PutSample DEF Poll
    <3>3. CASE UNCHANGED queue /\ reader' = "stopping"
      BY <1>1, <1>2, <2>2, <3>1, <3>3 DEF SampleInv, Taken
    <3> QED  BY <2>2, <3>2, <3>3 DEF Put, Raise
  <2> QED  BY <1>4, <2>1, <2>2 DEF Poll, Lose, Raise
<1> QED  BY <1>3, <1>4 DEF ReaderStep

(* What comes after an acquisition writes none of its variables. *)
LEMMA LaterKeepsRecord ==
  UNCHANGED recordVars \/ Analyze \/ EditFile \/ Approve \/ Copy \/ Seal =>
    UNCHANGED <<rstep, read, raw, queue, stream, reader, rstatus, decoders, preflight, ready>>
<1>1. UNCHANGED recordVars \/ Approve \/ Copy \/ Seal => UNCHANGED recordVars
  BY DEF Approve, Copy, Seal
<1>2. Analyze \/ EditFile =>
        UNCHANGED <<rstep, read, raw, queue, stream, reader, rstatus, decoders, preflight, ready>>
  BY Zenon DEF Analyze, EditFile, thread, gathered
<1> QED  BY <1>1, <1>2 DEF recordVars

LEMMA NextSample == SampleInv /\ [Next]_vars => SampleInv'
<1> SUFFICES ASSUME SampleInv, [Next]_vars PROVE SampleInv'
  OBVIOUS
<1>1. CASE Turn
  BY <1>1, TurnSample
<1>2. CASE ReaderStep
  BY <1>2, ReaderSample
<1>3. CASE Arm
  BY <1>3, SampleKept DEF Arm, SetupFails, SampleInv
<1>4. CASE Load \/ Check \/ Report \/ Claim
  BY <1>4, SampleKept DEF Load, Check, Report, Claim, Refuse, thread, gathered, SampleInv
<1>5. CASE TimeUp \/ ReaderFailed \/ Join \/ InterruptJoin \/ Finalize
  <2>1. /\ UNCHANGED <<read, raw, queue, reader>>
        /\ rstep' \in {"join", "finalize", "recorded"}
    BY <1>5 DEF TimeUp, ReaderFailed, Join, InterruptJoin, Finalize, LoopFails, Leave,
       loopOnly, thread, gathered
  <2> QED  BY <2>1, SampleKept
<1>6. CASE Exit
  <2>1. read' = 0 /\ raw' = <<>> /\ queue' = <<>> /\ reader' = "none"
    BY <1>6 DEF Exit
  <2>2. (read = 0 /\ raw = <<>> /\ queue = <<>> /\ reader = "none" => SampleInv)'
    BY EmptySample, PTL
  <2> QED  BY <2>1, <2>2
<1>7. CASE UNCHANGED recordVars \/ Analyze \/ EditFile \/ Approve \/ Copy \/ Seal
  BY <1>7, LaterKeepsRecord, SampleKept DEF SampleInv
<1> QED
  BY <1>1, <1>2, <1>3, <1>4, <1>5, <1>6, <1>7 DEF Next, RecordNext, RecordStep, vars, EditInput

(* Every sample that is written or queued is the next one (the reader and  *)
(* the main loop of record in ad2_live_capture.py), for any chunk lengths, *)
(* any bound of the queue and any interleaving, errors included.           *)
THEOREM SamplesKeepOrder == Spec => []SamplesInOrder
<1>1. SampleInv => SamplesInOrder
  BY DEF SampleInv, Taken, SamplesInOrder
<1> QED
  BY <1>1, InitSample, NextSample, PTL DEF Spec
-----------------------------------------------------------------------------
(* The decoder of one line, field by field. *)
DecoderSet ==
  [offset : Nat, previous : {0, 1, Idle}, high_since : Nat, start : Nat \cup {Idle},
   stage : 0 .. STOP, value : Int, data : Seq(Int), starts : Seq(Nat),
   framing_errors : Nat, false_starts : Nat]

(* No turn of the loop is left in a run that ends before b. *)
Waiting(d, b) == d.start = Idle \/ sample(d) >= b

LEMMA StopType == STOP \in Nat /\ STOP >= 2
BY DecoderAssumption DEF STOP

LEMMA SampleType ==
  ASSUME NEW d \in DecoderSet, d.start # Idle
  PROVE  sample(d) \in Int
BY StopType, DecoderAssumption, SMTT(30) DEF DecoderSet, sample

LEMMA SetField ==
  ASSUME NEW d \in DecoderSet
  PROVE  /\ \A x \in Nat : [d EXCEPT !.offset = x] \in DecoderSet
         /\ \A x \in {0, 1} : [d EXCEPT !.previous = x] \in DecoderSet
         /\ \A x \in Nat : [d EXCEPT !.high_since = x] \in DecoderSet
         /\ \A x \in Nat \cup {Idle} : [d EXCEPT !.start = x] \in DecoderSet
         /\ \A x \in 0 .. STOP : [d EXCEPT !.stage = x] \in DecoderSet
         /\ \A x \in Int : [d EXCEPT !.value = x] \in DecoderSet
         /\ \A x \in Seq(Int) : [d EXCEPT !.data = x] \in DecoderSet
         /\ \A x \in Seq(Nat) : [d EXCEPT !.starts = x] \in DecoderSet
         /\ \A x \in Nat : [d EXCEPT !.framing_errors = x] \in DecoderSet
         /\ \A x \in Nat : [d EXCEPT !.false_starts = x] \in DecoderSet
BY DEF DecoderSet

(* What one turn of the loop does when it does not wait. *)
FalseStart(d) == [[d EXCEPT !.false_starts = d.false_starts + 1] EXCEPT !.start = Idle]
Received(d) ==
  [[[d EXCEPT !.data = Append(d.data, d.value)] EXCEPT !.starts = Append(d.starts, d.start)]
    EXCEPT !.start = Idle]
BadStop(d) == [[d EXCEPT !.framing_errors = d.framing_errors + 1] EXCEPT !.start = Idle]
NextStage(d, level) ==
  [[d EXCEPT !.stage = d.stage + 1]
    EXCEPT !.value = IF d.stage = 0 THEN d.value ELSE d.value + level * 2^(d.stage - 1)]

LEMMA SampleBitCases ==
  ASSUME NEW d \in DecoderSet, NEW b, NEW level
  PROVE  \/ Waiting(d, b) /\ SampleBit(d, b, level) = d
         \/ /\ ~Waiting(d, b)
            /\ \/ SampleBit(d, b, level) = FalseStart(d)
               \/ SampleBit(d, b, level) = Received(d)
               \/ SampleBit(d, b, level) = BadStop(d)
               \/ d.stage # STOP /\ SampleBit(d, b, level) = NextStage(d, level)
<1>1. [d EXCEPT !.false_starts = @ + 1, !.start = Idle] = FalseStart(d)
  BY DEF DecoderSet, FalseStart
<1>2. [d EXCEPT !.data = Append(@, d.value), !.starts = Append(@, d.start), !.start = Idle]
        = Received(d)
  BY DEF DecoderSet, Received
<1>3. [d EXCEPT !.framing_errors = @ + 1, !.start = Idle] = BadStop(d)
  BY DEF DecoderSet, BadStop
<1>4. [d EXCEPT !.stage = @ + 1,
                !.value = IF d.stage = 0 THEN @ ELSE @ + level * 2^(d.stage - 1)]
        = NextStage(d, level)
  BY DEF DecoderSet, NextStage
<1> QED  BY <1>1, <1>2, <1>3, <1>4, Zenon DEF SampleBit, Waiting

LEMMA SampleBitType ==
  ASSUME NEW d \in DecoderSet, NEW b, NEW level \in {0, 1}
  PROVE  SampleBit(d, b, level) \in DecoderSet
<1>1. FalseStart(d) \in DecoderSet
  <2>1. d.false_starts + 1 \in Nat
    BY DEF DecoderSet
  <2> QED  BY <2>1, SetField DEF FalseStart
<1>2. ~Waiting(d, b) => Received(d) \in DecoderSet
  <2>1. ~Waiting(d, b) =>
          Append(d.data, d.value) \in Seq(Int) /\ Append(d.starts, d.start) \in Seq(Nat)
    BY DEF DecoderSet, Waiting
  <2> QED  BY <2>1, SetField, Zenon DEF Received
<1>3. BadStop(d) \in DecoderSet
  <2>1. d.framing_errors + 1 \in Nat
    BY DEF DecoderSet
  <2> QED  BY <2>1, SetField DEF BadStop
<1>4. d.stage # STOP => NextStage(d, level) \in DecoderSet
  <2>1. d.stage # 0 => d.value + level * 2^(d.stage - 1) \in Int
    BY StopType DEF DecoderSet
  <2>2. d.stage # STOP => d.stage + 1 \in 0 .. STOP
    BY StopType DEF DecoderSet
  <2>3. d.value \in Int
    BY DEF DecoderSet
  <2> QED  BY <2>1, <2>2, <2>3, SetField, Zenon DEF NextStage
<1> QED  BY <1>1, <1>2, <1>3, <1>4, SampleBitCases, Zenon

LEMMA ChangeLevelCases ==
  ASSUME NEW d \in DecoderSet, NEW a, NEW level \in {0, 1}
  PROVE  \/ d.previous = level /\ ChangeLevel(d, a, level) = d
         \/ /\ d.previous # level
            /\ \/ /\ level = 1
                  /\ ChangeLevel(d, a, level)
                       = [[d EXCEPT !.previous = level] EXCEPT !.high_since = a]
               \/ ChangeLevel(d, a, level) = [d EXCEPT !.previous = level]
               \/ /\ level = 0 /\ d.previous = 1
                  /\ ChangeLevel(d, a, level)
                       = [[[[d EXCEPT !.previous = level] EXCEPT !.start = a]
                            EXCEPT !.stage = 0] EXCEPT !.value = 0]
<1>1. [d EXCEPT !.previous = 1, !.high_since = a]
        = [[d EXCEPT !.previous = 1] EXCEPT !.high_since = a]
  BY DEF DecoderSet
<1>2. [d EXCEPT !.previous = 0, !.start = a, !.stage = 0, !.value = 0]
       = [[[[d EXCEPT !.previous = 0] EXCEPT !.start = a] EXCEPT !.stage = 0] EXCEPT !.value = 0]
  BY DEF DecoderSet
<1> QED  BY <1>1, <1>2, Zenon DEF ChangeLevel

LEMMA ChangeLevelType ==
  ASSUME NEW d \in DecoderSet, NEW a \in Nat, NEW level \in {0, 1}
  PROVE  ChangeLevel(d, a, level) \in DecoderSet /\ ChangeLevel(d, a, level).previous = level
<1> DEFINE e == [d EXCEPT !.previous = level]
           f == [e EXCEPT !.high_since = a]
           g == [[[e EXCEPT !.start = a] EXCEPT !.stage = 0] EXCEPT !.value = 0]
<1>1. e \in DecoderSet /\ e.previous = level
  <2>1. e.previous = level
    BY DEF DecoderSet
  <2> QED  BY <2>1, SetField
<1>2. ChangeLevel(d, a, level) \in {d, e, f, g} /\ (ChangeLevel(d, a, level) = d => d.previous = level)
  <2>1. d.previous # level => d # e /\ d # f /\ d # g
    BY DEF DecoderSet
  <2> QED  BY <2>1, ChangeLevelCases, Zenon
<1> HIDE DEF e
<1>3. f \in DecoderSet /\ f.previous = level
  <2>1. f.previous = level
    BY <1>1 DEF DecoderSet
  <2> QED  BY <1>1, <2>1, SetField
<1>4. g \in DecoderSet /\ g.previous = level
  <2>1. g.previous = level
    BY <1>1 DEF DecoderSet
  <2>2. 0 \in 0 .. STOP /\ 0 \in Int /\ a \in Nat \cup {Idle}
    BY StopType
  <2> QED  BY <1>1, <2>1, <2>2, SetField, Zenon
<1> QED  BY <1>1, <1>2, <1>3, <1>4, Zenon

(* The turns of the loop, in a run that ends before b. *)
IsTurns(t, d, b, level) ==
  t = [n \in 0 .. STOP + 1 |-> IF n = 0 THEN d ELSE SampleBit(t[n - 1], b, level)]

LEMMA DrainTurns ==
  ASSUME NEW d, NEW b, NEW level
  PROVE  \E t : IsTurns(t, d, b, level) /\ drain(d, b, level) = t[STOP + 1]
<1> DEFINE Solved(k) ==
             \E t : t = [n \in 0 .. k |-> IF n = 0 THEN d ELSE SampleBit(t[n - 1], b, level)]
           S == {k \in Nat : Solved(k)}
<1>1. Solved(0)
  <2> DEFINE t == [n \in 0 .. 0 |-> d]
  <2>1. t = [n \in 0 .. 0 |-> IF n = 0 THEN d ELSE SampleBit(t[n - 1], b, level)]
    OBVIOUS
  <2> HIDE DEF t
  <2> QED  BY <2>1
<1>2. ASSUME NEW k \in Nat, Solved(k) PROVE Solved(k + 1)
  <2>1. PICK t : t = [n \in 0 .. k |-> IF n = 0 THEN d ELSE SampleBit(t[n - 1], b, level)]
    BY <1>2
  <2>2. \A n \in 0 .. k : t[n] = IF n = 0 THEN d ELSE SampleBit(t[n - 1], b, level)
    BY <2>1
  <2> DEFINE u == [n \in 0 .. k + 1 |-> IF n <= k THEN t[n] ELSE SampleBit(t[k], b, level)]
  <2>3. \A n \in 0 .. k + 1 : u[n] = IF n = 0 THEN d ELSE SampleBit(u[n - 1], b, level)
    <3> SUFFICES ASSUME NEW n \in 0 .. k + 1
                 PROVE  u[n] = IF n = 0 THEN d ELSE SampleBit(u[n - 1], b, level)
      OBVIOUS
    <3>1. n # 0 => n - 1 \in 0 .. k + 1 /\ u[n - 1] = t[n - 1]
      OBVIOUS
    <3>2. CASE n <= k
      <4>1. u[n] = t[n] /\ t[n] = IF n = 0 THEN d ELSE SampleBit(t[n - 1], b, level)
        BY <2>2, <3>2
      <4> QED  BY <3>1, <4>1
    <3>3. CASE n = k + 1
      <4>1. u[n] = SampleBit(t[k], b, level) /\ n - 1 = k /\ n # 0
        BY <3>3
      <4> QED  BY <3>1, <4>1
    <3> QED  BY <3>2, <3>3
  <2>4. u = [n \in 0 .. k + 1 |-> u[n]]
    OBVIOUS
  <2> HIDE DEF u
  <2>5. u = [n \in 0 .. k + 1 |-> IF n = 0 THEN d ELSE SampleBit(u[n - 1], b, level)]
    BY <2>3, <2>4
  <2> QED  BY <2>5, Zenon
<1> HIDE DEF Solved
<1>3. 0 \in S /\ \A k \in Nat : k \in S => k + 1 \in S
  BY <1>1, <1>2
<1>4. Nat \subseteq S => Solved(STOP + 1)
  BY StopType
<1> HIDE DEF S
<1>5. Solved(STOP + 1)
  BY <1>3, <1>4, Induction
<1> QED  BY <1>5, Zenon DEF Solved, IsTurns, drain

LEMMA TurnsUnfold ==
  ASSUME NEW d, NEW b, NEW level, NEW t, IsTurns(t, d, b, level)
  PROVE  t[0] = d /\ \A n \in 0 .. STOP : t[n + 1] = SampleBit(t[n], b, level)
<1>1. \A n \in 0 .. STOP + 1 : t[n] = IF n = 0 THEN d ELSE SampleBit(t[n - 1], b, level)
  BY DEF IsTurns
<1>2. ASSUME NEW n \in 0 .. STOP PROVE t[n + 1] = SampleBit(t[n], b, level)
  <2>1. n + 1 \in 0 .. STOP + 1 /\ n + 1 # 0 /\ (n + 1) - 1 = n
    BY StopType
  <2> QED  BY <1>1, <2>1
<1> QED  BY <1>1, <1>2, StopType

(* What a turn keeps, all of them keep. *)
LEMMA TurnsKeep ==
  ASSUME NEW d, NEW b, NEW level, NEW t, IsTurns(t, d, b, level),
         NEW S, d \in S, \A e \in S : SampleBit(e, b, level) \in S
  PROVE  \A n \in 0 .. STOP + 1 : t[n] \in S
<1> DEFINE G == {n \in Nat : n <= STOP + 1 => t[n] \in S}
<1>1. 0 \in G
  BY StopType DEF IsTurns
<1>2. ASSUME NEW n \in Nat, n \in G PROVE n + 1 \in G
  <2> SUFFICES ASSUME n + 1 <= STOP + 1 PROVE t[n + 1] \in S
    OBVIOUS
  <2>1. t[n + 1] = SampleBit(t[n], b, level)
    BY StopType DEF IsTurns
  <2> QED  BY <1>2, <2>1, StopType
<1>3. Nat \subseteq G
  <2> HIDE DEF G
  <2> QED  BY <1>1, <1>2, Induction
<1> QED  BY <1>3, StopType

LEMMA DrainKeeps ==
  ASSUME NEW d, NEW b, NEW level,
         NEW S, d \in S, \A e \in S : SampleBit(e, b, level) \in S
  PROVE  drain(d, b, level) \in S
<1>1. PICK t : IsTurns(t, d, b, level) /\ drain(d, b, level) = t[STOP + 1]
  BY DrainTurns
<1> QED  BY <1>1, TurnsKeep, StopType

(* A turn either waits, ends the frame or goes to the next bit, and does   *)
(* not depend on where the run ends.                                       *)
LEMMA TurnWaits ==
  ASSUME NEW d \in DecoderSet, NEW b, NEW level, Waiting(d, b)
  PROVE  SampleBit(d, b, level) = d
BY SampleBitCases, Zenon

LEMMA TurnGoesOn ==
  ASSUME NEW d \in DecoderSet, NEW b, NEW level, ~Waiting(d, b)
  PROVE  LET e == SampleBit(d, b, level) IN
         e.start = Idle \/ (e.data = d.data /\ e.stage = d.stage + 1)
<1>1. FalseStart(d).start = Idle /\ Received(d).start = Idle /\ BadStop(d).start = Idle
  BY DEF DecoderSet, FalseStart, Received, BadStop
<1>2. NextStage(d, level).data = d.data /\ NextStage(d, level).stage = d.stage + 1
  BY DEF DecoderSet, NextStage
<1> QED  BY <1>1, <1>2, SampleBitCases DEF Waiting

LEMMA LaterEnd ==
  ASSUME NEW d \in DecoderSet, NEW b \in Nat, NEW c \in Nat, b <= c, ~Waiting(d, b), NEW level
  PROVE  ~Waiting(d, c) /\ SampleBit(d, b, level) = SampleBit(d, c, level)
<1>1. ~Waiting(d, c)
  BY SampleType DEF Waiting
<1> QED  BY <1>1, Zenon DEF SampleBit, Waiting

LEMMA DrainType ==
  ASSUME NEW d \in DecoderSet, NEW b, NEW level \in {0, 1}
  PROVE  drain(d, b, level) \in DecoderSet
BY SampleBitType, DrainKeeps

LEMMA DrainIdle ==
  ASSUME NEW d \in DecoderSet, NEW b, NEW level \in {0, 1}, Waiting(d, b)
  PROVE  drain(d, b, level) = d
<1>1. \A e \in {d} : SampleBit(e, b, level) \in {d}
  BY TurnWaits
<1>2. drain(d, b, level) \in {d}
  BY <1>1, DrainKeeps
<1> QED  BY <1>2

(* There are turns enough for a frame. *)
LEMMA DrainWaits ==
  ASSUME NEW d \in DecoderSet, NEW b, NEW level \in {0, 1}, NEW t, IsTurns(t, d, b, level)
  PROVE  Waiting(t[STOP + 1], b)
<1>1. \A n \in 0 .. STOP + 1 : t[n] \in DecoderSet
  BY TurnsKeep, SampleBitType
<1> DEFINE G == {n \in Nat : n <= STOP + 1 => Waiting(t[n], b) \/ t[n].stage >= n}
<1>2. 0 \in G
  <2>1. t[0] = d /\ d.stage >= 0
    BY StopType DEF IsTurns, DecoderSet
  <2> QED  BY <2>1
<1>3. ASSUME NEW n \in Nat, n \in G PROVE n + 1 \in G
  <2> SUFFICES ASSUME n + 1 <= STOP + 1 PROVE Waiting(t[n + 1], b) \/ t[n + 1].stage >= n + 1
    OBVIOUS
  <2>1. t[n + 1] = SampleBit(t[n], b, level) /\ t[n] \in DecoderSet
    BY <1>1, StopType DEF IsTurns
  <2>2. CASE Waiting(t[n], b)
    BY <2>1, <2>2, TurnWaits
  <2>3. CASE ~Waiting(t[n], b)
    <3>1. t[n].stage >= n /\ t[n].stage \in Nat
      BY <1>3, <2>1, <2>3, StopType DEF DecoderSet
    <3>2. t[n + 1].start = Idle \/ t[n + 1].stage = t[n].stage + 1
      BY <2>1, <2>3, TurnGoesOn
    <3>3. t[n + 1].start = Idle => Waiting(t[n + 1], b)
      BY DEF Waiting
    <3>4. t[n + 1].stage = t[n].stage + 1 => t[n + 1].stage >= n + 1
      BY <3>1
    <3> QED  BY <3>2, <3>3, <3>4, Zenon
  <2> QED  BY <2>2, <2>3
<1>4. Nat \subseteq G
  <2> HIDE DEF G
  <2> QED  BY <1>2, <1>3, Induction
<1>5. STOP + 1 \in G /\ t[STOP + 1].stage \in 0 .. STOP
  BY <1>1, <1>4, StopType DEF DecoderSet
<1> QED  BY <1>5, StopType

(* One turn more or less makes no difference. *)
LEMMA DrainTurn ==
  ASSUME NEW d \in DecoderSet, NEW b, NEW level \in {0, 1}
  PROVE  drain(SampleBit(d, b, level), b, level) = drain(d, b, level)
<1>1. PICK t : IsTurns(t, d, b, level) /\ drain(d, b, level) = t[STOP + 1]
  BY DrainTurns
<1> DEFINE e == SampleBit(d, b, level)
<1>2. PICK u : IsTurns(u, e, b, level) /\ drain(e, b, level) = u[STOP + 1]
  BY DrainTurns
<1>3. /\ u[0] = t[1]
      /\ \A n \in 0 .. STOP : /\ u[n + 1] = SampleBit(u[n], b, level)
                              /\ t[n + 1] = SampleBit(t[n], b, level)
  <2>1. 0 \in 0 .. STOP /\ 0 + 1 = 1
    BY StopType
  <2>2. t[0 + 1] = SampleBit(t[0], b, level) /\ t[0] = d
    BY <1>1, <2>1, TurnsUnfold
  <2> HIDE DEF e
  <2>3. u[0] = e /\ \A n \in 0 .. STOP : u[n + 1] = SampleBit(u[n], b, level)
    BY <1>2, TurnsUnfold
  <2> QED  BY <1>1, <2>1, <2>2, <2>3, TurnsUnfold DEF e
<1> DEFINE G == {n \in Nat : n <= STOP => u[n] = t[n + 1]}
<1>4. ASSUME NEW n \in Nat, n \in G PROVE n + 1 \in G
  <2> SUFFICES ASSUME n + 1 <= STOP PROVE u[n + 1] = t[(n + 1) + 1]
    OBVIOUS
  <2>1. n \in 0 .. STOP /\ n + 1 \in 0 .. STOP
    BY StopType
  <2> QED  BY <1>3, <1>4, <2>1
<1>5. Nat \subseteq G
  <2>1. 0 \in G
    BY <1>3
  <2> HIDE DEF G
  <2> QED  BY <1>4, <2>1, Induction
<1>6. u[STOP] = t[STOP + 1]
  BY <1>5, StopType
<1>7. u[STOP + 1] = SampleBit(u[STOP], b, level)
  BY <1>3, StopType
<1>8. t[STOP + 1] \in DecoderSet /\ Waiting(t[STOP + 1], b)
  BY <1>1, DrainWaits, DrainType
<1> QED  BY <1>1, <1>2, <1>6, <1>7, <1>8, TurnWaits

(* A run may be sampled in two parts. *)
LEMMA DrainAgain ==
  ASSUME NEW d \in DecoderSet, NEW b \in Nat, NEW c \in Nat, b <= c, NEW level \in {0, 1}
  PROVE  drain(drain(d, b, level), c, level) = drain(d, c, level)
<1> DEFINE S == {e \in DecoderSet : drain(e, c, level) = drain(d, c, level)}
<1>1. ASSUME NEW e \in S PROVE SampleBit(e, b, level) \in S
  <2>1. CASE Waiting(e, b)
    BY <2>1, TurnWaits
  <2>2. CASE ~Waiting(e, b)
    <3>1. SampleBit(e, b, level) = SampleBit(e, c, level)
      BY <2>2, LaterEnd
    <3> QED  BY <3>1, DrainTurn, SampleBitType
  <2> QED  BY <2>1, <2>2
<1>2. d \in S
  OBVIOUS
<1> HIDE DEF S
<1>3. drain(d, b, level) \in S
  BY <1>1, <1>2, DrainKeeps
<1> QED  BY <1>3 DEF S

(* A byte that is received leaves no frame in progress. *)
LEMMA DrainData ==
  ASSUME NEW d \in DecoderSet, NEW b, NEW level \in {0, 1}
  PROVE  drain(d, b, level).data = d.data \/ drain(d, b, level).start = Idle
<1> DEFINE S == {e \in DecoderSet : e.data = d.data \/ e.start = Idle}
<1>1. ASSUME NEW e \in S PROVE SampleBit(e, b, level) \in S
  <2>1. CASE Waiting(e, b)
    BY <2>1, TurnWaits
  <2>2. CASE ~Waiting(e, b)
    <3>1. e.data = d.data
      BY <2>2 DEF Waiting
    <3> QED  BY <2>2, <3>1, TurnGoesOn, SampleBitType
  <2> QED  BY <2>1, <2>2
<1>2. d \in S
  OBVIOUS
<1> HIDE DEF S
<1>3. drain(d, b, level) \in S
  BY <1>1, <1>2, DrainKeeps
<1> QED  BY <1>3 DEF S

LEMMA DrainPrevious ==
  ASSUME NEW d \in DecoderSet, NEW b, NEW level \in {0, 1}
  PROVE  drain(d, b, level).previous = d.previous
<1> DEFINE S == {e \in DecoderSet : e.previous = d.previous}
<1>1. ASSUME NEW e \in S PROVE SampleBit(e, b, level) \in S
  <2>1. /\ FalseStart(e).previous = e.previous /\ Received(e).previous = e.previous
        /\ BadStop(e).previous = e.previous /\ NextStage(e, level).previous = e.previous
    BY DEF DecoderSet, FalseStart, Received, BadStop, NextStage
  <2>2. SampleBit(e, b, level).previous = e.previous
    BY <2>1, SampleBitCases, Zenon
  <2> QED  BY <2>2, SampleBitType
<1>2. d \in S
  OBVIOUS
<1> HIDE DEF S
<1>3. drain(d, b, level) \in S
  BY <1>1, <1>2, DrainKeeps
<1> QED  BY <1>3 DEF S

(* Where the scan is does not matter within a run. *)
LEMMA TurnOffset ==
  ASSUME NEW d \in DecoderSet, NEW b, NEW level \in {0, 1}, NEW o \in Nat
  PROVE  SampleBit([d EXCEPT !.offset = o], b, level)
           = [SampleBit(d, b, level) EXCEPT !.offset = o]
<1> DEFINE e == [d EXCEPT !.offset = o]
<1>1. /\ e.start = d.start /\ e.stage = d.stage /\ e.value = d.value /\ e.data = d.data
      /\ e.starts = d.starts /\ e.framing_errors = d.framing_errors
      /\ e.false_starts = d.false_starts
  BY DEF DecoderSet
<1>2. sample(e) = sample(d)
  BY <1>1 DEF sample
<1>3. [e EXCEPT !.false_starts = e.false_starts + 1, !.start = Idle]
        = [[d EXCEPT !.false_starts = d.false_starts + 1, !.start = Idle] EXCEPT !.offset = o]
  BY <1>1 DEF DecoderSet
<1>4. [e EXCEPT !.data = Append(e.data, e.value), !.starts = Append(e.starts, e.start), !.start = Idle]
        = [[d EXCEPT !.data = Append(d.data, d.value), !.starts = Append(d.starts, d.start),
                     !.start = Idle] EXCEPT !.offset = o]
  BY <1>1 DEF DecoderSet
<1>5. [e EXCEPT !.framing_errors = e.framing_errors + 1, !.start = Idle]
        = [[d EXCEPT !.framing_errors = d.framing_errors + 1, !.start = Idle] EXCEPT !.offset = o]
  BY <1>1 DEF DecoderSet
<1>6. [e EXCEPT !.stage = e.stage + 1,
                !.value = IF e.stage = 0 THEN e.value ELSE e.value + level * 2^(e.stage - 1)]
        = [[d EXCEPT !.stage = d.stage + 1,
                     !.value = IF d.stage = 0 THEN d.value ELSE d.value + level * 2^(d.stage - 1)]
             EXCEPT !.offset = o]
  BY <1>1 DEF DecoderSet
<1> HIDE DEF e
<1>7. SampleBit(e, b, level) = [SampleBit(d, b, level) EXCEPT !.offset = o]
  BY <1>1, <1>2, <1>3, <1>4, <1>5, <1>6, Zenon DEF SampleBit, e
<1> QED  BY <1>7 DEF e

LEMMA DrainOffset ==
  ASSUME NEW d \in DecoderSet, NEW b, NEW level \in {0, 1}, NEW o \in Nat
  PROVE  drain([d EXCEPT !.offset = o], b, level) = [drain(d, b, level) EXCEPT !.offset = o]
<1>1. PICK t : IsTurns(t, d, b, level) /\ drain(d, b, level) = t[STOP + 1]
  BY DrainTurns
<1> DEFINE e == [d EXCEPT !.offset = o]
<1>2. PICK u : IsTurns(u, e, b, level) /\ drain(e, b, level) = u[STOP + 1]
  BY DrainTurns
<1>3. \A n \in 0 .. STOP + 1 : t[n] \in DecoderSet
  BY <1>1, TurnsKeep, SampleBitType
<1> DEFINE G == {n \in Nat : n <= STOP + 1 => u[n] = [t[n] EXCEPT !.offset = o]}
<1>4. 0 \in G
  BY <1>1, <1>2, TurnsUnfold
<1>5. ASSUME NEW n \in Nat, n \in G PROVE n + 1 \in G
  <2> SUFFICES ASSUME n + 1 <= STOP + 1 PROVE u[n + 1] = [t[n + 1] EXCEPT !.offset = o]
    OBVIOUS
  <2>1. u[n + 1] = SampleBit(u[n], b, level) /\ t[n + 1] = SampleBit(t[n], b, level)
    <3>1. n \in 0 .. STOP
      BY StopType
    <3> HIDE DEF e
    <3> QED  BY <1>1, <1>2, <3>1, TurnsUnfold
  <2>2. t[n] \in DecoderSet /\ u[n] = [t[n] EXCEPT !.offset = o]
    BY <1>3, <1>5, StopType
  <2> QED  BY <2>1, <2>2, TurnOffset
<1>6. Nat \subseteq G
  <2> HIDE DEF G
  <2> QED  BY <1>4, <1>5, Induction
<1>7. u[STOP + 1] = [t[STOP + 1] EXCEPT !.offset = o]
  BY <1>6, StopType
<1> QED  BY <1>1, <1>2, <1>7

(* A run may be scanned in two parts, even if the first brings the last    *)
(* byte that is wanted.                                                    *)
LEMMA ScanType ==
  ASSUME NEW d \in DecoderSet, NEW n \in Nat, NEW level \in {0, 1}, NEW limit
  PROVE  /\ Scan(d, n, level, limit) \in DecoderSet
         /\ Scan(d, n, level, limit).offset = d.offset + n
<1> DEFINE e == drain(ChangeLevel(d, d.offset, level), d.offset + n, level)
<1>1. d.offset \in Nat /\ d.offset + n \in Nat
  BY DEF DecoderSet
<1>2. e \in DecoderSet
  BY <1>1, ChangeLevelType, DrainType
<1> HIDE DEF e
<1>3. ASSUME NEW f \in DecoderSet, NEW o \in Nat
      PROVE  [f EXCEPT !.offset = o] \in DecoderSet /\ [f EXCEPT !.offset = o].offset = o
  BY SetField DEF DecoderSet
<1>4. CASE Len(d.data) >= limit
  BY <1>1, <1>3, <1>4 DEF Scan
<1>5. CASE ~(Len(d.data) >= limit)
  <2>1. Scan(d, n, level, limit) = [e EXCEPT !.offset = d.offset + n]
    BY <1>5 DEF Scan, e
  <2> QED  BY <1>1, <1>2, <1>3, <2>1
<1> QED  BY <1>4, <1>5

LEMMA ChangeLevelData ==
  ASSUME NEW d \in DecoderSet, NEW a, NEW level \in {0, 1}
  PROVE  ChangeLevel(d, a, level).data = d.data
<1>1. /\ [[d EXCEPT !.previous = level] EXCEPT !.high_since = a].data = d.data
      /\ [d EXCEPT !.previous = level].data = d.data
      /\ [[[[d EXCEPT !.previous = level] EXCEPT !.start = a]
            EXCEPT !.stage = 0] EXCEPT !.value = 0].data = d.data
  BY DEF DecoderSet
<1> QED  BY <1>1, ChangeLevelCases, Zenon

LEMMA ScanAgain ==
  ASSUME NEW d \in DecoderSet, NEW m \in Nat, NEW n \in Nat, NEW level \in {0, 1}, NEW limit
  PROVE  Scan(Scan(d, m, level, limit), n, level, limit) = Scan(d, m + n, level, limit)
<1> DEFINE a == d.offset
           b == a + m
           c == b + n
           C == ChangeLevel(d, a, level)
           e == drain(C, b, level)
           d1 == Scan(d, m, level, limit)
           full(f) == Len(f.data) >= limit
<1>1. a \in Nat /\ b \in Nat /\ c \in Nat /\ b <= c /\ a + (m + n) = c
  BY DEF DecoderSet
<1>2. d1 \in DecoderSet /\ d1.offset = b
  BY ScanType
<1>3. CASE full(d)
  <2>1. d1 = [d EXCEPT !.offset = b]
    BY <1>3 DEF Scan
  <2>2. full(d1)
    BY <1>3, <2>1 DEF DecoderSet
  <2>3. Scan(d1, n, level, limit) = [d1 EXCEPT !.offset = c]
    BY <1>2, <2>2, Zenon DEF Scan
  <2>4. Scan(d, m + n, level, limit) = [d EXCEPT !.offset = c]
    BY <1>1, <1>3 DEF Scan
  <2>5. [[d EXCEPT !.offset = b] EXCEPT !.offset = c] = [d EXCEPT !.offset = c]
    BY DEF DecoderSet
  <2> QED  BY <2>1, <2>3, <2>4, <2>5, Zenon
<1>4. CASE ~full(d)
  <2>1. C \in DecoderSet /\ C.previous = level /\ C.data = d.data
    BY <1>1, ChangeLevelType, ChangeLevelData
  <2>2. e \in DecoderSet /\ e.previous = level /\ (e.data = d.data \/ e.start = Idle)
    BY <2>1, DrainType, DrainPrevious, DrainData
  <2>3. drain(e, c, level) = drain(C, c, level)
    BY <1>1, <2>1, DrainAgain
  <2>4. d1 = [e EXCEPT !.offset = b]
    BY <1>4 DEF Scan
  <2>5. Scan(d, m + n, level, limit) = [drain(C, c, level) EXCEPT !.offset = c]
    BY <1>1, <1>4 DEF Scan
  <2> HIDE DEF e, C
  <2>6. d1.data = e.data /\ d1.previous = level
    BY <2>2, <2>4 DEF DecoderSet
  <2> HIDE DEF d1
  <2>7. [d1 EXCEPT !.offset = c] = [e EXCEPT !.offset = c]
    BY <2>2, <2>4 DEF DecoderSet
  <2>8. CASE full(d1)
    <3>1. e.start = Idle
      BY <1>4, <2>2, <2>6, <2>8
    <3>2. drain(e, c, level) = e
      BY <2>2, <3>1, DrainIdle DEF Waiting
    <3>3. Scan(d1, n, level, limit) = [d1 EXCEPT !.offset = c]
      BY <1>2, <2>8, Zenon DEF Scan
    <3> QED  BY <2>3, <2>5, <2>7, <3>2, <3>3, Zenon DEF d1
  <2>9. CASE ~full(d1)
    <3>1. ChangeLevel(d1, b, level) = d1
      BY <2>6 DEF ChangeLevel
    <3>2. Scan(d1, n, level, limit) = [drain(d1, c, level) EXCEPT !.offset = c]
      BY <1>2, <2>9, <3>1, Zenon DEF Scan
    <3>3. drain(d1, c, level) = [drain(e, c, level) EXCEPT !.offset = b]
      BY <1>1, <2>2, <2>4, DrainOffset
    <3>4. drain(C, c, level) \in DecoderSet
      BY <2>1, DrainType
    <3>5. [[drain(C, c, level) EXCEPT !.offset = b] EXCEPT !.offset = c]
            = [drain(C, c, level) EXCEPT !.offset = c]
      BY <3>4 DEF DecoderSet
    <3> QED  BY <2>3, <2>5, <3>2, <3>3, <3>5, Zenon DEF d1
  <2> QED  BY <2>8, <2>9
<1> QED  BY <1>3, <1>4

(* The least element of a set of naturals. *)
LEMMA MinIsLeast ==
  ASSUME NEW S \in SUBSET Nat, S # {}
  PROVE  Min(S) \in S /\ \A x \in S : Min(S) <= x
<1> DEFINE R == OpToRel(<, Nat)
<1>1. IsWellFoundedOn(R, Nat)
  BY NatLessThanWellFounded
<1>2. PICK x \in S : \A y \in S : ~(<<y, x>> \in R)
  <2> HIDE DEF R
  <2> QED  BY <1>1, WFMin, Zenon
<1>3. \A y \in S : <<y, x>> \in R <=> y < x
  BY DEF OpToRel
<1> HIDE DEF R
<1>4. ASSUME NEW y \in S PROVE x <= y
  <2>1. ~(y < x)
    BY <1>2, <1>3
  <2>2. x \in Nat /\ y \in Nat
    OBVIOUS
  <2> QED  BY <2>1, <2>2
<1> QED  BY <1>4 DEF Min

(* The start of a run: that of the sample before, if the level is the      *)
(* same.                                                                   *)
LEMMA FirstType ==
  ASSUME NEW s \in Seq({0, 1}), NEW k \in 1 .. Len(s)
  PROVE  First(s, k) \in 1 .. k
<1> DEFINE A == {i \in 1 .. k : \A j \in i .. k : s[j] = s[k]}
<1>1. A \in SUBSET Nat /\ k \in A
  OBVIOUS
<1> HIDE DEF A
<1>2. Min(A) \in A
  BY <1>1, MinIsLeast
<1> QED  BY <1>2 DEF A, First

LEMMA FirstInRun ==
  ASSUME NEW s \in Seq({0, 1}), NEW k \in 1 .. Len(s)
  PROVE  First(s, k) = IF k > 1 /\ s[k - 1] = s[k] THEN First(s, k - 1) ELSE k
<1> DEFINE A == {i \in 1 .. k : \A j \in i .. k : s[j] = s[k]}
           B == {i \in 1 .. k - 1 : \A j \in i .. k - 1 : s[j] = s[k - 1]}
<1>1. A \in SUBSET Nat /\ k \in A /\ B \in SUBSET Nat
  OBVIOUS
<1>2. CASE k > 1 /\ s[k - 1] = s[k]
  <2>1. k - 1 \in B
    BY <1>2
  <2>2. A = B \cup {k}
    <3>1. ASSUME NEW i \in 1 .. k - 1 PROVE i \in A <=> i \in B
      <4>1. \A j : j \in i .. k <=> j \in i .. k - 1 \/ j = k
        OBVIOUS
      <4> QED  BY <1>2, <4>1
    <3>2. k \notin B /\ \A i \in 1 .. k : i \in 1 .. k - 1 \/ i = k
      OBVIOUS
    <3> QED  BY <1>1, <3>1, <3>2
  <2>3. \A i \in B : i < k
    OBVIOUS
  <2> HIDE DEF A, B
  <2>4. Min(A) \in A /\ (\A x \in A : Min(A) <= x) /\ Min(B) \in B /\ \A x \in B : Min(B) <= x
    BY <1>1, <2>1, MinIsLeast
  <2>5. Min(A) = Min(B)
    <3> DEFINE p == Min(A)
               q == Min(B)
    <3>1. p \in A /\ (\A x \in A : p <= x) /\ q \in B /\ \A x \in B : q <= x
      BY <2>4
    <3> HIDE DEF p, q
    <3>2. p \in Nat /\ q \in Nat /\ q \in A /\ k - 1 \in A /\ q < k
      BY <1>1, <2>1, <2>2, <2>3, <3>1
    <3>3. p <= q /\ p <= k - 1 /\ p # k
      BY <3>1, <3>2
    <3>4. p \in B
      BY <2>2, <3>1, <3>3
    <3>5. p = q
      BY <3>1, <3>2, <3>3, <3>4
    <3> QED  BY <3>5 DEF p, q
  <2> QED  BY <1>2, <2>5 DEF A, B, First
<1>3. CASE ~(k > 1 /\ s[k - 1] = s[k])
  <2>1. ASSUME NEW i \in A PROVE i = k
    <3>1. i \in 1 .. k /\ \A j \in i .. k : s[j] = s[k]
      OBVIOUS
    <3> QED  BY <1>3, <3>1
  <2> HIDE DEF A
  <2>2. Min(A) \in A
    BY <1>1, MinIsLeast
  <2>3. Min(A) = k
    BY <2>1, <2>2
  <2> QED  BY <1>3, <2>3 DEF A, First
<1> QED  BY <1>2, <1>3


(* The scan of a chunk, run by run ... *)
IsScanned(t, d, s, limit) ==
  t = [k \in 0 .. Len(s) |->
         IF k = 0 THEN d
         ELSE Scan(t[First(s, k) - 1], k - First(s, k) + 1, s[k], limit)]

LEMMA ScannedUnfolds ==
  ASSUME NEW d, NEW s \in Seq({0, 1}), NEW limit
  PROVE  IsScanned(Scanned(d, s, limit), d, s, limit)
<1> DEFINE F(t, k) == Scan(t[First(s, k) - 1], k - First(s, k) + 1, s[k], limit)
           Solved(m) == \E t : t = [k \in 0 .. m |-> IF k = 0 THEN d ELSE F(t, k)]
           S == {m \in Nat : m <= Len(s) => Solved(m)}
<1>1. Solved(0)
  <2> DEFINE t == [k \in 0 .. 0 |-> d]
  <2>1. t = [k \in 0 .. 0 |-> IF k = 0 THEN d ELSE F(t, k)]
    OBVIOUS
  <2> HIDE DEF t
  <2> QED  BY <2>1
<1>2. ASSUME NEW m \in Nat, m + 1 <= Len(s), Solved(m) PROVE Solved(m + 1)
  <2>1. PICK t : t = [k \in 0 .. m |-> IF k = 0 THEN d ELSE F(t, k)]
    BY <1>2
  <2>2. \A k \in 0 .. m : t[k] = IF k = 0 THEN d ELSE F(t, k)
    BY <2>1
  <2> DEFINE u == [k \in 0 .. m + 1 |-> IF k <= m THEN t[k] ELSE F(t, m + 1)]
  <2>3. ASSUME NEW k \in 1 .. m + 1 PROVE F(u, k) = F(t, k)
    <3>1. First(s, k) \in 1 .. k
      BY <1>2, FirstType
    <3>2. First(s, k) - 1 \in 0 .. m
      BY <3>1
    <3>3. u[First(s, k) - 1] = t[First(s, k) - 1]
      BY <3>2
    <3> HIDE DEF u
    <3> QED  BY <3>3
  <2>4. \A k \in 0 .. m + 1 : u[k] = IF k = 0 THEN d ELSE F(u, k)
    <3> SUFFICES ASSUME NEW k \in 0 .. m + 1
                 PROVE  u[k] = IF k = 0 THEN d ELSE F(u, k)
      OBVIOUS
    <3>1. k # 0 => F(u, k) = F(t, k)
      <4>1. k # 0 => k \in 1 .. m + 1
        OBVIOUS
      <4> HIDE DEF F, u
      <4> QED  BY <2>3, <4>1
    <3>2. CASE k <= m
      <4>1. u[k] = t[k] /\ t[k] = IF k = 0 THEN d ELSE F(t, k)
        BY <2>2, <3>2
      <4> HIDE DEF F
      <4> QED  BY <3>1, <4>1
    <3>3. CASE k = m + 1
      <4>1. u[k] = F(t, k) /\ k # 0
        BY <3>3
      <4> HIDE DEF F
      <4> QED  BY <3>1, <4>1
    <3> QED  BY <3>2, <3>3
  <2>5. u = [k \in 0 .. m + 1 |-> u[k]]
    OBVIOUS
  <2> HIDE DEF u, F
  <2>6. u = [k \in 0 .. m + 1 |-> IF k = 0 THEN d ELSE F(u, k)]
    BY <2>4, <2>5
  <2> QED  BY <2>6, Zenon
<1>3. 0 \in S /\ \A m \in Nat : m \in S => m + 1 \in S
  <2> HIDE DEF Solved
  <2> QED  BY <1>1, <1>2
<1>4. Nat \subseteq S => Solved(Len(s))
  <2> HIDE DEF Solved
  <2> QED  OBVIOUS
<1> HIDE DEF S
<1>5. Solved(Len(s))
  BY <1>3, <1>4, Induction
<1> QED  BY <1>5, Zenon DEF IsScanned, Scanned

LEMMA ScannedRun ==
  ASSUME NEW d \in DecoderSet, NEW s \in Seq({0, 1}), NEW limit,
         NEW t, IsScanned(t, d, s, limit)
  PROVE  /\ t[0] = d
         /\ \A k \in 1 .. Len(s) :
              t[k] = Scan(t[First(s, k) - 1], k - First(s, k) + 1, s[k], limit)
<1>1. \A k \in 0 .. Len(s) :
         t[k] = IF k = 0 THEN d
                ELSE Scan(t[First(s, k) - 1], k - First(s, k) + 1, s[k], limit)
  BY DEF IsScanned
<1>2. 0 \in 0 .. Len(s) /\ \A k \in 1 .. Len(s) : k \in 0 .. Len(s) /\ k # 0
  OBVIOUS
<1> QED  BY <1>1, <1>2

LEMMA ScannedType ==
  ASSUME NEW d \in DecoderSet, NEW s \in Seq({0, 1}), NEW limit,
         NEW t, IsScanned(t, d, s, limit)
  PROVE  \A k \in 0 .. Len(s) : t[k] \in DecoderSet
<1> DEFINE G == {n \in Nat : \A k \in 0 .. Len(s) : k <= n => t[k] \in DecoderSet}
<1>1. 0 \in G
  BY ScannedRun
<1>2. ASSUME NEW n \in Nat, n \in G PROVE n + 1 \in G
  <2> SUFFICES ASSUME NEW k \in 0 .. Len(s), k = n + 1 PROVE t[k] \in DecoderSet
    BY <1>2
  <2> DEFINE f == First(s, k)
  <2>1. k \in 1 .. Len(s) /\ s[k] \in {0, 1}
    OBVIOUS
  <2>2. f \in 1 .. k /\ t[k] = Scan(t[f - 1], k - f + 1, s[k], limit)
    BY <2>1, FirstType, ScannedRun
  <2> HIDE DEF f
  <2>3. f - 1 \in 0 .. Len(s) /\ f - 1 <= n /\ k - f + 1 \in Nat
    BY <2>1, <2>2
  <2>4. t[f - 1] \in DecoderSet
    BY <1>2, <2>3
  <2> HIDE DEF G
  <2> QED  BY <2>1, <2>2, <2>3, <2>4, ScanType
<1>3. Nat \subseteq G
  <2> HIDE DEF G
  <2> QED  BY <1>1, <1>2, Induction
<1> QED  BY <1>3

(* ... is the same as sample by sample. *)
LEMMA ScannedSample ==
  ASSUME NEW d \in DecoderSet, NEW s \in Seq({0, 1}), NEW limit,
         NEW t, IsScanned(t, d, s, limit), NEW k \in 1 .. Len(s)
  PROVE  t[k] = Scan(t[k - 1], 1, s[k], limit)
<1> DEFINE f == First(s, k)
<1>1. f \in 1 .. k /\ t[k] = Scan(t[f - 1], k - f + 1, s[k], limit) /\ s[k] \in {0, 1}
  BY FirstType, ScannedRun
<1>2. CASE k > 1 /\ s[k - 1] = s[k]
  <2>1. k - 1 \in 1 .. Len(s) /\ f = First(s, k - 1)
    BY <1>2, FirstInRun
  <2>2. f \in 1 .. k - 1 /\ t[k - 1] = Scan(t[f - 1], (k - 1) - f + 1, s[k], limit)
    <3> DEFINE p == k - 1
    <3>1. p \in 1 .. Len(s) /\ f = First(s, p) /\ s[p] = s[k]
      BY <1>2, <2>1
    <3> HIDE DEF p
    <3>2. f \in 1 .. p /\ t[p] = Scan(t[f - 1], p - f + 1, s[k], limit)
      BY <3>1, FirstType, ScannedRun
    <3> QED  BY <3>2 DEF p
  <2> HIDE DEF f
  <2>3. f - 1 \in 0 .. Len(s) /\ (k - 1) - f + 1 \in Nat
        /\ ((k - 1) - f + 1) + 1 = k - f + 1
    BY <2>1, <2>2
  <2>4. t[f - 1] \in DecoderSet
    BY <2>3, ScannedType
  <2> DEFINE m == (k - 1) - f + 1
  <2>5. Scan(Scan(t[f - 1], m, s[k], limit), 1, s[k], limit) = Scan(t[f - 1], m + 1, s[k], limit)
    BY <1>1, <2>3, <2>4, ScanAgain
  <2> QED  BY <1>1, <2>2, <2>3, <2>5
<1>3. CASE ~(k > 1 /\ s[k - 1] = s[k])
  <2>1. f = k
    BY <1>3, FirstInRun
  <2>2. k - k + 1 = 1
    OBVIOUS
  <2> QED  BY <1>1, <2>1, <2>2
<1> QED  BY <1>2, <1>3

IsSampled(t, d, s, limit) ==
  /\ t[0] = d
  /\ \A k \in 0 .. Len(s) : t[k] \in DecoderSet
  /\ \A k \in 1 .. Len(s) : t[k] = Scan(t[k - 1], 1, s[k], limit)

LEMMA FeedScanned ==
  ASSUME NEW d \in DecoderSet, NEW s \in Seq({0, 1}), NEW limit
  PROVE  \E t : IsSampled(t, d, s, limit) /\ feed(d, s, limit) = t[Len(s)]
<1> DEFINE t == Scanned(d, s, limit)
<1>1. IsScanned(t, d, s, limit)
  BY ScannedUnfolds
<1>2. feed(d, s, limit) = t[Len(s)]
  BY DEF feed
<1> HIDE DEF t
<1>3. t[0] = d /\ \A k \in 0 .. Len(s) : t[k] \in DecoderSet
  BY <1>1, ScannedRun, ScannedType
<1>4. \A k \in 1 .. Len(s) : t[k] = Scan(t[k - 1], 1, s[k], limit)
  BY <1>1, ScannedSample
<1>5. IsSampled(t, d, s, limit)
  BY <1>3, <1>4 DEF IsSampled
<1> QED  BY <1>2, <1>5

LEMMA FeedType ==
  ASSUME NEW d \in DecoderSet, NEW s \in Seq({0, 1}), NEW limit
  PROVE  feed(d, s, limit) \in DecoderSet
<1>1. Len(s) \in 0 .. Len(s)
  OBVIOUS
<1> QED  BY <1>1, FeedScanned DEF IsSampled

LEMMA FeedNothing ==
  ASSUME NEW d \in DecoderSet, NEW limit
  PROVE  feed(d, <<>>, limit) = d
<1>1. <<>> \in Seq({0, 1}) /\ Len(<<>>) = 0
  OBVIOUS
<1>2. PICK t : IsSampled(t, d, <<>>, limit) /\ feed(d, <<>>, limit) = t[Len(<<>>)]
  BY <1>1, FeedScanned
<1> QED  BY <1>1, <1>2 DEF IsSampled

(* Two chunks are decoded as one. *)
LEMMA FeedInTwo ==
  ASSUME NEW d \in DecoderSet, NEW x \in Seq({0, 1}), NEW y \in Seq({0, 1}), NEW limit
  PROVE  feed(feed(d, x, limit), y, limit) = feed(d, x \o y, limit)
<1> DEFINE z == x \o y
           m == Len(x)
           n == Len(y)
<1>1. /\ z \in Seq({0, 1}) /\ m \in Nat /\ n \in Nat /\ Len(z) = m + n
      /\ \A k \in 1 .. m : z[k] = x[k]
      /\ \A k \in 1 .. n : z[m + k] = y[k]
  OBVIOUS
<1> HIDE DEF z
<1>2. PICK u : IsSampled(u, d, x, limit) /\ feed(d, x, limit) = u[m]
  BY FeedScanned
<1>3. u[m] \in DecoderSet
  BY <1>1, <1>2 DEF IsSampled
<1>4. PICK v : IsSampled(v, u[m], y, limit) /\ feed(u[m], y, limit) = v[n]
  BY <1>3, FeedScanned
<1>5. PICK t : IsSampled(t, d, z, limit) /\ feed(d, z, limit) = t[Len(z)]
  BY <1>1, FeedScanned
<1>9. /\ u[0] = d /\ v[0] = u[m] /\ t[0] = d
      /\ \A k \in 1 .. m : u[k] = Scan(u[k - 1], 1, x[k], limit)
      /\ \A k \in 1 .. n : v[k] = Scan(v[k - 1], 1, y[k], limit)
      /\ \A k \in 1 .. Len(z) : t[k] = Scan(t[k - 1], 1, z[k], limit)
  BY <1>2, <1>4, <1>5 DEF IsSampled
<1> HIDE DEF m, n
<1> DEFINE G == {k \in Nat : k <= m => t[k] = u[k]}
           H == {k \in Nat : k <= n => t[m + k] = v[k]}
<1>6. Nat \subseteq G
  <2>1. 0 \in G
    BY <1>9
  <2>2. ASSUME NEW k \in Nat, k \in G PROVE k + 1 \in G
    <3> SUFFICES ASSUME k + 1 <= m PROVE t[k + 1] = u[k + 1]
      OBVIOUS
    <3>1. k + 1 \in 1 .. m /\ k + 1 \in 1 .. Len(z) /\ (k + 1) - 1 = k
      BY <1>1
    <3>2. u[k + 1] = Scan(u[k], 1, x[k + 1], limit) /\ t[k + 1] = Scan(t[k], 1, z[k + 1], limit)
      BY <1>9, <3>1
    <3>3. t[k] = u[k] /\ z[k + 1] = x[k + 1]
      BY <1>1, <2>2, <3>1
    <3> QED  BY <3>2, <3>3
  <2> HIDE DEF G
  <2> QED  BY <2>1, <2>2, Induction
<1>7. Nat \subseteq H
  <2>1. 0 \in H
    <3>1. t[m] = u[m] /\ m + 0 = m
      BY <1>1, <1>6
    <3> QED  BY <1>9, <3>1
  <2>2. ASSUME NEW k \in Nat, k \in H PROVE k + 1 \in H
    <3> SUFFICES ASSUME k + 1 <= n PROVE t[m + (k + 1)] = v[k + 1]
      OBVIOUS
    <3> DEFINE j == m + (k + 1)
    <3>1. k + 1 \in 1 .. n /\ j \in 1 .. Len(z) /\ (k + 1) - 1 = k /\ j - 1 = m + k
      BY <1>1
    <3>2. z[j] = y[k + 1] /\ t[m + k] = v[k]
      BY <1>1, <2>2, <3>1
    <3> HIDE DEF j
    <3>3. v[k + 1] = Scan(v[k], 1, y[k + 1], limit) /\ t[j] = Scan(t[m + k], 1, z[j], limit)
      BY <1>9, <3>1
    <3>4. t[j] = v[k + 1]
      BY <3>2, <3>3
    <3> QED  BY <3>4 DEF j
  <2> HIDE DEF H
  <2> QED  BY <2>1, <2>2, Induction
<1>8. t[m + n] = v[n]
  BY <1>1, <1>7
<1> QED  BY <1>1, <1>2, <1>4, <1>5, <1>8 DEF z

(* A frame starts where the level falls. *)
LEMMA ScanStarts ==
  ASSUME NEW d \in DecoderSet, NEW level \in {0, 1}, NEW limit,
         NEW P \in SUBSET Nat, d.starts \in Seq(P), d.start \in P \cup {Idle},
         ~(Len(d.data) >= limit) /\ d.previous = 1 /\ level = 0 => d.offset \in P
  PROVE  LET e == Scan(d, 1, level, limit) IN
         /\ e.starts \in Seq(P) /\ e.start \in P \cup {Idle}
         /\ ~(Len(e.data) >= limit) => e.previous = level
<1> DEFINE a == d.offset
           C == ChangeLevel(d, a, level)
           S == {e \in DecoderSet : e.starts \in Seq(P) /\ e.start \in P \cup {Idle}}
           f == drain(C, a + 1, level)
<1>1. a \in Nat
  BY DEF DecoderSet
<1>2. CASE Len(d.data) >= limit
  <2>1. Scan(d, 1, level, limit) = [d EXCEPT !.offset = a + 1]
    BY <1>2 DEF Scan
  <2>2. LET e == [d EXCEPT !.offset = a + 1] IN
        e.starts = d.starts /\ e.start = d.start /\ e.data = d.data
    BY DEF DecoderSet
  <2> QED  BY <1>2, <2>1, <2>2
<1>3. CASE ~(Len(d.data) >= limit)
  <2>1. C \in DecoderSet /\ C.previous = level
    BY <1>1, ChangeLevelType
  <2>2. C.starts = d.starts /\ (C.start = d.start \/ (C.start = a /\ a \in P))
    <3> DEFINE e == [d EXCEPT !.previous = level]
               h == [[[e EXCEPT !.start = a] EXCEPT !.stage = 0] EXCEPT !.value = 0]
    <3>1. e.starts = d.starts /\ e.start = d.start
      BY DEF DecoderSet
    <3>2. [e EXCEPT !.high_since = a].starts = d.starts /\ [e EXCEPT !.high_since = a].start = d.start
      BY DEF DecoderSet
    <3>3. h.starts = d.starts /\ h.start = a
      BY DEF DecoderSet
    <3>4. \/ C = d \/ C = e \/ C = [e EXCEPT !.high_since = a]
          \/ C = h /\ level = 0 /\ d.previous = 1
      BY ChangeLevelCases, Zenon
    <3> HIDE DEF C, e, h
    <3> QED  BY <1>3, <3>1, <3>2, <3>3, <3>4
  <2>3. C \in S
    BY <2>1, <2>2
  <2>4. ASSUME NEW e \in S PROVE SampleBit(e, a + 1, level) \in S
    <3>1. CASE Waiting(e, a + 1)
      BY <3>1, TurnWaits
    <3>2. CASE ~Waiting(e, a + 1)
      <4>1. /\ FalseStart(e).starts = e.starts /\ FalseStart(e).start = Idle
            /\ BadStop(e).starts = e.starts /\ BadStop(e).start = Idle
            /\ NextStage(e, level).starts = e.starts /\ NextStage(e, level).start = e.start
            /\ Received(e).starts = Append(e.starts, e.start) /\ Received(e).start = Idle
        BY DEF DecoderSet, FalseStart, Received, BadStop, NextStage
      <4>2. e.start \in P /\ Append(e.starts, e.start) \in Seq(P)
        BY <3>2 DEF Waiting
      <4> DEFINE g == SampleBit(e, a + 1, level)
      <4>3. g \in DecoderSet
        BY SampleBitType
      <4>4. /\ g.starts \in {e.starts, Append(e.starts, e.start)}
            /\ g.start \in {e.start, Idle}
        BY <4>1, SampleBitCases, <3>2, Zenon
      <4> HIDE DEF g
      <4>5. g \in S
        BY <4>2, <4>3, <4>4
      <4> QED  BY <4>5 DEF g
    <3> QED  BY <3>1, <3>2
  <2>5. f \in S
    <3> HIDE DEF S, C
    <3> QED  BY <2>3, <2>4, DrainKeeps
  <2>6. f.previous = level
    BY <2>1, DrainPrevious
  <2>7. Scan(d, 1, level, limit) = [f EXCEPT !.offset = a + 1]
    BY <1>3 DEF Scan
  <2> HIDE DEF f
  <2>8. LET e == [f EXCEPT !.offset = a + 1] IN
        e.starts = f.starts /\ e.start = f.start /\ e.previous = f.previous
    BY <2>5 DEF DecoderSet
  <2> QED  BY <2>5, <2>6, <2>7, <2>8
<1> QED  BY <1>2, <1>3

LEMMA FeedStarts ==
  ASSUME NEW o \in Nat, NEW s \in Seq({0, 1}), NEW limit
  PROVE  \A i \in DOMAIN feed(Decoder(o), s, limit).starts :
           LET p == feed(Decoder(o), s, limit).starts[i] - o IN
           p \in 1 .. Len(s) - 1 /\ s[p] = 1 /\ s[p + 1] = 0
<1> DEFINE P == {p \in Nat : p - o \in 1 .. Len(s) - 1 /\ s[p - o] = 1 /\ s[p - o + 1] = 0}
           D == Decoder(o)
<1>1. /\ D \in DecoderSet /\ D.offset = o /\ D.previous = Idle /\ D.start = Idle
      /\ D.starts \in Seq(P)
  <2>1. 0 \in 0 .. STOP /\ <<>> \in Seq(Int) /\ <<>> \in Seq(Nat) /\ <<>> \in Seq(P)
    BY StopType
  <2> HIDE DEF P
  <2> QED  BY <2>1 DEF Decoder, DecoderSet
<1> HIDE DEF D
<1>9. PICK t : IsSampled(t, D, s, limit) /\ feed(D, s, limit) = t[Len(s)]
  BY <1>1, FeedScanned
<1>2. /\ t[0] = D /\ feed(D, s, limit) = t[Len(s)]
      /\ \A k \in 0 .. Len(s) : t[k] \in DecoderSet
      /\ \A k \in 1 .. Len(s) : t[k] = Scan(t[k - 1], 1, s[k], limit)
  BY <1>9 DEF IsSampled
<1> DEFINE Good(k) ==
             /\ t[k].offset = o + k
             /\ t[k].starts \in Seq(P) /\ t[k].start \in P \cup {Idle}
             /\ k = 0 => t[k].previous = Idle
             /\ k # 0 /\ ~(Len(t[k].data) >= limit) => t[k].previous = s[k]
           G == {k \in Nat : k <= Len(s) => Good(k)}
<1>3. Good(0)
  <2> HIDE DEF P
  <2> QED  BY <1>1, <1>2
<1>4. ASSUME NEW k \in Nat, k + 1 <= Len(s), Good(k) PROVE Good(k + 1)
  <2> DEFINE d == t[k]
             level == s[k + 1]
  <2>1. k + 1 \in 1 .. Len(s) /\ k \in 0 .. Len(s) /\ (k + 1) - 1 = k /\ level \in {0, 1}
    <3>1. Len(s) \in Nat /\ k + 1 \in 1 .. Len(s)
      BY ONLY <1>4, Len(s) \in Nat, k \in Nat, SMTT(30)
    <3>2. s[k + 1] \in {0, 1}
      BY <3>1
    <3> QED  BY <3>1, <3>2
  <2>2. d \in DecoderSet /\ t[k + 1] = Scan(d, 1, level, limit)
    BY <1>2, <2>1
  <2>3. ~(Len(d.data) >= limit) /\ d.previous = 1 /\ level = 0 => d.offset \in P
    <3> SUFFICES ASSUME ~(Len(d.data) >= limit), d.previous = 1, level = 0 PROVE d.offset \in P
      OBVIOUS
    <3>1. k # 0 /\ s[k] = 1
      BY <1>4, DecoderAssumption
    <3>2. d.offset = o + k
      BY <1>4
    <3>3. o + k \in Nat /\ (o + k) - o = k /\ k \in 1 .. Len(s) - 1
      BY <2>1, <3>1
    <3> QED  BY <3>1, <3>2, <3>3
  <2>4. P \in SUBSET Nat /\ d.starts \in Seq(P) /\ d.start \in P \cup {Idle} /\ d.offset = o + k
    BY <1>4
  <2> HIDE DEF P, d, level
  <2> DEFINE e == Scan(d, 1, level, limit)
  <2>5. /\ e.starts \in Seq(P) /\ e.start \in P \cup {Idle}
        /\ ~(Len(e.data) >= limit) => e.previous = level
    BY <2>1, <2>2, <2>3, <2>4, ScanStarts
  <2>6. e.offset = o + (k + 1)
    <3>1. e.offset = d.offset + 1
      BY <2>1, <2>2, ScanType
    <3> HIDE DEF e
    <3> QED  BY <2>4, <3>1
  <2> HIDE DEF e
  <2>7. t[k + 1] = e /\ k + 1 # 0
    BY <2>2 DEF e
  <2> QED  BY <2>5, <2>6, <2>7 DEF level
<1>5. Good(Len(s))
  <2> HIDE DEF Good
  <2>1. 0 \in G /\ \A k \in Nat : k \in G => k + 1 \in G
    BY <1>3, <1>4
  <2>2. Nat \subseteq G => Good(Len(s))
    OBVIOUS
  <2> HIDE DEF G
  <2> QED  BY <2>1, <2>2, Induction
<1>6. feed(D, s, limit).starts \in Seq(P)
  BY <1>2, <1>5
<1> DEFINE q == feed(D, s, limit).starts
<1> HIDE DEF q
<1>7. \A i \in DOMAIN q : q[i] \in P
  <2>1. q \in Seq(P)
    BY <1>6 DEF q
  <2> HIDE DEF P
  <2> QED  BY <2>1
<1>8. \A i \in DOMAIN q : LET p == q[i] - o IN
         p \in 1 .. Len(s) - 1 /\ s[p] = 1 /\ s[p + 1] = 0
  BY <1>7
<1> QED  BY <1>8 DEF q, D
-----------------------------------------------------------------------------
(* What is decoded. *)
(* What is written and queued are samples of the stream; none is decoded   *)
(* before the warm-up is over; and the decoders hold what they would hold  *)
(* had everything after it come in one chunk.                              *)
Samples == 1 .. Len(stream.samples)

Decoded ==
  decoders = [l \in Line |->
    feed(Decoder(WARMUP), Levels(SubSeq(raw, WARMUP + 1, Len(raw)), l), COUNT)]

WarmupInv ==
  IF ready THEN Len(raw) >= WARMUP
  ELSE /\ preflight.warmup_seen = IF Len(raw) <= WARMUP THEN Len(raw) ELSE WARMUP
       /\ preflight.idle_seen \in Nat
       /\ preflight.idle_seen > 0 => Len(raw) >= WARMUP

PieceInv ==
  /\ rstep \in {"new", "check", "report", "claim", "arm"} =>
       read = 0 /\ raw = <<>> /\ queue = <<>> /\ ~ready
  /\ Running =>
       /\ stream \in Streams
       /\ read \in 0 .. Len(stream.samples)
       /\ raw \in Seq(Samples) /\ queue \in Seq(Seq(Samples))
  /\ reader # "none" => Running
  /\ rstatus = "CAPTURED" => rstep \in {"join", "finalize", "recorded"}
  /\ rstep = "loop" => WarmupInv
  /\ rstep = "loop" \/ rstatus = "CAPTURED" => Decoded

pieceVars == <<rstep, read, raw, queue, stream, reader, rstatus, decoders, preflight, ready>>

(* The levels of a line, joined and cut as the samples are. *)
LEMMA LevelsType ==
  ASSUME stream \in Streams, NEW c \in Seq(Samples), NEW l \in Line
  PROVE  Levels(c, l) \in Seq({0, 1}) /\ Len(Levels(c, l)) = Len(c)
<1>1. stream.samples \in Seq({0, 1} \X {0, 1})
  BY SamplesAssumption
<1> DEFINE w == stream.samples
           j == IF l = "reference" THEN 1 ELSE 2
<1>2. Levels(c, l) = [i \in DOMAIN c |-> w[c[i]][j]]
  BY DEF Levels
<1> HIDE DEF w
<1>3. c \in Seq(1 .. Len(w)) /\ w \in Seq({0, 1} \X {0, 1})
  BY <1>1 DEF w, Samples
<1>4. \A i \in DOMAIN c : c[i] \in 1 .. Len(w)
  BY <1>3
<1>5. \A k \in 1 .. Len(w) : w[k] \in {0, 1} \X {0, 1}
  BY <1>3
<1>6. \A p \in {0, 1} \X {0, 1} : p[j] \in {0, 1}
  OBVIOUS
<1> HIDE DEF j
<1>7. \A i \in DOMAIN c : w[c[i]][j] \in {0, 1}
  BY <1>4, <1>5, <1>6, SMTT(30)
<1> QED  BY <1>2, <1>3, <1>7

LEMMA LevelsConcat ==
  ASSUME NEW T, NEW c \in Seq(T), NEW d \in Seq(T), NEW l \in Line
  PROVE  Levels(c \o d, l) = Levels(c, l) \o Levels(d, l)
<1> DEFINE j == IF l = "reference" THEN 1 ELSE 2
           L(s) == [i \in DOMAIN s |-> stream.samples[s[i]][j]]
           V == {stream.samples[k][j] : k \in T}
           p == L(c)
           q == L(d)
           r == L(c \o d)
           m == Len(c)
           n == Len(d)
<1>1. \A s : Levels(s, l) = L(s)
  BY DEF Levels
<1>2. /\ m \in Nat /\ n \in Nat
      /\ p \in Seq(V) /\ Len(p) = m /\ \A i \in 1 .. m : p[i] = stream.samples[c[i]][j]
      /\ q \in Seq(V) /\ Len(q) = n /\ \A i \in 1 .. n : q[i] = stream.samples[d[i]][j]
  OBVIOUS
<1>3. r \in Seq(V) /\ Len(r) = m + n
      /\ \A i \in 1 .. m + n :
           r[i] = IF i <= m THEN stream.samples[c[i]][j] ELSE stream.samples[d[i - m]][j]
  <2> DEFINE x == c \o d
  <2>1. x \in Seq(T) /\ Len(x) = m + n
        /\ \A i \in 1 .. m + n : x[i] = IF i <= m THEN c[i] ELSE d[i - m]
    BY ConcatProperties
  <2>2. x \in Seq(T) /\ L(x) \in Seq(V) /\ Len(L(x)) = Len(x)
        /\ \A i \in 1 .. Len(x) : L(x)[i] = stream.samples[x[i]][j]
    <3> HIDE DEF x
    <3> QED  BY <2>1
  <2> HIDE DEF x, m, n, j
  <2> QED  BY <2>1, <2>2 DEF x
<1> HIDE DEF p, q, r, m, n, V, j
<1>4. p \o q \in Seq(V) /\ Len(p \o q) = m + n
      /\ \A i \in 1 .. m + n : (p \o q)[i] = IF i <= m THEN p[i] ELSE q[i - m]
  BY <1>2, ConcatProperties
<1>5. \A i \in 1 .. m + n : IF i <= m THEN i \in 1 .. m ELSE i - m \in 1 .. n
  BY <1>2
<1>6. \A i \in 1 .. m + n : r[i] = (p \o q)[i]
  BY <1>2, <1>3, <1>4, <1>5, ZenonT(40)
<1>7. r = p \o q
  <2> DEFINE u == p \o q
  <2>1. u \in Seq(V) /\ Len(u) = Len(r) /\ \A i \in 1 .. Len(r) : r[i] = u[i]
    BY <1>3, <1>4, <1>6
  <2> HIDE DEF u
  <2>2. r = u
    BY <1>3, <2>1, SeqEqual
  <2> QED  BY <2>2 DEF u
<1> QED  BY <1>1, <1>7 DEF p, q, r

(* What comes after the warm-up, when a chunk is added. *)
LEMMA AfterWarmup ==
  ASSUME NEW T, NEW s \in Seq(T), NEW c \in Seq(T), NEW w \in Nat, NEW k \in 0 .. Len(c),
         IF Len(s) >= w THEN k = 0 ELSE k = Len(c) \/ k = w - Len(s),
         Len(s) < w => k <= w - Len(s)
  PROVE  SubSeq(s \o c, w + 1, Len(s \o c))
           = SubSeq(s, w + 1, Len(s)) \o SubSeq(c, k + 1, Len(c))
<1> DEFINE m == Len(s)
           n == Len(c)
           p == SubSeq(s, w + 1, m)
           q == SubSeq(c, k + 1, n)
           x == s \o c
           r == SubSeq(x, w + 1, Len(x))
           v == IF w <= m THEN m - w ELSE 0
           z == IF w <= m + n THEN m + n - w ELSE 0
<1>1. m \in Nat /\ n \in Nat /\ x \in Seq(T) /\ Len(x) = m + n
      /\ \A i \in 1 .. m + n : x[i] = IF i <= m THEN s[i] ELSE c[i - m]
  OBVIOUS
<1>2. /\ p \in Seq(T) /\ Len(p) = v
      /\ \A i \in 1 .. v : p[i] = s[w + i]
  OBVIOUS
<1>3. q \in Seq(T) /\ Len(q) = n - k /\ \A i \in 1 .. n - k : q[i] = c[k + i]
  OBVIOUS
<1>4. /\ r \in Seq(T) /\ Len(r) = z
      /\ \A i \in 1 .. z : r[i] = x[w + i]
  <2> HIDE DEF x
  <2> QED  BY <1>1
<1>5. /\ p \o q \in Seq(T) /\ Len(p \o q) = v + (n - k)
      /\ \A i \in 1 .. v + (n - k) : (p \o q)[i] = IF i <= v THEN p[i] ELSE q[i - v]
  <2> DEFINE e == n - k
  <2>1. p \in Seq(T) /\ q \in Seq(T) /\ Len(p) = v /\ Len(q) = e
    BY <1>2, <1>3
  <2> HIDE DEF p, q, v, e
  <2>2. /\ p \o q \in Seq(T) /\ Len(p \o q) = v + e
        /\ \A i \in 1 .. v + e : (p \o q)[i] = IF i <= v THEN p[i] ELSE q[i - v]
    BY <2>1, ConcatProperties
  <2> QED  BY <2>2 DEF e
<1>6. /\ k \in Nat /\ k <= n /\ w \in Nat
      /\ IF m >= w THEN k = 0 ELSE (k = n \/ k = w - m) /\ k <= w - m
  OBVIOUS
<1> HIDE DEF p, q, r, x, m, n
<1>7. z = v + (n - k) /\ v \in Nat
  BY ONLY <1>1, <1>6
<1>8. z \in Nat
  BY ONLY <1>1, <1>6
<1> HIDE DEF v, z
<1>9. ASSUME NEW i \in 1 .. z PROVE r[i] = (p \o q)[i]
  <2> DEFINE y == w + i
             g == i - v
  <2>1. /\ y \in 1 .. m + n /\ i \in 1 .. v + (n - k)
        /\ (y <= m) <=> (i <= v)
        /\ i <= v => i \in 1 .. v
        /\ ~(i <= v) => g \in 1 .. n - k /\ y - m = k + g
    BY ONLY <1>1, <1>6, i \in 1 .. z DEF v, z
  <2>2. r[i] = x[y]
    BY <1>4
  <2>3. p[i] = s[y] \/ ~(i <= v)
    BY <1>2, <2>1
  <2>4. ~(i <= v) => q[g] = c[y - m]
    BY <1>3, <2>1
  <2>5. (p \o q)[i] = IF i <= v THEN p[i] ELSE q[g]
    BY <1>5, <2>1
  <2> HIDE DEF y, g
  <2>6. x[y] = IF y <= m THEN s[y] ELSE c[y - m]
    BY <1>1, <2>1
  <2> QED  BY ONLY <2>1, <2>2, <2>3, <2>4, <2>5, <2>6
<1>10. r = p \o q
  <2> DEFINE u == p \o q
  <2>1. u \in Seq(T) /\ Len(u) = Len(r) /\ \A i \in 1 .. Len(r) : r[i] = u[i]
    BY <1>4, <1>5, <1>7, <1>9
  <2> HIDE DEF u
  <2>2. r = u
    BY <1>4, <2>1, SeqEqual
  <2> QED  BY <2>2 DEF u
<1> QED  BY <1>10 DEF p, q, r, x, m, n

LEMMA MinOfTwo ==
  ASSUME NEW a \in Nat, NEW b \in Nat
  PROVE  Min({a, b}) = IF a <= b THEN a ELSE b
<1>1. Min({a, b}) \in {a, b} /\ \A x \in {a, b} : Min({a, b}) <= x
  BY MinIsLeast
<1> QED  BY <1>1

LEMMA InitPiece == Init => PieceInv
BY RecordAssumption DEF Init, RecordInit, PieceInv, Running

LEMMA PieceKept == PieceInv /\ UNCHANGED pieceVars => PieceInv'
<1> SUFFICES ASSUME PieceInv, UNCHANGED pieceVars PROVE PieceInv'
  OBVIOUS
<1>1. UNCHANGED <<rstep, read, raw, queue, stream, reader, rstatus, decoders, preflight, ready>>
  BY DEF pieceVars
<1>2. Decoded = Decoded' /\ WarmupInv = WarmupInv' /\ Samples = Samples' /\ Running = Running'
  BY <1>1 DEF Decoded, WarmupInv, Samples, Levels, Running
<1> QED  BY <1>1, <1>2 DEF PieceInv

LEMMA DecoderType == ASSUME NEW o \in Nat PROVE Decoder(o) \in DecoderSet
<1>1. 0 \in 0 .. STOP /\ <<>> \in Seq(Int) /\ <<>> \in Seq(Nat)
  BY StopType
<1> QED  BY <1>1 DEF Decoder, DecoderSet

LEMMA NothingDecoded ==
  [l \in Line |-> Decoder(WARMUP)] = [l \in Line |->
    feed(Decoder(WARMUP), Levels(SubSeq(<<>>, WARMUP + 1, Len(<<>>)), l), COUNT)]
<1>1. SubSeq(<<>>, WARMUP + 1, Len(<<>>)) = <<>>
  BY SamplesAssumption
<1>2. \A l \in Line : Levels(<<>>, l) = <<>>
  BY DEF Levels
<1>3. Decoder(WARMUP) \in DecoderSet
  BY SamplesAssumption, DecoderType
<1>4. feed(Decoder(WARMUP), <<>>, COUNT) = Decoder(WARMUP)
  BY <1>3, FeedNothing
<1> QED  BY <1>1, <1>2, <1>4

LEMMA FirstDecoded == decoders = [l \in Line |-> Decoder(WARMUP)] /\ raw = <<>> => Decoded
BY NothingDecoded DEF Decoded

LEMMA ArmPiece == PieceInv /\ Arm => PieceInv'
<1> SUFFICES ASSUME PieceInv, Arm PROVE PieceInv'
  OBVIOUS
<1>1. /\ read = 0 /\ raw = <<>> /\ queue = <<>> /\ ~ready /\ rstatus # "CAPTURED"
      /\ read' = 0 /\ raw' = <<>> /\ queue' = <<>> /\ ~ready' /\ stream' \in Streams
  BY DEF PieceInv, Arm
<1>2. stream'.samples \in Seq({0, 1} \X {0, 1})
  BY <1>1, SamplesAssumption
<1>3. /\ read' \in 0 .. Len(stream'.samples)
      /\ raw' \in Seq(Samples') /\ queue' \in Seq(Seq(Samples'))
  BY <1>1, <1>2
<1>4. CASE rstep' = "loop"
  <2>1. /\ decoders' = [l \in Line |-> Decoder(WARMUP)]
        /\ preflight'.warmup_seen = 0 /\ preflight'.idle_seen = 0 /\ rstatus' = rstatus
    BY <1>4 DEF Arm, SetupFails
  <2>2. stream' \in Streams /\ Decoded'
    <3>1. (decoders = [l \in Line |-> Decoder(WARMUP)] /\ raw = <<>> => Decoded)'
      BY FirstDecoded, PTL
    <3> QED  BY <1>1, <2>1, <3>1
  <2>3. WarmupInv'
    BY <1>1, <2>1, SamplesAssumption DEF WarmupInv
  <2> QED  BY <1>1, <1>3, <1>4, <2>1, <2>2, <2>3 DEF PieceInv, Running
<1>5. CASE rstep' = "finalize"
  <2>1. rstatus' = "FAIL"
    BY <1>5 DEF Arm, SetupFails
  <2> QED  BY <1>1, <1>3, <1>5, <2>1 DEF PieceInv, Running
<1> QED  BY <1>4, <1>5 DEF Arm, SetupFails

LEMMA ReaderPiece == PieceInv /\ ReaderStep => PieceInv'
<1> SUFFICES ASSUME PieceInv, ReaderStep PROVE PieceInv'
  OBVIOUS
<1>1. /\ reader # "none" /\ Running /\ Running'
      /\ UNCHANGED <<rstep, raw, stream, rstatus, decoders, preflight, ready>>
  BY DEF PieceInv, ReaderStep, StartRecord, Poll, SeeStop, StopRecord, readerElse, gathered, Running
<1>2. read' \in 0 .. Len(stream.samples) /\ queue' \in Seq(Seq(Samples))
  <2>1. read \in 0 .. Len(stream.samples) /\ queue \in Seq(Seq(Samples))
        /\ Len(stream.samples) \in Nat
    <3>1. stream \in Streams /\ stream.samples \in Seq({0, 1} \X {0, 1})
      BY <1>1, SamplesAssumption DEF PieceInv
    <3> QED  BY <1>1, <3>1 DEF PieceInv
  <2>2. CASE UNCHANGED <<read, queue>>
    BY <2>1, <2>2
  <2>3. ASSUME NEW n \in CHUNKS, read + n <= Len(stream.samples), read' = read + n,
               Put(Positions(read, n))
        PROVE  read' \in 0 .. Len(stream.samples) /\ queue' \in Seq(Seq(Samples))
    <3>1. n \in Nat
      BY ChunksAssumption
    <3>2. Positions(read, n) \in Seq(Samples)
      BY <2>1, <2>3, <3>1 DEF Positions, Samples
    <3>3. queue' = queue \/ queue' = Append(queue, Positions(read, n))
      BY <2>3 DEF Put
    <3>4. Append(queue, Positions(read, n)) \in Seq(Seq(Samples))
      BY <2>1, <3>2, AppendProperties
    <3>5. queue' \in Seq(Seq(Samples))
      BY <2>1, <3>3, <3>4
    <3>6. read' \in 0 .. Len(stream.samples)
      <4> DEFINE k == Len(stream.samples)
      <4>1. k \in Nat /\ read \in 0 .. k /\ read + n <= k
        BY <2>1, <2>3
      <4> HIDE DEF k
      <4>2. read + n \in 0 .. k
        BY ONLY <3>1, <4>1
      <4> QED  BY <2>3, <4>2 DEF k
    <3> QED  BY <3>5, <3>6
  <2> QED  BY <2>2, <2>3 DEF ReaderStep, StartRecord, Poll, SeeStop, StopRecord, Lose
<1>3. Decoded = Decoded' /\ WarmupInv = WarmupInv' /\ Samples = Samples'
  BY <1>1 DEF Decoded, WarmupInv, Samples, Levels
<1> QED  BY <1>1, <1>2, <1>3 DEF PieceInv, Running

(* A turn, of a chunk that lies in the stream. *)
LEMMA TurnParts ==
  ASSUME PieceInv, rstep = "loop", NEW chunk \in Seq(Samples),
         NEW useful, useful = IF ready THEN chunk ELSE IdlePart(chunk)
  PROVE  /\ useful \in Seq(Samples)
         /\ SubSeq(raw \o chunk, WARMUP + 1, Len(raw \o chunk))
              = SubSeq(raw, WARMUP + 1, Len(raw)) \o useful
         /\ ~ready =>
              /\ Fed(chunk).warmup_seen =
                   IF Len(raw \o chunk) <= WARMUP THEN Len(raw \o chunk) ELSE WARMUP
              /\ Fed(chunk).idle_seen \in Nat
              /\ Fed(chunk).idle_seen > 0 => Len(raw \o chunk) >= WARMUP
<1> DEFINE m == Len(raw)
           n == Len(chunk)
           b == WARMUP - preflight.warmup_seen
           k == IF ready THEN 0 ELSE IF n <= b THEN n ELSE b
<1>1. raw \in Seq(Samples) /\ m \in Nat /\ n \in Nat /\ WARMUP \in Nat /\ WarmupInv
  BY SamplesAssumption DEF PieceInv, Running
<1>2. raw \o chunk \in Seq(Samples) /\ Len(raw \o chunk) = m + n
  BY <1>1, ConcatProperties
<1>3. /\ ready => m >= WARMUP
      /\ ~ready => /\ preflight.warmup_seen = IF m <= WARMUP THEN m ELSE WARMUP
                   /\ preflight.idle_seen \in Nat
                   /\ preflight.idle_seen > 0 => m >= WARMUP
  BY <1>1 DEF WarmupInv
<1>4. ~ready => b \in Nat /\ b = IF m <= WARMUP THEN WARMUP - m ELSE 0
  BY <1>1, <1>3
<1>5. ~ready => Min({n, b}) = k
  BY <1>1, <1>4, MinOfTwo
<1>6. useful = SubSeq(chunk, k + 1, n)
  <2>1. CASE ready
    <3>1. k = 0
      BY <2>1
    <3> HIDE DEF k
    <3>2. SubSeq(chunk, k + 1, n) = chunk
      BY <3>1
    <3> QED  BY <2>1, <3>2
  <2>2. CASE ~ready
    <3>1. IdlePart(chunk) = SubSeq(chunk, Min({n, b}) + 1, n)
      BY DEF IdlePart
    <3> HIDE DEF k, b, n
    <3> QED  BY <1>5, <2>2, <3>1
  <2> QED  BY <2>1, <2>2
<1>7. /\ k \in 0 .. n
      /\ IF m >= WARMUP THEN k = 0 ELSE k = n \/ k = WARMUP - m
      /\ m < WARMUP => k <= WARMUP - m
  <2>1. CASE ready
    BY <1>1, <1>3, <2>1
  <2>2. CASE ~ready
    <3> DEFINE e == IF n <= b THEN n ELSE b
    <3>1. k = e
      BY <2>2
    <3>2. b \in Nat /\ b = IF m <= WARMUP THEN WARMUP - m ELSE 0
      BY <1>4, <2>2
    <3> HIDE DEF k, b, m, n
    <3>3. /\ e \in 0 .. n
          /\ IF m >= WARMUP THEN e = 0 ELSE e = n \/ e = WARMUP - m
          /\ m < WARMUP => e <= WARMUP - m
      BY ONLY <1>1, <3>2
    <3> QED  BY <3>1, <3>3
  <2> QED  BY <2>1, <2>2
<1> HIDE DEF k
<1>8. SubSeq(raw \o chunk, WARMUP + 1, Len(raw \o chunk))
        = SubSeq(raw, WARMUP + 1, m) \o SubSeq(chunk, k + 1, n)
  BY <1>1, <1>7, AfterWarmup
<1>9. SubSeq(chunk, k + 1, n) \in Seq(Samples) /\ Len(SubSeq(chunk, k + 1, n)) = n - k
  BY <1>1, <1>7
<1>10. Len(SubSeq(chunk, 1, k)) = k
  BY <1>1, <1>7
<1>11. ASSUME ~ready
       PROVE  /\ Fed(chunk).warmup_seen = IF m + n <= WARMUP THEN m + n ELSE WARMUP
              /\ Fed(chunk).idle_seen \in Nat
              /\ Fed(chunk).idle_seen > 0 => m + n >= WARMUP
  <2> DEFINE u == preflight.idle_seen
             g == Fed(chunk).idle_seen
             s == preflight.warmup_seen
  <2>1. WarmupPart(chunk) = SubSeq(chunk, 1, k) /\ IdlePart(chunk) = SubSeq(chunk, k + 1, n)
    <3>1. WarmupPart(chunk) = SubSeq(chunk, 1, Min({n, b}))
          /\ IdlePart(chunk) = SubSeq(chunk, Min({n, b}) + 1, n)
      BY DEF WarmupPart, IdlePart
    <3> HIDE DEF b, n
    <3> QED  BY <1>5, <1>11, <3>1
  <2>2. Fed(chunk).warmup_seen = s + k /\ (g = u + 0 \/ g = u + (n - k))
    BY <1>9, <1>10, <2>1 DEF Fed
  <2>3. s = (IF m <= WARMUP THEN m ELSE WARMUP) /\ u \in Nat /\ (u > 0 => m >= WARMUP)
    BY <1>3, <1>11
  <2>4. k = IF n <= WARMUP - s THEN n ELSE WARMUP - s
    BY <1>11 DEF k
  <2> HIDE DEF u, g, s, m, n
  <2>5. s + k = IF m + n <= WARMUP THEN m + n ELSE WARMUP
    BY ONLY <1>1, <2>3, <2>4
  <2>6. g \in Nat /\ (g > 0 => m + n >= WARMUP)
    BY ONLY <1>1, <1>7, <2>2, <2>3, <2>4
  <2> QED  BY <2>2, <2>5, <2>6 DEF g
<1> QED  BY <1>2, <1>6, <1>8, <1>9, <1>11

(* The part of a turn that is decoded, added to what was decoded before. *)
LEMMA DecodedGrows ==
  ASSUME PieceInv, Running, Decoded, NEW x \in Seq(Samples), NEW u \in Seq(Samples),
         SubSeq(x, WARMUP + 1, Len(x)) = SubSeq(raw, WARMUP + 1, Len(raw)) \o u
  PROVE  [l \in Line |-> feed(decoders[l], Levels(u, l), COUNT)] = [l \in Line |->
           feed(Decoder(WARMUP), Levels(SubSeq(x, WARMUP + 1, Len(x)), l), COUNT)]
<1> DEFINE v == SubSeq(raw, WARMUP + 1, Len(raw))
           D == Decoder(WARMUP)
<1>1. stream \in Streams /\ raw \in Seq(Samples) /\ WARMUP \in Nat
  BY SamplesAssumption DEF PieceInv
<1>2. v \in Seq(Samples)
  BY <1>1
<1>3. D \in DecoderSet
  BY <1>1, DecoderType
<1>4. \A l \in Line : decoders[l] = feed(D, Levels(v, l), COUNT)
  BY DEF Decoded
<1>5. SubSeq(x, WARMUP + 1, Len(x)) = v \o u
  OBVIOUS
<1> HIDE DEF v, D
<1>6. ASSUME NEW l \in Line
      PROVE  feed(decoders[l], Levels(u, l), COUNT) = feed(D, Levels(v \o u, l), COUNT)
  <2>1. Levels(v, l) \in Seq({0, 1}) /\ Levels(u, l) \in Seq({0, 1})
    BY <1>1, <1>2, LevelsType
  <2>2. Levels(v \o u, l) = Levels(v, l) \o Levels(u, l)
    BY <1>2, LevelsConcat
  <2>3. feed(feed(D, Levels(v, l), COUNT), Levels(u, l), COUNT)
          = feed(D, Levels(v, l) \o Levels(u, l), COUNT)
    BY <1>3, <2>1, FeedInTwo
  <2> QED  BY <1>4, <2>2, <2>3
<1> QED  BY <1>5, <1>6 DEF D

LEMMA TurnPiece == PieceInv /\ Turn => PieceInv'
<1> SUFFICES ASSUME PieceInv, Turn PROVE PieceInv'
  OBVIOUS
<1> DEFINE chunk == IF queue = <<>> THEN <<>> ELSE Head(queue)
           useful == IF ready THEN chunk ELSE IdlePart(chunk)
           arming == IF ready THEN preflight ELSE Fed(chunk)
           x == raw \o chunk
<1>1. /\ rstep = "loop" /\ Running /\ stream \in Streams /\ raw \in Seq(Samples)
      /\ queue \in Seq(Seq(Samples)) /\ read \in 0 .. Len(stream.samples)
      /\ rstatus # "CAPTURED" /\ Decoded /\ WarmupInv
  BY DEF Turn, PieceInv, Running
<1>2. chunk \in Seq(Samples) /\ (IF queue = <<>> THEN <<>> ELSE Tail(queue)) \in Seq(Seq(Samples))
  BY <1>1
<1>3. /\ raw' = x /\ queue' = (IF queue = <<>> THEN <<>> ELSE Tail(queue))
      /\ preflight' = arming
      /\ UNCHANGED <<stream, read, reader>>
      /\ rstep' \in {"loop", "join"}
  BY <1>1 DEF Turn, LoopFails, Leave, thread
<1>4. \/ rstep' = "join" /\ rstatus' = "FAIL"
      \/ /\ decoders' = [l \in Line |-> feed(decoders[l], Levels(useful, l), COUNT)]
         /\ ready' = (ready \/ arming.idle_seen >= IDLE)
         /\ \/ rstep' = "join" /\ rstatus' = "CAPTURED"
            \/ rstep' = "loop" /\ rstatus' = rstatus
  BY <1>1 DEF Turn, LoopFails, Leave
<1> HIDE DEF chunk
<1>5. /\ useful \in Seq(Samples)
      /\ SubSeq(x, WARMUP + 1, Len(x)) = SubSeq(raw, WARMUP + 1, Len(raw)) \o useful
      /\ ~ready => /\ Fed(chunk).warmup_seen = IF Len(x) <= WARMUP THEN Len(x) ELSE WARMUP
                   /\ Fed(chunk).idle_seen \in Nat
                   /\ Fed(chunk).idle_seen > 0 => Len(x) >= WARMUP
  BY <1>1, <1>2, TurnParts
<1>6. x \in Seq(Samples) /\ Len(x) = Len(raw) + Len(chunk) /\ Len(chunk) \in Nat /\ Len(raw) \in Nat
  BY <1>1, <1>2, ConcatProperties
<1> HIDE DEF useful, x
<1>7. /\ Running' /\ Samples' = Samples /\ stream' \in Streams
      /\ read' \in 0 .. Len(stream'.samples)
      /\ raw' \in Seq(Samples') /\ queue' \in Seq(Seq(Samples'))
  BY <1>1, <1>2, <1>3, <1>6 DEF Running, Samples
<1>8. CASE rstep' = "join" /\ rstatus' = "FAIL"
  BY <1>7, <1>8 DEF PieceInv
<1>9. CASE /\ decoders' = [l \in Line |-> feed(decoders[l], Levels(useful, l), COUNT)]
           /\ ready' = (ready \/ arming.idle_seen >= IDLE)
           /\ \/ rstep' = "join" /\ rstatus' = "CAPTURED"
              \/ rstep' = "loop" /\ rstatus' = rstatus
  <2>1. [l \in Line |-> feed(decoders[l], Levels(useful, l), COUNT)] = [l \in Line |->
           feed(Decoder(WARMUP), Levels(SubSeq(x, WARMUP + 1, Len(x)), l), COUNT)]
    BY <1>1, <1>5, <1>6, DecodedGrows
  <2>2. Decoded'
    BY <1>3, <1>9, <2>1 DEF Decoded, Levels
  <2>3. WarmupInv'
    <3>1. CASE ready
      <4>1. Len(raw) >= WARMUP
        BY <1>1, <3>1 DEF WarmupInv
      <4>2. Len(x) >= WARMUP
        BY <1>6, <4>1, SamplesAssumption
      <4> QED  BY <1>3, <1>9, <3>1, <4>2 DEF WarmupInv
    <3>2. CASE ~ready
      <4>1. arming = Fed(chunk)
        BY <3>2
      <4>2. ready' => Len(x) >= WARMUP
        <5> DEFINE g == Fed(chunk).idle_seen
        <5>1. ready' => g >= IDLE
          BY <1>9, <3>2, <4>1
        <5>2. g \in Nat /\ (g > 0 => Len(x) >= WARMUP)
          BY <1>5, <3>2
        <5> HIDE DEF g
        <5>3. g >= IDLE => g > 0
          BY <5>2, SamplesAssumption
        <5> QED  BY <5>1, <5>2, <5>3
      <4>3. preflight' = Fed(chunk)
        BY <1>3, <4>1
      <4> QED  BY <1>3, <1>5, <3>2, <4>2, <4>3 DEF WarmupInv
    <3> QED  BY <3>1, <3>2
  <2>4. rstep' \in {"loop", "join"} /\ (rstatus' = "CAPTURED" => rstep' = "join")
    BY <1>1, <1>9
  <2> QED  BY <1>7, <2>2, <2>3, <2>4 DEF PieceInv
<1> QED  BY <1>4, <1>8, <1>9

LEMMA EndPiece ==
  PieceInv /\ (TimeUp \/ ReaderFailed \/ Join \/ InterruptJoin \/ Finalize) => PieceInv'
<1> SUFFICES ASSUME PieceInv, TimeUp \/ ReaderFailed \/ Join \/ InterruptJoin \/ Finalize
             PROVE PieceInv'
  OBVIOUS
<1>1. /\ Running /\ Running' /\ UNCHANGED <<read, raw, queue, stream, decoders>>
      /\ rstep' \in {"join", "finalize", "recorded"}
      /\ rstatus' = rstatus \/ rstatus' = "FAIL"
      /\ rstatus' = "CAPTURED" => rstatus = "CAPTURED"
  BY DEF TimeUp, ReaderFailed, Join, InterruptJoin, Finalize, LoopFails, Leave, loopOnly,
     thread, gathered, Running
<1>2. Samples = Samples' /\ Decoded = Decoded'
  BY <1>1 DEF Samples, Decoded, Levels
<1> QED  BY <1>1, <1>2 DEF PieceInv

LEMMA NextPiece == PieceInv /\ [Next]_vars => PieceInv'
<1> SUFFICES ASSUME PieceInv, [Next]_vars PROVE PieceInv'
  OBVIOUS
<1>1. CASE Turn
  BY <1>1, TurnPiece
<1>2. CASE ReaderStep
  BY <1>2, ReaderPiece
<1>3. CASE Arm
  BY <1>3, ArmPiece
<1>4. CASE Load \/ Check \/ Report \/ Claim
  <2>1. /\ UNCHANGED <<read, raw, queue, stream, reader, decoders, preflight, ready>>
        /\ rstep \in {"new", "check", "report", "claim"}
        /\ rstep' \in {"check", "report", "claim", "arm", "refused"}
        /\ rstatus' = rstatus \/ rstatus' = "RUNNING"
    BY <1>4 DEF Load, Check, Report, Claim, Refuse, thread, gathered
  <2> QED  BY <2>1 DEF PieceInv, Running
<1>5. CASE TimeUp \/ ReaderFailed \/ Join \/ InterruptJoin \/ Finalize
  BY <1>5, EndPiece
<1>6. CASE Exit
  <2>1. rstep' = "exited" /\ reader' = "none" /\ rstatus' = None
    BY <1>6 DEF Exit
  <2>2. rstatus' # "CAPTURED" /\ ~Running'
    BY <2>1, RecordAssumption DEF Running
  <2> QED  BY <2>1, <2>2 DEF PieceInv
<1>7. CASE UNCHANGED recordVars \/ Analyze \/ EditFile \/ Approve \/ Copy \/ Seal
  BY <1>7, LaterKeepsRecord, PieceKept DEF pieceVars
<1> QED
  BY <1>1, <1>2, <1>3, <1>4, <1>5, <1>6, <1>7 DEF Next, RecordNext, RecordStep, vars, EditInput

LEMMA OnePiece == PieceInv => DecodedAsOnePiece
<1> SUFFICES ASSUME PieceInv, rstep = "loop" \/ rstatus = "CAPTURED", NEW l \in Line
             PROVE  /\ decoders[l] = feed(Decoder(WARMUP), Levels(SubSeq(raw, WARMUP + 1, Len(raw)), l), COUNT)
                    /\ \A i \in DOMAIN decoders[l].starts :
                         /\ Levels(raw, l)[decoders[l].starts[i]] = 1
                         /\ Levels(raw, l)[decoders[l].starts[i] + 1] = 0
  BY DEF DecodedAsOnePiece
<1> DEFINE v == SubSeq(raw, WARMUP + 1, Len(raw))
           s == Levels(v, l)
           m == Len(raw)
<1>1. /\ Decoded /\ stream \in Streams /\ raw \in Seq(Samples) /\ m \in Nat /\ WARMUP \in Nat
  BY SamplesAssumption DEF PieceInv, Running
<1>2. decoders[l] = feed(Decoder(WARMUP), s, COUNT)
  BY <1>1 DEF Decoded
<1>3. v \in Seq(Samples) /\ Len(v) = (IF WARMUP <= m THEN m - WARMUP ELSE 0)
      /\ \A i \in 1 .. Len(v) : v[i] = raw[WARMUP + i]
  BY <1>1
<1>4. s \in Seq({0, 1}) /\ Len(s) = Len(v)
  <2> HIDE DEF v
  <2> QED  BY <1>1, <1>3, LevelsType
<1>5. ASSUME NEW i \in 1 .. Len(v)
      PROVE  WARMUP + i \in 1 .. m /\ s[i] = Levels(raw, l)[WARMUP + i]
  <2> DEFINE y == WARMUP + i
  <2>1. y \in 1 .. m
    <3> DEFINE n == Len(v)
    <3>1. n = (IF WARMUP <= m THEN m - WARMUP ELSE 0)
      BY <1>3
    <3>2. i \in 1 .. n
      OBVIOUS
    <3> HIDE DEF n, m
    <3> QED  BY ONLY <1>1, <3>1, <3>2
  <2>2. v[i] = raw[y]
    BY <1>3
  <2>3. i \in DOMAIN v /\ y \in DOMAIN raw
    BY <1>1, <1>3, <2>1
  <2> HIDE DEF v, y
  <2>4. s[i] = stream.samples[v[i]][IF l = "reference" THEN 1 ELSE 2]
    BY <2>3 DEF Levels
  <2>5. Levels(raw, l)[y] = stream.samples[raw[y]][IF l = "reference" THEN 1 ELSE 2]
    BY <2>3 DEF Levels
  <2>6. s[i] = Levels(raw, l)[y]
    BY <2>2, <2>4, <2>5
  <2> QED  BY <2>1, <2>6 DEF y
<1> HIDE DEF s, v
<1>6. ASSUME NEW i \in DOMAIN decoders[l].starts
      PROVE  /\ Levels(raw, l)[decoders[l].starts[i]] = 1
             /\ Levels(raw, l)[decoders[l].starts[i] + 1] = 0
  <2> DEFINE a == decoders[l].starts[i]
             p == a - WARMUP
             n == Len(s)
  <2>1. p \in 1 .. n - 1 /\ s[p] = 1 /\ s[p + 1] = 0
    BY <1>1, <1>2, <1>4, FeedStarts
  <2>2. a \in Nat
    <3>1. feed(Decoder(WARMUP), s, COUNT) \in DecoderSet
      BY <1>1, <1>4, DecoderType, FeedType
    <3> QED  BY <1>2, <3>1 DEF DecoderSet
  <2>3. n \in Nat /\ n = Len(v)
    BY <1>4
  <2> HIDE DEF a, n
  <2>4. p \in 1 .. n /\ p + 1 \in 1 .. n /\ WARMUP + p = a /\ WARMUP + (p + 1) = a + 1
    BY <1>1, <2>1, <2>2, <2>3
  <2> HIDE DEF p
  <2> DEFINE q == p + 1
  <2>5. s[p] = Levels(raw, l)[WARMUP + p]
    BY <1>5, <2>3, <2>4
  <2>6. q \in 1 .. n
    BY <2>4
  <2>7. s[q] = Levels(raw, l)[WARMUP + q]
    <3> HIDE DEF q
    <3> QED  BY <1>5, <2>3, <2>6
  <2>8. Levels(raw, l)[a] = 1 /\ Levels(raw, l)[a + 1] = 0
    BY <2>1, <2>4, <2>5, <2>7
  <2> QED  BY <2>8 DEF a
<1> QED  BY <1>2, <1>6 DEF s, v

(* The bytes and the frame starts of both lines (UARTDecoder.feed, called  *)
(* once per chunk by record in ad2_live_capture.py) do not depend on how   *)
(* the samples were cut into chunks: they are those of one feed of all the *)
(* samples after the warm-up, and every frame start is a fall of that line *)
(* in samples.bin.  For any samples, chunk lengths, bit period and width.  *)
THEOREM DecodingIsOnePiece == Spec => []DecodedAsOnePiece
BY InitPiece, NextPiece, OnePiece, PTL DEF Spec
=============================================================================
