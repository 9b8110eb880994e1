------------------------------- MODULE Evidence -------------------------------
(***************************************************************************)
(* What is made of an acquisition: analyze() of ad2_live_capture.py        *)
(* compares it, summarize() of long_campaign.py judges it once more, and   *)
(* publish_experiment.py exports it and checks the export.  In between the *)
(* operator may edit any file.  An edit changes a digest, and may change a *)
(* verdict that is written in a file, but recomputes no digest in another. *)
(* A command reads its files at one moment; only the copying of an export  *)
(* is later than its checks.                                               *)
(***************************************************************************)
EXTENDS DigitalRecord

CONSTANTS
  Planned,       \* the contexts a campaign may have been prepared for
  Window,        \* byte sequences in which parse_window finds a sentence
  MAX_LATE       \* files edited once the acquisition has the hardware;
                 \* MAX_EDITS bounds those edited before

(* prepare() of long_campaign.py creates the context, and registers a      *)
(* secure one.                                                             *)
ASSUME PlannedAssumption ==
  Planned \subseteq Registered \cup {c \in Context : design(c) = "baseline"}

(* A sentence has characters, and every character is a byte. *)
ASSUME WindowAssumption == \A w \in Window : \E i \in DOMAIN w : w[i] # None

VARIABLES
  campaign,      \* context_sha256 of campaign.json
  export,        \* where publish_experiment is
  public,        \* the exported directory
  swaps          \* history: how often the context file was replaced while a
                 \* command was between its first and its last read of it

evidenceVars == <<campaign, export, public, swaps>>
vars == <<buildVars, recordVars, evidenceVars>>

Public == {"reference", "cipher", "cp2102", "recovered", "context"}

NoSwaps == [build |-> 0, record |-> 0]

(* prepare() also digests the context.  By the time of the build an edited *)
(* copy may be in its place.                                               *)
Init ==
  /\ BuildInit
  /\ RecordInit
  /\ campaign \in Planned
  /\ context = campaign \/ (context.id = campaign.id /\ context \notin Registered)
  /\ export = "none"
  /\ public = [data |-> [f \in Public |-> None], hashes |-> None]
  /\ swaps = NoSwaps
-----------------------------------------------------------------------------
(* crypt with the key and nonce of a context: the bytes that were          *)
(* enciphered, if it was with these.                                       *)
Recovered(cipher, c) ==
  IF design(c) = "baseline" \/ board = c THEN cipher
  ELSE [i \in DOMAIN cipher |-> None]

(* The verdict of assess, compare included. *)
assess(acquisition, reference, cipher, heard_bytes, c) ==
  /\ ~acquisition.invalid
  /\ \A l \in Line : acquisition.framing[l] = 0 /\ acquisition.false_starts[l] = 0
  /\ ~acquisition.lost /\ acquisition.ready
  /\ heard_bytes = cipher /\ Len(cipher) = COUNT /\ Len(reference) = COUNT
  /\ Recovered(cipher, c) = reference
  /\ reference \in Window

(* frame_metrics has something to measure: the starts of both lines are    *)
(* all there, rise, and no output frame precedes its input.                *)
frame_metrics(acquisition) ==
  /\ \A l \in Line :
       /\ Len(acquisition.starts[l]) = COUNT
       /\ \A i \in 2 .. COUNT : acquisition.starts[l][i - 1] < acquisition.starts[l][i]
  /\ \A i \in 1 .. COUNT : acquisition.starts["reference"][i] <= acquisition.starts["cipher"][i]

Data(f) == capture[f].data
Assessed(c) ==
  assess(Data("acquisition"), Data("reference"), Data("cipher"), Data("cp2102"), c)

Bytes == {"reference", "cipher", "cp2102"}

Present(files) == \A f \in files : capture[f] # None

(* The files named are as acquisition.json has them. *)
AsAcquired(files) ==
  \A f \in files : capture[f] = Data("acquisition").artifacts[f]

Acquired == {f \in DOMAIN Data("acquisition").artifacts : Data("acquisition").artifacts[f] # None}
-----------------------------------------------------------------------------
(* analyze: once, of unchanged files, with the context they were made for. *)
Analyze ==
  /\ rstep = "exited"
  /\ Present(Bytes \cup {"acquisition"}) /\ capture["comparison"] = None
  /\ Data("acquisition").digest = context
  /\ AsAcquired(Acquired)
  /\ \E observed \in BOOLEAN :
       capture' = [capture EXCEPT
         !["comparison"] = Written([status |-> IF Assessed(context) /\ observed THEN "PASS" ELSE "FAIL",
                                    observed |-> observed,
                                    acquisition |-> capture["acquisition"]]),
         !["recovered"] = Written(Recovered(Data("cipher"), context))]
  /\ UNCHANGED <<buildVars, evidenceVars, rstep, used, report, consumed, board, stream,
                 thread, stop, queue, gathered, device, invalid, rstatus>>

comparison == Data("comparison")

(* Mutant: the context is not compared with the one that was planned. *)
summarize_any_context ==
  /\ Data("acquisition").digest = context
  /\ comparison.acquisition = capture["acquisition"]
  /\ AsAcquired(Bytes)
  /\ Assessed(context)
  /\ comparison.status = "PASS" /\ comparison.observed
  /\ frame_metrics(Data("acquisition"))

(* What summarize asks of a run to call it PASS, if it has all files. *)
summarize ==
  /\ context = campaign
  /\ Data("acquisition").digest = campaign
  /\ comparison.acquisition = capture["acquisition"]
  /\ AsAcquired(Bytes)
  /\ Assessed(context)
  /\ comparison.status = "PASS" /\ comparison.observed
  /\ frame_metrics(Data("acquisition"))

(* Mutant: the registry is not asked whether the capture has started. *)
AnySecure == design(context) = "secure"

(* A secure context whose capture has started, by its identity in the      *)
(* registry.                                                               *)
Started == design(context) = "secure" /\ \E c \in consumed : c.id = context.id

(* export: after the checks of summarize and one of the recovered bytes.   *)
Approve ==
  /\ rstep = "exited" /\ export = "none"
  /\ Present(File)
  /\ Started
  /\ Data("acquisition").digest = context
  /\ comparison.acquisition = capture["acquisition"]
  /\ AsAcquired(Acquired)
  /\ Assessed(context)
  /\ comparison.status = "PASS" /\ comparison.observed
  /\ Data("recovered") = Recovered(Data("cipher"), context)
  /\ capture["recovered"].version = 0
  /\ export' = "copy"
  /\ public' = [public EXCEPT !.data["context"] = Written(context)]
  /\ UNCHANGED <<buildVars, recordVars, campaign, swaps>>

(* The files are copied as they are now. *)
Copy ==
  /\ export = "copy"
  /\ public' = [public EXCEPT !.data =
                 [f \in Public |-> IF f = "context" THEN @[f] ELSE capture[f]]]
  /\ export' = "seal"
  /\ UNCHANGED <<buildVars, recordVars, campaign, swaps>>

(* sha256.json, last: the digests of what was written, if the timestamps   *)
(* could be measured.                                                      *)
Seal ==
  /\ export = "seal"
  /\ frame_metrics(Data("acquisition"))
  /\ public' = [public EXCEPT !.hashes = public.data]
  /\ export' = "exported"
  /\ UNCHANGED <<buildVars, recordVars, campaign, swaps>>

(* check_export: the digests, the four files byte for byte against each    *)
(* other under the published context, and a sentence in what was sent.     *)
check_export ==
  LET bytes(f) == <<public.data[f].data, public.data[f].version>>
      c == public.data["context"].data
  IN
  /\ public.hashes # None
  /\ public.data = public.hashes
  /\ Len(public.data["reference"].data) = COUNT
  /\ bytes("reference") = <<Recovered(public.data["cipher"].data, c), public.data["cipher"].version>>
  /\ bytes("recovered") = bytes("reference")
  /\ bytes("cipher") = bytes("cp2102")
  /\ public.data["reference"].data \in Window
-----------------------------------------------------------------------------
(* An edit of a file of the capture, or of the export. *)
EditFile ==
  /\ rstep = "exited" /\ edits < MAX_LATE
  /\ edits' = edits + 1
  /\ \/ \E f \in File :
          /\ capture[f] # None
          /\ capture' = [capture EXCEPT ![f].version = @ + 1,
               ![f].data = CASE f = "acquisition" -> [@ EXCEPT !.status = "CAPTURED", !.invalid = FALSE]
                             [] f = "comparison"  -> [@ EXCEPT !.status = "PASS", !.observed = TRUE]
                             [] OTHER -> @]
          /\ UNCHANGED public
     \/ \E f \in Public :
          /\ public.data[f] # None
          /\ public' = [public EXCEPT !.data[f].version = @ + 1]
          /\ UNCHANGED capture
  /\ UNCHANGED <<source, context, step, loaded, params, manifest, binding, made,
                 campaign, export, swaps, rstep, used, report, consumed, board, stream,
                 thread, stop, queue, gathered, device, invalid, rstatus>>

(* An acquisition that runs reads none of the files an edit changes, and   *)
(* after it nothing reads the sources or the build; the context file may   *)
(* still be replaced.                                                      *)
EditLate ==
  /\ rstep = "exited" /\ edits < MAX_LATE
  /\ edits' = edits + 1
  /\ EditContext
  /\ UNCHANGED <<step, loaded, params, manifest, binding>>

(* build() reads the context file at lines 34, 43 and 49, record() at 333, *)
(* 337 and 343.                                                            *)
Reading ==
  [build |-> step \in {"render", "begin", "bind"}, record |-> rstep \in {"check", "report"}]

(* An edit of what a build or an acquisition to come reads. *)
EditInput ==
  /\ rstep \in {"new", "check", "report", "claim"}
  /\ Edit
  /\ swaps' = [command \in {"build", "record"} |->
       swaps[command] + (IF context' # context /\ Reading[command] THEN 1 ELSE 0)]
  /\ UNCHANGED <<recordVars, campaign, export, public>>

Next ==
  \/ BuildStep /\ UNCHANGED <<recordVars, evidenceVars>>
  \/ EditInput
  \/ EditLate /\ UNCHANGED <<recordVars, evidenceVars>>
  \/ /\ step \in {"done", "failed"}
     /\ RecordNext
     /\ swaps' = IF Arm THEN NoSwaps ELSE swaps
     /\ UNCHANGED <<campaign, export, public>>
  \/ Analyze \/ Approve \/ Copy \/ Seal \/ EditFile

(* Time passes and both threads of an acquisition are scheduled. *)
Spec ==
  /\ Init /\ [][Next]_vars
  /\ WF_vars(TimeUp /\ UNCHANGED evidenceVars)
  /\ WF_vars(Join /\ UNCHANGED evidenceVars)
  /\ WF_vars(Finalize /\ UNCHANGED evidenceVars)
  /\ WF_vars(Exit /\ UNCHANGED evidenceVars)
  /\ WF_vars(ReaderProceeds /\ UNCHANGED evidenceVars)
-----------------------------------------------------------------------------
(* The context a secure capture is claimed for is the one its report names *)
(* and the bitstream carries, for all that was done to the context file    *)
(* before, between and after the two commands, earlier contents put back   *)
(* included, if it stayed as it was from the first to the last read of     *)
(* each of them.  One replacement within the build is caught too, unless   *)
(* the build was started with an altered copy of that very context.  No    *)
(* more than that is promised: a context that replaces another only while  *)
(* it is rendered is compiled under the other's name, and one that         *)
(* replaces it within record is reported in place of the one claimed.      *)
ClaimedContextIsInTheBitstream ==
  rstep = "arm" /\ design(used) = "secure" /\ swaps.record = 0 =>
    LET compiled == manifest.artifacts["sof"].from[2] IN
    /\ report.digest = used
    /\ swaps.build = 0 => compiled = used
    /\ swaps.build = 1 => compiled = used \/ (loaded.id = used.id /\ loaded \notin Registered)

(* What has to be true of the files for their bytes to be evidence: they   *)
(* are untouched, they belong together, and under the context of the       *)
(* bitstream that ran the output line was the source.  If the acquisition  *)
(* claims to be for this context, the registry has it as started: no one   *)
(* compares the claim with the context, and a file replaced before record  *)
(* digests it the last time names one that was not claimed.  The           *)
(* acquisition itself had captured everything, unless its own report was   *)
(* touched before it was analysed.                                         *)
BytesAreEvidence(c) ==
  /\ \A f \in Bytes : capture[f].version = 0
  /\ design(c) = "secure" =>
       /\ board = c
       /\ Data("acquisition").claim = ClaimOf(c) => c \in consumed
  /\ Data("reference") = Data("cipher")
  /\ Data("cipher") = Data("cp2102")
  /\ capture["acquisition"].version = 0 => Data("acquisition").status = "CAPTURED"

(* A PASS of the campaign rests on the bytes, not on the verdicts written  *)
(* beside them, whenever the campaign is summarized.                       *)
SummaryRestsOnBytes ==
  Present(Bytes \cup {"acquisition", "comparison"}) /\ summarize =>
    BytesAreEvidence(context)

(* An export that verifies holds the bytes of the approved capture,        *)
(* whatever was changed while it was copied, and no capture can ever be    *)
(* started again for the context it publishes: the registry has it as      *)
(* started, or as it is not at all, being an altered copy.  It takes up to *)
(* three edits: check_export compares the four files with each other, so   *)
(* four that were changed alike would pass.                                *)
ExportIsTheCapture ==
  check_export =>
    LET c == public.data["context"].data IN
    /\ \A f \in Public \ {"context"} : public.data[f].version = 0
    /\ c \notin Registered \ consumed
    /\ board = c
    /\ public.data["reference"].data = public.data["cipher"].data
=============================================================================
