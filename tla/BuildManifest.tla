---------------------------- MODULE BuildManifest ----------------------------
(***************************************************************************)
(* scripts/bench_build.py and scripts/build_manifest.py: one directory in  *)
(* which a context is compiled, and the manifest that binds the results to *)
(* what they were made of.  While the build runs, and later, the operator  *)
(* may edit the sources, the context file and what the build has made.     *)
(*                                                                         *)
(* The digest of a file is its content here.  The context file may be      *)
(* replaced by any other context, one it has held before included; an      *)
(* edited source or product carries a version, and is taken never to       *)
(* become what it was before.                                              *)
(***************************************************************************)
EXTENDS Naturals, FiniteSets

CONSTANTS
  Context,       \* records: id, mode, and a body that stands for the rest
  MAX_EDITS,     \* edits, until an acquisition has the hardware
  None,
  Torn           \* the content of a file whose writing was interrupted

(* The files finish hashes: the log of a flow that must show no error, and *)
(* what the flow leaves.  The reports stand for all reports of a name      *)
(* pattern, which no one requires.                                         *)
Log      == {"compile.log", "timing-audit.log", "tool-version.txt"}
Required == Log \cup {"sof"}
Artifact == Required \cup {"fmax_corner"}

VARIABLES
  source,        \* the version of the tree: RTL, constraints, scripts
  context,       \* what the context file holds
  edits,         \* edits so far
  step,          \* of the build
  loaded,        \* the context build() read first
  params,        \* the context in context_params.sv
  manifest,      \* build-manifest.json
  binding,       \* context-binding.json
  made           \* what the directory holds, by name

bench == <<source, context, edits>>
buildVars == <<bench, step, loaded, params, manifest, binding, made>>

BuildInit ==
  /\ source = 0
  /\ context \in Context
  /\ edits = 0
  /\ step = "new"
  /\ loaded = None
  /\ params = None
  /\ manifest = None
  /\ binding = None
  /\ made = [n \in Artifact |-> None]

design(c) == IF c.mode = "aes-128-ctr" THEN "secure" ELSE "baseline"
-----------------------------------------------------------------------------
(* What begin hashes: the tree, and the parameters rendered into the       *)
(* directory, which the project names as a source.                         *)
inputs == <<source, params>>

(* What a run of a tool leaves.  An edit of it changes its version. *)
Output(good) == [from |-> inputs, good |-> good, version |-> 0]

(* The sources are as they were, and of a complete build the artifacts.  A *)
(* report that was hashed and is gone, or is there without a hash, fails   *)
(* as an altered one does; one that never was is not missed.               *)
verify(require_complete) ==
  /\ manifest \notin {None, Torn}
  /\ manifest.sources = inputs
  /\ require_complete =>
       /\ manifest.status = "PASS"
       /\ manifest.artifacts = made
       /\ \A n \in Required : made[n] # None

begin == [status |-> "RUNNING", design |-> design(loaded), sources |-> inputs,
          artifacts |-> None]
-----------------------------------------------------------------------------
Then(s) == step' = s

(* The mode is taken from the context as it is now; the directory is new.  *)
LoadAndReserve ==
  /\ step = "new"
  /\ loaded' = context
  /\ Then("render")
  /\ UNCHANGED <<bench, params, manifest, binding, made>>

(* render_context_sv reads the file again; only the mode must be the same. *)
Render ==
  /\ step = "render"
  /\ context.mode = loaded.mode
  /\ params' = context
  /\ Then("begin")
  /\ UNCHANGED <<bench, loaded, manifest, binding, made>>

Begin ==
  /\ step = "begin"
  /\ manifest' = begin
  /\ Then("bind")
  /\ UNCHANGED <<bench, loaded, params, binding, made>>

(* The identity is the one read first, the digest that of the file now. *)
Bind ==
  /\ step = "bind"
  /\ binding' = [id |-> loaded.id, digest |-> context]
  /\ Then("compile")
  /\ UNCHANGED <<bench, loaded, params, manifest, made>>

(* A command of the flow reads the inputs at some moment of its run.  A    *)
(* bad log ends the build, as an exit code that is not zero does.          *)
Run(here, next, outputs) ==
  /\ step = here
  /\ \E good \in BOOLEAN :
       /\ made' = [n \in Artifact |-> IF n \in outputs THEN Output(good) ELSE made[n]]
       /\ Then(IF good THEN next ELSE "failed")
  /\ UNCHANGED <<bench, loaded, params, manifest, binding>>

Compile == Run("compile", "audit", {"compile.log", "sof"})
Audit   == Run("audit", "version", {"timing-audit.log", "fmax_corner"})
Version == Run("version", "finish", {"tool-version.txt"})

(* Mutant: finish trusts that nothing has changed since begin. *)
finish_unverified ==
  /\ step = "finish"
  /\ manifest' = [manifest EXCEPT !.status = "PASS", !.artifacts = made, !.sources = inputs]
  /\ Then("verify")
  /\ UNCHANGED <<bench, loaded, params, binding, made>>

(* The sources are verified, then the artifacts are hashed, whatever they  *)
(* have become since the flow made them; a log must be there.              *)
finish ==
  /\ step = "finish"
  /\ verify(FALSE)
  /\ \A n \in Log : made[n] # None
  /\ manifest' = [manifest EXCEPT !.status = "PASS", !.artifacts = made]
  /\ Then("verify")
  /\ UNCHANGED <<bench, loaded, params, binding, made>>

(* The build ends by verifying itself; build-status.txt then says PASS. *)
Verify ==
  /\ step = "verify"
  /\ Then(IF verify(TRUE) THEN "done" ELSE "failed")
  /\ UNCHANGED <<bench, loaded, params, manifest, binding, made>>

(* Any step may fail or be killed; a file it was writing is torn. *)
Break ==
  /\ step \notin {"new", "done", "failed"}
  /\ Then("failed")
  /\ \/ UNCHANGED <<manifest, binding>>
     \/ step \in {"begin", "finish"} /\ manifest' = Torn /\ UNCHANGED binding
     \/ step = "bind" /\ binding' = Torn /\ UNCHANGED manifest
  /\ UNCHANGED <<bench, loaded, params, made>>

BuildStep ==
  \/ LoadAndReserve \/ Render \/ Begin \/ Bind
  \/ Compile \/ Audit \/ Version \/ finish \/ Verify \/ Break
-----------------------------------------------------------------------------
EditSource ==
  /\ source' = source + 1
  /\ UNCHANGED <<context, made>>

EditContext ==
  /\ context' \in Context \ {context}
  /\ UNCHANGED <<source, made>>

(* An artifact is altered or removed. *)
EditMade ==
  /\ \E n \in Artifact :
       /\ made[n] # None
       /\ \/ made' = [made EXCEPT ![n].version = @ + 1]
          \/ made' = [made EXCEPT ![n] = None]
  /\ UNCHANGED <<source, context>>

Edit ==
  /\ edits < MAX_EDITS
  /\ edits' = edits + 1
  /\ EditSource \/ EditContext \/ EditMade
  /\ UNCHANGED <<step, loaded, params, manifest, binding>>

BuildNext == BuildStep \/ Edit
-----------------------------------------------------------------------------
(* Whatever was edited, and wherever the build stopped, a directory that   *)
(* verifies as complete holds the results of one whole flow that went      *)
(* well, all made from the sources that are there now.                     *)
VerifiedBuildIsWhole ==
  verify(TRUE) =>
    \A n \in Artifact :
      IF made[n] = None THEN n \notin Required
                        ELSE made[n].from = inputs /\ made[n].good
=============================================================================
