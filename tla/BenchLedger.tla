----------------------------- MODULE BenchLedger -----------------------------
(***************************************************************************)
(* The context registry with the board it is meant to protect.  A context  *)
(* becomes a bitstream (render_context_sv and a build); the board is       *)
(* programmed with a bitstream as often as the operator likes.  A board    *)
(* refuses a second stream under the context it holds (ContextTop), but    *)
(* programming it again makes it forget that.  The operator follows the    *)
(* procedure of serial_bench.py: the bitstream of the context is on the    *)
(* board, and the source is released after READY only.                     *)
(***************************************************************************)
EXTENDS ContextRegistry

VARIABLES
  board,         \* the context on the board, and whether it has streamed
  streams        \* history: the captures that data has been streamed in

BenchInit ==
  /\ Init
  /\ board = None
  /\ streams = {}

(* render_context_sv: the file as it is now, parsed and checked, becomes   *)
(* the package of a build, which is put on the board.                      *)
RenderAndProgram(f) ==
  /\ file[f] \in Context
  /\ ValidLengthCounter(file[f].length, file[f].counter)
  /\ board' = [context |-> file[f], used |-> FALSE]
  /\ UNCHANGED <<streams, vars>>

(* The same bitstream again: the board no longer knows it was used. *)
ProgramAgain ==
  /\ board # None
  /\ board' = [board EXCEPT !.used = FALSE]
  /\ UNCHANGED <<streams, vars>>

(* After READY the tool or the source sends its bytes, once. *)
Stream(p) ==
  /\ pc[p] = "ready"
  /\ board # None
  /\ board.context = context[p]
  /\ Secure(context[p]) => ~board.used
  /\ board' = [board EXCEPT !.used = TRUE]
  /\ streams' = streams \cup {Granted(p)}
  /\ Finish(p, "done")
  /\ UNCHANGED <<registry, file, claims>>

BenchNext ==
  \/ Next /\ UNCHANGED <<board, streams>>
  \/ \E f \in Path : RenderAndProgram(f)
  \/ ProgramAgain
  \/ \E p \in Proc : Stream(p)

benchVars == <<board, streams, vars>>

BenchSpec == BenchInit /\ [][BenchNext]_benchVars
-----------------------------------------------------------------------------
(* No payload is ever streamed under a key and nonce that have been used   *)
(* before, although a reprogrammed board would accept it.                  *)
KeystreamStreamedOnce ==
  \A s, t \in streams :
    Secure(s.context) /\ SameKeystream(s.context, t.context) => s = t
=============================================================================
