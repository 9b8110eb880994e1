--------------------------- MODULE ContextRegistry ---------------------------
(***************************************************************************)
(* scripts/context.py: the private context files and the nonce registry    *)
(* that several command lines share.  A process is one run of a command:   *)
(* "context.py new", or a capture tool that loads a context and claims it. *)
(* A step is a system call another process or a crash can get in between;  *)
(* what a process does to its own memory goes with the call before it.     *)
(*                                                                         *)
(* The registry file is replaced by a rename, so it is always a whole list *)
(* of entries; a missing file reads as the empty list.  A context file is  *)
(* written in place, so it can be found torn.  A process that dies loses   *)
(* the lock, which the operating system holds for it, and nothing else.    *)
(***************************************************************************)
EXTENDS Naturals

CONSTANTS
  Proc,          \* runs of a command; also the uuid of the context one makes
  Path,          \* names of context files
  Key, Nonce,
  Requests,      \* argument lists of "new" that are tried
  BLOCK,         \* bytes of a keystream block, 16
  COUNTER_LIMIT, \* 2^32
  None, Torn     \* no file, no value; a file cut short

Context ==
  [id : Proc, mode : {"baseline", "aes-128-ctr"}, length : Nat, counter : Nat,
   key : Key \cup {None}, nonce : Nonce \cup {None}]

ASSUME RegistryAssumption ==
  /\ Requests \subseteq
       [mode : {"baseline", "aes-128-ctr"}, length : Nat, counter : Nat,
        output : Path, key : Key \cup {None}, random_key : BOOLEAN,
        nonce : Nonce \cup {None}, registry : BOOLEAN]
  /\ None \notin Proc \cup Key \cup Nonce
  /\ {None, Torn} \cap Context = {}
  /\ BLOCK \in Nat \ {0}
  /\ COUNTER_LIMIT \in Nat

VARIABLES
  registry,      \* entries of the registry file
  file,          \* what is at each path
  lock,          \* who holds the flock on the registry's lock file
  pc,            \* where each process is
  context,       \* the context a process makes or has loaded
  output,        \* the path a "new" writes
  current,       \* the registry as a process has read it
  claims         \* history: what claim_capture has granted, to whom

vars == <<registry, file, lock, pc, context, output, current, claims>>

Entry ==
  [id : Proc, length : Nat, counter : Nat, key : Key, nonce : Nonce,
   capture_started : BOOLEAN]

(* What "new" does until it returns, what a capture does until READY.      *)
Creating  == {"read", "open", "write", "register", "rollback"}
Claiming  == {"match", "claim"}
Ended     == {"done", "failed", "crashed"}

Secure(c) == c.mode = "aes-128-ctr"

(* _validate_length_counter: the planned bytes must not wrap the counter. *)
ValidLengthCounter(length, counter) ==
  /\ length > 0
  /\ counter < COUNTER_LIMIT
  /\ (length + BLOCK - 1) \div BLOCK <= COUNTER_LIMIT - counter

(* The options create_context accepts together. *)
ValidRequest(r) ==
  /\ ValidLengthCounter(r.length, r.counter)
  /\ r.mode = "baseline" => r.key = None /\ r.nonce = None /\ ~r.random_key
  /\ r.mode = "aes-128-ctr" => r.registry /\ (r.random_key <=> r.key = None)

(* The contexts a request may lead to: an absent key or nonce is drawn.    *)
ContextsOf(p, r) ==
  {c \in [id : {p}, mode : {r.mode}, length : {r.length}, counter : {r.counter},
          key : Key \cup {None}, nonce : Nonce \cup {None}] :
     IF Secure(c)
     THEN /\ c.key \in Key /\ (r.key # None => c.key = r.key)
          /\ c.nonce \in Nonce /\ (r.nonce # None => c.nonce = r.nonce)
     ELSE c.key = None /\ c.nonce = None}

EntryOf(c) ==
  [id |-> c.id, length |-> c.length, counter |-> c.counter, key |-> c.key,
   nonce |-> c.nonce, capture_started |-> FALSE]

SameKeystream(a, b) == a.key = b.key /\ a.nonce = b.nonce

Init ==
  /\ registry = {}
  /\ file = [f \in Path |-> None]
  /\ lock = None
  /\ pc = [p \in Proc |-> "idle"]
  /\ context = [p \in Proc |-> None]
  /\ output = [p \in Proc |-> None]
  /\ current = [p \in Proc |-> {}]
  /\ claims = {}
-----------------------------------------------------------------------------
(* The lock. *)

Goto(p, label) == pc' = [pc EXCEPT ![p] = label]

Forget(p) ==
  /\ context' = [context EXCEPT ![p] = None]
  /\ output' = [output EXCEPT ![p] = None]
  /\ current' = [current EXCEPT ![p] = {}]

(* The command ends, through the finally of _registry_lock if it holds it. *)
Finish(p, label) ==
  /\ Goto(p, label)
  /\ Forget(p)
  /\ lock' = IF lock = p THEN None ELSE lock

Proceed(p, label) == Goto(p, label) /\ UNCHANGED <<lock, context, output>>

(* Mutant: open succeeds without waiting for the other process. *)
AcquireLockUnlocked(p) ==
  /\ pc[p] \in {"wait_new", "wait_claim"}
  /\ lock' = p
  /\ Goto(p, IF pc[p] = "wait_new" THEN "read" ELSE "match")
  /\ UNCHANGED <<registry, file, context, output, current, claims>>

(* fcntl.flock(fd, LOCK_EX) returns. *)
AcquireLock(p) ==
  /\ pc[p] \in {"wait_new", "wait_claim"}
  /\ lock = None
  /\ lock' = p
  /\ Goto(p, IF pc[p] = "wait_new" THEN "read" ELSE "match")
  /\ UNCHANGED <<registry, file, context, output, current, claims>>
-----------------------------------------------------------------------------
(* create_context *)

(* The arguments and the look whether the output exists come before the    *)
(* lock; a baseline context needs neither lock nor registry.               *)
CreateContext(p, r) ==
  /\ pc[p] = "idle"
  /\ \/ (~ValidRequest(r) \/ file[r.output] # None) /\ Finish(p, "failed")
     \/ /\ ValidRequest(r) /\ file[r.output] = None
        /\ \E c \in ContextsOf(p, r) : context' = [context EXCEPT ![p] = c]
        /\ output' = [output EXCEPT ![p] = r.output]
        /\ Goto(p, IF r.mode = "baseline" THEN "open" ELSE "wait_new")
        /\ UNCHANGED <<lock, current>>
  /\ UNCHANGED <<registry, file, claims>>

(* Mutant: only the context's own id is looked for. *)
ReadForNewById(p) ==
  /\ pc[p] = "read"
  /\ IF \E e \in registry : e.id = context[p].id
     THEN Finish(p, "failed")
     ELSE Proceed(p, "open") /\ current' = [current EXCEPT ![p] = registry]
  /\ UNCHANGED <<registry, file, claims>>

(* The registry is read and must not hold the key with the nonce yet. *)
ReadForNew(p) ==
  /\ pc[p] = "read"
  /\ IF \E e \in registry : SameKeystream(e, context[p])
     THEN Finish(p, "failed")
     ELSE Proceed(p, "open") /\ current' = [current EXCEPT ![p] = registry]
  /\ UNCHANGED <<registry, file, claims>>

(* _private_json: O_EXCL creates the file or fails, whatever the earlier   *)
(* look said.                                                              *)
OpenOutput(p) ==
  /\ pc[p] = "open"
  /\ \/ /\ file[output[p]] = None
        /\ file' = [file EXCEPT ![output[p]] = Torn]
        /\ Proceed(p, "write") /\ UNCHANGED current
     \/ Finish(p, "failed") /\ UNCHANGED file
  /\ UNCHANGED <<registry, claims>>

(* The contents are written and synced; an error removes the file, unless  *)
(* it is the error of the chmod that follows, after which the file stays.  *)
WriteOutput(p) ==
  /\ pc[p] = "write"
  /\ \/ /\ file' = [file EXCEPT ![output[p]] = context[p]]
        /\ IF Secure(context[p]) THEN Proceed(p, "register") /\ UNCHANGED current
                                 ELSE Finish(p, "done")
     \/ /\ \E left \in {None, context[p]} : file' = [file EXCEPT ![output[p]] = left]
        /\ Finish(p, "failed")
  /\ UNCHANGED <<registry, claims>>

(* _write_registry: a temporary file is renamed over the registry.  An     *)
(* error before the rename leaves the registry alone, one after it (the    *)
(* chmod) does not; both take the context file back.                       *)
Register(p) ==
  /\ pc[p] = "register"
  /\ \/ /\ registry' = current[p] \cup {EntryOf(context[p])}
        /\ Finish(p, "done")
     \/ /\ registry' \in {registry, current[p] \cup {EntryOf(context[p])}}
        /\ Proceed(p, "rollback") /\ UNCHANGED current
  /\ UNCHANGED <<file, claims>>

(* output.unlink(missing_ok=True) *)
Rollback(p) ==
  /\ pc[p] = "rollback"
  /\ file' = [file EXCEPT ![output[p]] = None]
  /\ Finish(p, "failed")
  /\ UNCHANGED <<registry, claims>>
-----------------------------------------------------------------------------
(* claim_capture, called by a capture tool *)

(* The tool loads the context file.  A torn file does not parse; a         *)
(* baseline context needs no claim; a secure one needs the registry.       *)
LoadContext(p, f, with_registry) ==
  /\ pc[p] = "idle"
  /\ \/ /\ file[f] \notin {None, Torn}
        /\ ValidLengthCounter(file[f].length, file[f].counter)
        /\ Secure(file[f]) => with_registry
        /\ context' = [context EXCEPT ![p] = file[f]]
        /\ Goto(p, IF Secure(file[f]) THEN "wait_claim" ELSE "ready")
        /\ UNCHANGED <<lock, output, current>>
     \/ /\ file[f] \notin {None, Torn} =>
             \/ ~ValidLengthCounter(file[f].length, file[f].counter)
             \/ Secure(file[f]) /\ ~with_registry
        /\ Finish(p, "failed")
  /\ UNCHANGED <<registry, file, claims>>

Matches(p) == {e \in registry : e.id = context[p].id}

(* Mutant: an entry that was claimed before is claimed again. *)
ClaimableAgain(p) ==
  \E e \in Matches(p) :
    /\ Matches(p) = {e}
    /\ [e EXCEPT !.capture_started = FALSE] = EntryOf(context[p])

(* Mutant: the entry is found by its id alone. *)
ClaimableById(p) ==
  \E e \in Matches(p) : Matches(p) = {e} /\ ~e.capture_started

(* One entry with this id, for this key, nonce, counter and length, and    *)
(* not started.                                                            *)
Claimable(p) ==
  \E e \in Matches(p) : Matches(p) = {e} /\ e = EntryOf(context[p])

ReadForClaim(p) ==
  /\ pc[p] = "match"
  /\ IF Claimable(p)
     THEN Proceed(p, "claim") /\ current' = [current EXCEPT ![p] = registry]
     ELSE Finish(p, "failed")
  /\ UNCHANGED <<registry, file, claims>>

Started(entries, id) ==
  {IF e.id = id THEN [e EXCEPT !.capture_started = TRUE] ELSE e : e \in entries}

Granted(p) == [by |-> p, context |-> context[p]]

(* The mark is on disk before the caller goes on; an error before or after *)
(* the rename makes the caller fail, in the second case with the context   *)
(* used up.                                                                *)
Claim(p) ==
  /\ pc[p] = "claim"
  /\ \/ /\ registry' = Started(current[p], context[p].id)
        /\ claims' = claims \cup {Granted(p)}
        /\ lock' = None
        /\ Goto(p, "ready")
        /\ UNCHANGED <<context, output, current>>
     \/ /\ registry' \in {registry, Started(current[p], context[p].id)}
        /\ Finish(p, "failed")
        /\ UNCHANGED claims
  /\ UNCHANGED file
-----------------------------------------------------------------------------
(* A process dies at any point: the lock goes, its memory goes, files stay. *)
Crash(p) ==
  /\ pc[p] \notin {"idle"} \cup Ended
  /\ Finish(p, "crashed")
  /\ UNCHANGED <<registry, file, claims>>

(* A context file is plain JSON that an operator may edit; a changed key   *)
(* would be found by its fingerprint, other values are not.                *)
EditContext(f, r) ==
  /\ file[f] \in Context
  /\ Secure(file[f])
  /\ r.nonce # None
  /\ file' = [file EXCEPT ![f].length = r.length, ![f].counter = r.counter,
                          ![f].nonce = r.nonce]
  /\ UNCHANGED <<registry, lock, pc, context, output, current, claims>>

Step(p) ==
  \/ AcquireLock(p)
  \/ ReadForNew(p) \/ OpenOutput(p) \/ WriteOutput(p) \/ Register(p) \/ Rollback(p)
  \/ ReadForClaim(p) \/ Claim(p)

Next ==
  \/ \E p \in Proc : Step(p) \/ Crash(p)
  \/ \E p \in Proc, r \in Requests : CreateContext(p, r)
  \/ \E p \in Proc, f \in Path, with_registry \in BOOLEAN :
       LoadContext(p, f, with_registry)
  \/ \E f \in Path, r \in Requests : EditContext(f, r)

Spec == Init /\ [][Next]_vars
-----------------------------------------------------------------------------
(* Types of the shared files and of what the processes remember. *)
TypeOK ==
  /\ registry \in SUBSET Entry
  /\ file \in [Path -> Context \cup {None, Torn}]
  /\ lock \in Proc \cup {None}
  /\ pc \in [Proc -> {"idle", "wait_new", "wait_claim", "ready"}
                       \cup Creating \cup Claiming \cup Ended]
  /\ context \in [Proc -> Context \cup {None}]
  /\ output \in [Proc -> Path \cup {None}]
  /\ current \in [Proc -> SUBSET Entry]
  /\ claims \in SUBSET [by : Proc, context : Context]

(* No two captures are ever granted the same key with the same nonce, in   *)
(* whatever order files are made, edited, claimed and abandoned.           *)
KeystreamClaimedOnce ==
  \A c, d \in claims : c # d => ~SameKeystream(c.context, d.context)

(* A granted claim is on disk, as started, for the very context the tool   *)
(* holds: a crash after it cannot make the context claimable again, and a  *)
(* context file without its entry, or edited, is never granted.            *)
ClaimIsOnDisk ==
  \A c \in claims :
    [EntryOf(c.context) EXCEPT !.capture_started = TRUE] \in registry

(* The registry only grows: entries are never lost or altered, and a       *)
(* started entry stays started, though every writer replaces the file.     *)
RegistryOnlyGrows ==
  [][\A e \in registry :
       \/ e \in registry'
       \/ [e EXCEPT !.capture_started = TRUE] \in registry']_vars
=============================================================================
