-------------------------- MODULE BenchLedger_proofs --------------------------
(***************************************************************************)
(* The registry's promises for any number of processes, paths, keys and    *)
(* nonces, for whatever requests are made, with crashes and edited files.  *)
(* The argument is mutual exclusion: what a process has read under the     *)
(* lock is still the registry when it writes.                              *)
(***************************************************************************)
EXTENDS BenchLedger, TLAPS

(* A secure context has a key and a nonce, another one has no key. *)
Formed(c) ==
  /\ c \in Context
  /\ IF Secure(c) THEN c.key \in Key /\ c.nonce \in Nonce ELSE c.key = None

Making  == {"wait_new", "read", "open", "write", "register", "rollback"}
Loading == {"wait_claim", "match", "claim"}

Holding(p) ==
  \/ pc[p] \in {"read", "register", "rollback", "match", "claim"}
  \/ pc[p] \in {"open", "write"} /\ Secure(context[p])

(* What is known of a process by where it is. *)
ProcOK(p) ==
  /\ pc[p] \in Making \cup Loading \cup {"ready"} => Formed(context[p])
  /\ pc[p] \in Loading \cup {"wait_new", "read", "register", "rollback"} => Secure(context[p])
  /\ pc[p] = "ready" /\ Secure(context[p]) => Granted(p) \in claims
  /\ Holding(p) => lock = p
  /\ Holding(p) /\ pc[p] \in {"open", "write", "register"} =>
       /\ current[p] = registry
       /\ \A e \in registry : ~SameKeystream(e, context[p])
  /\ pc[p] = "claim" => current[p] = registry /\ EntryOf(context[p]) \in registry

FilesFormed == \A f \in Path : file[f] \notin {None, Torn} => Formed(file[f])

(* No keystream has two entries. *)
RegistryUnique == \A e, f \in registry : SameKeystream(e, f) => e = f

ClaimsFormed == \A c \in claims : Formed(c.context) /\ Secure(c.context)

IInv ==
  /\ TypeOK
  /\ FilesFormed
  /\ RegistryUnique
  /\ ClaimsFormed
  /\ ClaimIsOnDisk
  /\ KeystreamClaimedOnce
  /\ \A p \in Proc : ProcOK(p)
-----------------------------------------------------------------------------
LEMMA EntryFacts ==
  ASSUME NEW c, Formed(c), Secure(c)
  PROVE  /\ EntryOf(c) \in Entry
         /\ EntryOf(c).key = c.key /\ EntryOf(c).nonce = c.nonce
         /\ EntryOf(c).id = c.id
         /\ ~EntryOf(c).capture_started
BY DEF Formed, Context, Entry, EntryOf

(* The mark of a started capture, on one entry. *)
Mark(e) == [e EXCEPT !.capture_started = TRUE]

LEMMA MarkFacts ==
  ASSUME NEW e \in Entry
  PROVE  /\ Mark(e) \in Entry
         /\ Mark(e).key = e.key /\ Mark(e).nonce = e.nonce /\ Mark(e).id = e.id
         /\ Mark(e).capture_started
         /\ e.capture_started => Mark(e) = e
BY DEF Mark, Entry

LEMMA StartedFacts ==
  ASSUME NEW entries \in SUBSET Entry, NEW id
  PROVE  /\ Started(entries, id) \in SUBSET Entry
         /\ \A e \in entries : e \in Started(entries, id) \/ Mark(e) \in Started(entries, id)
         /\ \A e \in entries : e.capture_started => e \in Started(entries, id)
         /\ \A e \in entries : e.id = id => Mark(e) \in Started(entries, id)
         /\ \A x \in Started(entries, id) :
              \E e \in entries : x = (IF e.id = id THEN Mark(e) ELSE e)
<1>1. \A e \in entries : Mark(e) \in Entry /\ (e.capture_started => Mark(e) = e)
  BY MarkFacts
<1>2. Started(entries, id) = {IF e.id = id THEN Mark(e) ELSE e : e \in entries}
  BY DEF Started, Mark
<1> HIDE DEF Mark
<1> QED  BY <1>1, <1>2

LEMMA UniqueStarted ==
  ASSUME NEW entries \in SUBSET Entry, NEW id,
         \A e, f \in entries : SameKeystream(e, f) => e = f
  PROVE  \A x, y \in Started(entries, id) : SameKeystream(x, y) => x = y
<1> SUFFICES ASSUME NEW x \in Started(entries, id), NEW y \in Started(entries, id),
                    SameKeystream(x, y)
             PROVE  x = y
  OBVIOUS
<1>1. PICK e \in entries : x = (IF e.id = id THEN Mark(e) ELSE e)
  BY StartedFacts
<1>2. PICK f \in entries : y = (IF f.id = id THEN Mark(f) ELSE f)
  BY StartedFacts
<1>3. /\ x.key = e.key /\ x.nonce = e.nonce
      /\ y.key = f.key /\ y.nonce = f.nonce
  BY <1>1, <1>2, MarkFacts
<1>4. e = f
  BY <1>3 DEF SameKeystream
<1> QED  BY <1>1, <1>2, <1>4

(* A step of one process leaves what is known of another one true: its own *)
(* variables stay, claims only grow, and who holds the lock is undisturbed.*)
LEMMA OthersKeep ==
  ASSUME NEW p \in Proc, NEW q \in Proc, q # p, ProcOK(q),
         pc'[q] = pc[q], context'[q] = context[q], current'[q] = current[q],
         claims \subseteq claims',
         lock' = lock \/ lock # q,
         registry' = registry \/ lock # q
  PROVE  ProcOK(q)'
<1>1. Holding(q)' = Holding(q)
  BY DEF Holding
<1>2. Granted(q)' = Granted(q)
  BY DEF Granted
<1>3. pc[q] = "claim" => Holding(q)
  BY DEF Holding
<1> HIDE DEF Holding
<1>4. Holding(q) => lock' = lock /\ registry' = registry
  BY DEF ProcOK
<1> QED  BY <1>1, <1>2, <1>3, <1>4 DEF ProcOK

LEMMA NoneIsNoProcess == None \notin Proc
BY RegistryAssumption

LEMMA AllKeep ==
  ASSUME NEW p \in Proc, \A q \in Proc : ProcOK(q),
         \A q \in Proc \ {p} :
           pc'[q] = pc[q] /\ context'[q] = context[q] /\ current'[q] = current[q],
         claims \subseteq claims',
         lock' = lock \/ lock \in {p, None},
         registry' = registry \/ lock = p,
         ProcOK(p)'
  PROVE  \A q \in Proc : ProcOK(q)'
<1> SUFFICES ASSUME NEW q \in Proc PROVE ProcOK(q)'
  OBVIOUS
<1>1. CASE q = p
  BY <1>1
<1>2. CASE q # p
  <2>1. lock' = lock \/ lock # q  BY <1>2, NoneIsNoProcess
  <2>2. registry' = registry \/ lock # q  BY <1>2
  <2> QED  BY <1>2, <2>1, <2>2, OthersKeep
<1> QED  BY <1>1, <1>2

(* A process that ends leaves nothing to be known of it. *)
LEMMA FinishKeeps ==
  ASSUME TypeOK, \A q \in Proc : ProcOK(q), NEW p \in Proc, NEW label \in Ended,
         Finish(p, label),
         claims \subseteq claims', registry' = registry \/ lock = p
  PROVE  /\ \A q \in Proc : ProcOK(q)'
         /\ pc' \in [Proc -> {"idle", "wait_new", "wait_claim", "ready"}
                              \cup Creating \cup Claiming \cup Ended]
         /\ context' \in [Proc -> Context \cup {None}]
         /\ output' \in [Proc -> Path \cup {None}]
         /\ current' \in [Proc -> SUBSET Entry]
         /\ lock' \in Proc \cup {None}
<1>1. /\ pc' = [pc EXCEPT ![p] = label]
      /\ context' = [context EXCEPT ![p] = None]
      /\ output' = [output EXCEPT ![p] = None]
      /\ current' = [current EXCEPT ![p] = {}]
      /\ lock' = IF lock = p THEN None ELSE lock
  BY DEF Finish, Goto, Forget
<1>2. pc'[p] = label
  BY <1>1 DEF TypeOK
<1>3. ProcOK(p)'
  BY <1>2 DEF ProcOK, Making, Loading, Holding, Ended
<1>4. \A q \in Proc \ {p} :
        pc'[q] = pc[q] /\ context'[q] = context[q] /\ current'[q] = current[q]
  BY <1>1 DEF TypeOK
<1>5. \A q \in Proc : ProcOK(q)'
  BY <1>1, <1>3, <1>4, AllKeep
<1>6. /\ pc' \in [Proc -> {"idle", "wait_new", "wait_claim", "ready"}
                              \cup Creating \cup Claiming \cup Ended]
      /\ context' \in [Proc -> Context \cup {None}]
      /\ output' \in [Proc -> Path \cup {None}]
      /\ current' \in [Proc -> SUBSET Entry]
      /\ lock' \in Proc \cup {None}
  BY <1>1 DEF TypeOK
<1> QED  BY <1>5, <1>6

(* The whole of IInv, from its parts over the shared state. *)
LEMMA FinishIInv ==
  ASSUME IInv, NEW p \in Proc, NEW label \in Ended, Finish(p, label),
         UNCHANGED <<registry, claims>>,
         file' \in [Path -> Context \cup {None, Torn}], FilesFormed'
  PROVE  IInv'
<1>1. TypeOK /\ \A q \in Proc : ProcOK(q)
  BY DEF IInv
<1>2. /\ \A q \in Proc : ProcOK(q)'
      /\ pc' \in [Proc -> {"idle", "wait_new", "wait_claim", "ready"}
                              \cup Creating \cup Claiming \cup Ended]
      /\ context' \in [Proc -> Context \cup {None}]
      /\ output' \in [Proc -> Path \cup {None}]
      /\ current' \in [Proc -> SUBSET Entry]
      /\ lock' \in Proc \cup {None}
  BY <1>1, FinishKeeps
<1>3. TypeOK'
  BY <1>1, <1>2 DEF TypeOK
<1>4. (RegistryUnique /\ ClaimsFormed /\ ClaimIsOnDisk /\ KeystreamClaimedOnce)'
  BY DEF IInv, RegistryUnique, ClaimsFormed, ClaimIsOnDisk, KeystreamClaimedOnce
<1> QED  BY <1>2, <1>3, <1>4 DEF IInv

(* A step to another place of the command, the shared files as they are. *)
LEMMA MoveIInv ==
  ASSUME IInv, NEW p \in Proc, UNCHANGED <<registry, claims>>,
         file' \in [Path -> Context \cup {None, Torn}], FilesFormed',
         NEW label \in Making \cup Loading \cup {"ready"}, Goto(p, label),
         \A q \in Proc \ {p} : context'[q] = context[q] /\ current'[q] = current[q],
         context' \in [Proc -> Context \cup {None}],
         output' \in [Proc -> Path \cup {None}],
         current' \in [Proc -> SUBSET Entry],
         lock' = lock \/ (lock = None /\ lock' = p),
         ProcOK(p)'
  PROVE  IInv'
<1>1. \A q \in Proc \ {p} : pc'[q] = pc[q]
  BY DEF IInv, TypeOK, Goto
<1>2. \A q \in Proc : ProcOK(q)'
  BY <1>1, AllKeep DEF IInv
<1>3. TypeOK'
  BY DEF IInv, TypeOK, Goto, Making, Loading, Creating, Claiming
<1>4. (RegistryUnique /\ ClaimsFormed /\ ClaimIsOnDisk /\ KeystreamClaimedOnce)'
  BY DEF IInv, RegistryUnique, ClaimsFormed, ClaimIsOnDisk, KeystreamClaimedOnce
<1> QED  BY <1>2, <1>3, <1>4 DEF IInv
-----------------------------------------------------------------------------
LEMMA FileKept == ASSUME IInv, UNCHANGED file
                  PROVE  file' \in [Path -> Context \cup {None, Torn}] /\ FilesFormed'
BY DEF IInv, TypeOK, FilesFormed

LEMMA AcquireLockIInv == ASSUME IInv, NEW p \in Proc, AcquireLock(p) PROVE IInv'
<1> USE DEF AcquireLock
<1> DEFINE label == IF pc[p] = "wait_new" THEN "read" ELSE "match"
<1>1. pc'[p] = label
  BY DEF IInv, TypeOK, Goto
<1>2. ProcOK(p) /\ context'[p] = context[p] /\ lock' = p
  BY DEF IInv
<1>3. ProcOK(p)'
  BY <1>1, <1>2 DEF ProcOK, Holding, Making, Loading
<1>4. label \in Making \cup Loading /\ Goto(p, label)
  BY DEF Making, Loading
<1>5. /\ context' \in [Proc -> Context \cup {None}]
      /\ output' \in [Proc -> Path \cup {None}]
      /\ current' \in [Proc -> SUBSET Entry]
  BY DEF IInv, TypeOK
<1> HIDE DEF label
<1> QED  BY <1>3, <1>4, <1>5, FileKept, MoveIInv

LEMMA RequestContexts ==
  ASSUME NEW p \in Proc, NEW r \in Requests, ValidRequest(r), NEW c \in ContextsOf(p, r)
  PROVE  Formed(c) /\ (r.mode # "baseline" => Secure(c))
<1>1. /\ r.mode \in {"baseline", "aes-128-ctr"} /\ r.length \in Nat /\ r.counter \in Nat
  BY RegistryAssumption
<1>2. c \in Context /\ c.mode = r.mode
  BY <1>1 DEF ContextsOf, Context
<1>3. IF Secure(c) THEN c.key \in Key /\ c.nonce \in Nonce ELSE c.key = None
  BY DEF ContextsOf
<1> QED  BY <1>1, <1>2, <1>3 DEF Formed, Secure

LEMMA CreateContextIInv ==
  ASSUME IInv, NEW p \in Proc, NEW r \in Requests, CreateContext(p, r) PROVE IInv'
<1>1. CASE (~ValidRequest(r) \/ file[r.output] # None) /\ Finish(p, "failed")
  BY <1>1, FileKept, FinishIInv DEF CreateContext, Ended
<1>2. CASE ~((~ValidRequest(r) \/ file[r.output] # None) /\ Finish(p, "failed"))
  <2> DEFINE label == IF r.mode = "baseline" THEN "open" ELSE "wait_new"
  <2>1. /\ ValidRequest(r) /\ pc[p] = "idle"
        /\ output' = [output EXCEPT ![p] = r.output]
        /\ Goto(p, label)
        /\ UNCHANGED <<lock, current, registry, file, claims>>
    BY <1>2 DEF CreateContext
  <2>2. PICK c \in ContextsOf(p, r) : context' = [context EXCEPT ![p] = c]
    BY <1>2 DEF CreateContext
  <2>3. Formed(c) /\ (r.mode # "baseline" => Secure(c)) /\ (r.mode = "baseline" => ~Secure(c))
    BY <2>1, <2>2, RequestContexts DEF ContextsOf, Secure
  <2>4. context'[p] = c /\ pc'[p] = label
    BY <2>1, <2>2 DEF Goto, IInv, TypeOK
  <2>5. ProcOK(p)'
    BY <2>3, <2>4 DEF ProcOK, Holding, Making, Loading
  <2>6. r.output \in Path
    BY RegistryAssumption
  <2>7. /\ context' \in [Proc -> Context \cup {None}]
        /\ output' \in [Proc -> Path \cup {None}]
        /\ current' \in [Proc -> SUBSET Entry]
        /\ \A q \in Proc \ {p} : context'[q] = context[q] /\ current'[q] = current[q]
    BY <2>1, <2>2, <2>3, <2>6 DEF IInv, TypeOK, Formed
  <2>8. label \in Making
    BY DEF Making
  <2> HIDE DEF label
  <2> QED  BY <2>1, <2>5, <2>7, <2>8, FileKept, MoveIInv
<1> QED  BY <1>1, <1>2

LEMMA ReadForNewIInv == ASSUME IInv, NEW p \in Proc, ReadForNew(p) PROVE IInv'
<1>1. CASE \E e \in registry : SameKeystream(e, context[p])
  <2>1. Finish(p, "failed") /\ UNCHANGED <<registry, file, claims>>
    BY <1>1 DEF ReadForNew
  <2> QED  BY <2>1, FileKept, FinishIInv DEF Ended
<1>2. CASE ~\E e \in registry : SameKeystream(e, context[p])
  <2>1. /\ Goto(p, "open") /\ UNCHANGED <<lock, context, output, registry, file, claims>>
        /\ current' = [current EXCEPT ![p] = registry]
        /\ pc[p] = "read"
    BY <1>2 DEF ReadForNew, Proceed
  <2>2. pc'[p] = "open" /\ current'[p] = registry /\ ProcOK(p) /\ lock = p
    BY <2>1 DEF Goto, IInv, TypeOK, ProcOK, Holding
  <2>3. ProcOK(p)'
    BY <1>2, <2>1, <2>2 DEF ProcOK, Holding, Making, Loading, SameKeystream
  <2>4. /\ context' \in [Proc -> Context \cup {None}]
        /\ output' \in [Proc -> Path \cup {None}]
        /\ current' \in [Proc -> SUBSET Entry]
        /\ \A q \in Proc \ {p} : context'[q] = context[q] /\ current'[q] = current[q]
    BY <2>1 DEF IInv, TypeOK
  <2>5. "open" \in Making  BY DEF Making
  <2> QED  BY <2>1, <2>3, <2>4, <2>5, FileKept, MoveIInv
<1> QED  BY <1>1, <1>2

LEMMA OpenOutputIInv == ASSUME IInv, NEW p \in Proc, OpenOutput(p) PROVE IInv'
<1>1. CASE Finish(p, "failed") /\ UNCHANGED file
  BY <1>1, FileKept, FinishIInv DEF OpenOutput, Ended
<1>2. CASE ~(Finish(p, "failed") /\ UNCHANGED file)
  <2>1. /\ file' = [file EXCEPT ![output[p]] = Torn]
        /\ Goto(p, "write") /\ UNCHANGED <<lock, context, output, current, registry, claims>>
        /\ pc[p] = "open"
    BY <1>2 DEF OpenOutput, Proceed
  <2>2. file' \in [Path -> Context \cup {None, Torn}] /\ FilesFormed'
    BY <2>1 DEF IInv, TypeOK, FilesFormed
  <2>3. pc'[p] = "write" /\ ProcOK(p)
    BY <2>1 DEF Goto, IInv, TypeOK
  <2>4. ProcOK(p)'
    BY <2>1, <2>3 DEF ProcOK, Holding, Making, Loading
  <2>5. /\ context' \in [Proc -> Context \cup {None}]
        /\ output' \in [Proc -> Path \cup {None}]
        /\ current' \in [Proc -> SUBSET Entry]
    BY <2>1 DEF IInv, TypeOK
  <2>6. "write" \in Making  BY DEF Making
  <2> QED  BY <2>1, <2>2, <2>4, <2>5, <2>6, MoveIInv
<1> QED  BY <1>1, <1>2

LEMMA WriteOutputIInv == ASSUME IInv, NEW p \in Proc, WriteOutput(p) PROVE IInv'
<1>1. ProcOK(p) /\ Formed(context[p]) /\ pc[p] = "write"
  BY DEF IInv, ProcOK, WriteOutput, Making
<1>2. PICK left \in {None, context[p]} : file' = [file EXCEPT ![output[p]] = left]
  BY DEF WriteOutput
<1>3. left = None \/ Formed(left)
  BY <1>1, <1>2
<1>4. file' \in [Path -> Context \cup {None, Torn}]
  BY <1>2, <1>3 DEF IInv, TypeOK, Formed
<1>5. \A f \in Path : file'[f] = file[f] \/ file'[f] = left
  BY <1>2 DEF IInv, TypeOK
<1>6. FilesFormed'
  BY <1>3, <1>5 DEF IInv, FilesFormed
<1>7. CASE \E label \in {"done", "failed"} : Finish(p, label)
  BY <1>4, <1>6, <1>7, FinishIInv DEF WriteOutput, Ended
<1>8. CASE ~\E label \in {"done", "failed"} : Finish(p, label)
  <2>1. /\ Secure(context[p]) /\ Goto(p, "register")
        /\ UNCHANGED <<lock, context, output, current, registry, claims>>
    BY <1>8 DEF WriteOutput, Proceed
  <2>2. pc'[p] = "register"
    BY <2>1 DEF Goto, IInv, TypeOK
  <2>3. ProcOK(p)'
    BY <1>1, <2>1, <2>2 DEF ProcOK, Holding, Making, Loading
  <2>4. /\ context' \in [Proc -> Context \cup {None}]
        /\ output' \in [Proc -> Path \cup {None}]
        /\ current' \in [Proc -> SUBSET Entry]
    BY <2>1 DEF IInv, TypeOK
  <2>5. "register" \in Making  BY DEF Making
  <2> QED  BY <1>4, <1>6, <2>1, <2>3, <2>4, <2>5, MoveIInv
<1> QED  BY <1>7, <1>8

(* An entry is added to the registry as it was read, which it still is. *)
LEMMA RegisteredShared ==
  ASSUME IInv, NEW p \in Proc, pc[p] = "register",
         registry' \in {registry, current[p] \cup {EntryOf(context[p])}},
         UNCHANGED <<file, claims>>
  PROVE  /\ lock = p
         /\ registry \subseteq registry'
         /\ registry' \in SUBSET Entry
         /\ RegistryUnique' /\ ClaimsFormed' /\ ClaimIsOnDisk' /\ KeystreamClaimedOnce'
<1> DEFINE x == EntryOf(context[p])
<1>1. /\ Formed(context[p]) /\ Secure(context[p]) /\ lock = p /\ current[p] = registry
      /\ \A e \in registry : ~SameKeystream(e, context[p])
  BY DEF IInv, ProcOK, Making, Loading, Holding
<1>2. x \in Entry /\ x.key = context[p].key /\ x.nonce = context[p].nonce
  BY <1>1, EntryFacts
<1>3. registry \in SUBSET Entry /\ RegistryUnique /\ ClaimsFormed /\ ClaimIsOnDisk
        /\ KeystreamClaimedOnce
  BY DEF IInv, TypeOK
<1> HIDE DEF x
<1>4. registry' = registry \/ registry' = registry \cup {x}
  BY <1>1 DEF x
<1>5. \A e \in registry : ~SameKeystream(e, x) /\ ~SameKeystream(x, e)
  BY <1>1, <1>2 DEF SameKeystream
<1>6. RegistryUnique'
  BY <1>3, <1>4, <1>5 DEF RegistryUnique, SameKeystream
<1>7. registry \subseteq registry' /\ registry' \in SUBSET Entry
  BY <1>2, <1>3, <1>4
<1>8. ClaimIsOnDisk'
  BY <1>3, <1>7 DEF ClaimIsOnDisk
<1>9. ClaimsFormed' /\ KeystreamClaimedOnce'
  BY <1>3 DEF ClaimsFormed, KeystreamClaimedOnce
<1> QED  BY <1>1, <1>6, <1>7, <1>8, <1>9

LEMMA RegisterIInv == ASSUME IInv, NEW p \in Proc, Register(p) PROVE IInv'
<1>1. /\ pc[p] = "register" /\ UNCHANGED <<file, claims>>
      /\ registry' \in {registry, current[p] \cup {EntryOf(context[p])}}
  BY DEF Register
<1>2. /\ lock = p
      /\ registry' \in SUBSET Entry
      /\ RegistryUnique' /\ ClaimsFormed' /\ ClaimIsOnDisk' /\ KeystreamClaimedOnce'
  BY <1>1, RegisteredShared
<1>3. TypeOK /\ (\A q \in Proc : ProcOK(q))
  BY DEF IInv
<1>4. FilesFormed' /\ file' \in [Path -> Context \cup {None, Torn}]
  BY <1>1, FileKept
<1>5. CASE Finish(p, "done")
  <2>1. /\ \A q \in Proc : ProcOK(q)'
        /\ pc' \in [Proc -> {"idle", "wait_new", "wait_claim", "ready"}
                                \cup Creating \cup Claiming \cup Ended]
        /\ context' \in [Proc -> Context \cup {None}]
        /\ output' \in [Proc -> Path \cup {None}]
        /\ current' \in [Proc -> SUBSET Entry]
        /\ lock' \in Proc \cup {None}
    <3>1. "done" \in Ended  BY DEF Ended
    <3>2. claims \subseteq claims' /\ (registry' = registry \/ lock = p)
      BY <1>1, <1>2
    <3> QED  BY <1>3, <1>5, <3>1, <3>2, FinishKeeps
  <2>2. TypeOK'
    BY <1>1, <1>2, <1>3, <1>4, <2>1 DEF TypeOK
  <2> QED  BY <1>2, <1>4, <2>1, <2>2 DEF IInv
<1>6. CASE Proceed(p, "rollback") /\ UNCHANGED current
  <2>1. pc' = [pc EXCEPT ![p] = "rollback"] /\ UNCHANGED <<lock, context, output, current>>
    BY <1>6 DEF Proceed, Goto
  <2>2. ProcOK(p) /\ pc'[p] = "rollback"
    BY <1>3, <2>1 DEF TypeOK
  <2>3. ProcOK(p)'
    BY <1>1, <1>2, <2>1, <2>2 DEF ProcOK, Holding, Making, Loading
  <2>4. \A q \in Proc \ {p} :
          pc'[q] = pc[q] /\ context'[q] = context[q] /\ current'[q] = current[q]
    BY <1>3, <2>1 DEF TypeOK
  <2>5. \A q \in Proc : ProcOK(q)'
    <3>1. claims \subseteq claims' /\ lock' = lock
      BY <1>1, <2>1
    <3> QED  BY <1>2, <1>3, <2>3, <2>4, <3>1, AllKeep
  <2>6. TypeOK'
    BY <1>1, <1>2, <1>3, <1>4, <2>1 DEF TypeOK, Creating
  <2> QED  BY <1>2, <1>4, <2>5, <2>6 DEF IInv
<1> QED  BY <1>5, <1>6 DEF Register

LEMMA RollbackIInv == ASSUME IInv, NEW p \in Proc, Rollback(p) PROVE IInv'
<1>1. file' = [file EXCEPT ![output[p]] = None] /\ Finish(p, "failed")
  BY DEF Rollback
<1>2. file' \in [Path -> Context \cup {None, Torn}] /\ FilesFormed'
  BY <1>1 DEF IInv, TypeOK, FilesFormed
<1> QED  BY <1>1, <1>2, FinishIInv DEF Rollback, Ended

LEMMA LoadContextIInv ==
  ASSUME IInv, NEW p \in Proc, NEW f \in Path, NEW with_registry \in BOOLEAN,
         LoadContext(p, f, with_registry)
  PROVE  IInv'
<1>1. CASE Finish(p, "failed")
  BY <1>1, FileKept, FinishIInv DEF LoadContext, Ended
<1>2. CASE ~Finish(p, "failed")
  <2> DEFINE label == IF Secure(file[f]) THEN "wait_claim" ELSE "ready"
  <2>1. /\ file[f] \notin {None, Torn}
        /\ context' = [context EXCEPT ![p] = file[f]]
        /\ Goto(p, label)
        /\ UNCHANGED <<lock, output, current, registry, file, claims>>
    BY <1>2 DEF LoadContext
  <2>2. Formed(file[f])
    BY <2>1 DEF IInv, FilesFormed
  <2>3. context'[p] = file[f] /\ pc'[p] = label
    BY <2>1 DEF Goto, IInv, TypeOK
  <2>4. ProcOK(p)'
    BY <2>2, <2>3 DEF ProcOK, Holding, Making, Loading
  <2>5. /\ context' \in [Proc -> Context \cup {None}]
        /\ output' \in [Proc -> Path \cup {None}]
        /\ current' \in [Proc -> SUBSET Entry]
        /\ \A q \in Proc \ {p} : context'[q] = context[q] /\ current'[q] = current[q]
    BY <2>1, <2>2 DEF IInv, TypeOK, Formed
  <2>6. label \in Loading \cup {"ready"}
    BY DEF Loading
  <2> HIDE DEF label
  <2> QED  BY <2>1, <2>4, <2>5, <2>6, FileKept, MoveIInv
<1> QED  BY <1>1, <1>2

LEMMA ReadForClaimIInv == ASSUME IInv, NEW p \in Proc, ReadForClaim(p) PROVE IInv'
<1>1. CASE ~Claimable(p)
  <2>1. Finish(p, "failed") /\ UNCHANGED <<registry, file, claims>>
    BY <1>1 DEF ReadForClaim
  <2> QED  BY <2>1, FileKept, FinishIInv DEF Ended
<1>2. CASE Claimable(p)
  <2>1. /\ Goto(p, "claim") /\ UNCHANGED <<lock, context, output, registry, file, claims>>
        /\ current' = [current EXCEPT ![p] = registry]
        /\ pc[p] = "match"
    BY <1>2 DEF ReadForClaim, Proceed
  <2>2. pc'[p] = "claim" /\ current'[p] = registry /\ ProcOK(p) /\ lock = p
    BY <2>1 DEF Goto, IInv, TypeOK, ProcOK, Holding
  <2>3. EntryOf(context[p]) \in registry
    BY <1>2 DEF Claimable, Matches
  <2>4. EntryOf(context'[p]) = EntryOf(context[p])
    BY <2>1
  <2>5. ProcOK(p)'
    BY <2>1, <2>2, <2>3, <2>4 DEF ProcOK, Holding, Making, Loading
  <2>6. /\ context' \in [Proc -> Context \cup {None}]
        /\ output' \in [Proc -> Path \cup {None}]
        /\ current' \in [Proc -> SUBSET Entry]
        /\ \A q \in Proc \ {p} : context'[q] = context[q] /\ current'[q] = current[q]
    BY <2>1 DEF IInv, TypeOK
  <2>7. "claim" \in Loading  BY DEF Loading
  <2> QED  BY <2>1, <2>5, <2>6, <2>7, FileKept, MoveIInv
<1> QED  BY <1>1, <1>2

(* The mark, with or without the grant: the entry was not started, so no   *)
(* claim of its keystream can have been granted before.                    *)
LEMMA ClaimedShared ==
  ASSUME IInv, NEW p \in Proc, pc[p] = "claim",
         registry' \in {registry, Started(current[p], context[p].id)},
         claims' = claims
           \/ (claims' = claims \cup {Granted(p)}
                 /\ registry' = Started(current[p], context[p].id))
  PROVE  /\ lock = p
         /\ \A e \in registry : e \in registry' \/ Mark(e) \in registry'
         /\ registry' \in SUBSET Entry
         /\ claims' \in SUBSET [by : Proc, context : Context]
         /\ RegistryUnique' /\ ClaimsFormed' /\ ClaimIsOnDisk' /\ KeystreamClaimedOnce'
<1> DEFINE c == context[p]
           x == EntryOf(c)
<1>1. Formed(c) /\ Secure(c) /\ lock = p /\ current[p] = registry /\ x \in registry
  BY DEF IInv, ProcOK, Making, Loading, Holding
<1>2. /\ x \in Entry /\ x.key = c.key /\ x.nonce = c.nonce /\ x.id = c.id
      /\ ~x.capture_started
  BY <1>1, EntryFacts
<1>3. registry \in SUBSET Entry /\ RegistryUnique /\ ClaimsFormed /\ ClaimIsOnDisk
        /\ KeystreamClaimedOnce /\ claims \in SUBSET [by : Proc, context : Context]
  BY DEF IInv, TypeOK
<1>4. \A d \in claims : Mark(EntryOf(d.context)) \in registry
  BY <1>3 DEF ClaimIsOnDisk, Mark
<1>5. \A d \in claims : /\ EntryOf(d.context) \in Entry
                        /\ EntryOf(d.context).key = d.context.key
                        /\ EntryOf(d.context).nonce = d.context.nonce
  BY <1>3, EntryFacts DEF ClaimsFormed
<1>6. \A d \in claims : /\ Mark(EntryOf(d.context)).key = d.context.key
                        /\ Mark(EntryOf(d.context)).nonce = d.context.nonce
                        /\ Mark(EntryOf(d.context)).capture_started
  BY <1>5, MarkFacts
<1>7. /\ Granted(p).context = c /\ Granted(p) \in [by : Proc, context : Context]
  BY <1>1 DEF Granted, Formed
<1> HIDE DEF c, x
<1>8. \A d \in claims : ~SameKeystream(d.context, c)
  <2> SUFFICES ASSUME NEW d \in claims, SameKeystream(d.context, c) PROVE FALSE
    OBVIOUS
  <2>1. SameKeystream(Mark(EntryOf(d.context)), x)
    BY <1>2, <1>6 DEF SameKeystream
  <2>2. Mark(EntryOf(d.context)) = x
    BY <1>1, <1>3, <1>4, <2>1 DEF RegistryUnique
  <2> QED  BY <1>2, <1>6, <2>2
<1>9. registry' = registry \/ registry' = Started(registry, c.id)
  BY <1>1 DEF c
<1> DEFINE s == Started(registry, c.id)
<1>marked. /\ s \in SUBSET Entry
           /\ \A e \in registry : e \in s \/ Mark(e) \in s
           /\ \A e \in registry : e.capture_started => e \in s
  BY <1>3, StartedFacts
<1> HIDE DEF s
<1>10. registry' \in SUBSET Entry
  BY <1>3, <1>9, <1>marked DEF s
<1>11. RegistryUnique'
  <2>1. CASE registry' = registry
    BY <1>3, <2>1 DEF RegistryUnique
  <2>2. CASE registry' = Started(registry, c.id)
    BY <1>3, <2>2, UniqueStarted DEF RegistryUnique
  <2> QED  BY <1>9, <2>1, <2>2
<1>12. \A e \in registry : e \in registry' \/ Mark(e) \in registry'
  BY <1>9, <1>marked DEF s
<1>13. \A e \in registry : e.capture_started => e \in registry'
  BY <1>9, <1>marked DEF s
<1>14. \A d \in claims : Mark(EntryOf(d.context)) \in registry'
  BY <1>4, <1>6, <1>13
<1>15. CASE claims' = claims
  <2>1. ClaimIsOnDisk'
    BY <1>14, <1>15 DEF ClaimIsOnDisk, Mark
  <2>2. ClaimsFormed' /\ KeystreamClaimedOnce'
    BY <1>3, <1>15 DEF ClaimsFormed, KeystreamClaimedOnce
  <2> QED  BY <1>1, <1>3, <1>10, <1>11, <1>12, <1>15, <2>1, <2>2
<1>16. CASE claims' = claims \cup {Granted(p)} /\ registry' = Started(current[p], context[p].id)
  <2>1. Mark(x) \in registry'
    BY <1>1, <1>2, <1>3, <1>16, StartedFacts DEF c
  <2>2. \A d \in claims' : Mark(EntryOf(d.context)) \in registry'
    BY <1>7, <1>14, <1>16, <2>1 DEF x
  <2>3. ClaimIsOnDisk'
    BY <2>2 DEF ClaimIsOnDisk, Mark
  <2>4. ClaimsFormed'
    BY <1>1, <1>3, <1>7, <1>16 DEF ClaimsFormed
  <2>5. KeystreamClaimedOnce'
    <3>1. \A d \in claims : ~SameKeystream(c, d.context)
      BY <1>8 DEF SameKeystream
    <3> QED  BY <1>3, <1>7, <1>8, <1>16, <3>1 DEF KeystreamClaimedOnce
  <2>6. claims' \in SUBSET [by : Proc, context : Context]
    BY <1>3, <1>7, <1>16
  <2> QED  BY <1>1, <1>10, <1>11, <1>12, <2>3, <2>4, <2>5, <2>6
<1> QED  BY <1>15, <1>16

LEMMA ClaimIInv == ASSUME IInv, NEW p \in Proc, Claim(p) PROVE IInv'
<1>1. pc[p] = "claim" /\ UNCHANGED file
  BY DEF Claim
<1>2. /\ registry' \in {registry, Started(current[p], context[p].id)}
      /\ \/ claims' = claims
         \/ /\ claims' = claims \cup {Granted(p)}
            /\ registry' = Started(current[p], context[p].id)
  BY DEF Claim
<1>3. /\ lock = p
      /\ registry' \in SUBSET Entry
      /\ claims' \in SUBSET [by : Proc, context : Context]
      /\ RegistryUnique' /\ ClaimsFormed' /\ ClaimIsOnDisk' /\ KeystreamClaimedOnce'
  BY <1>1, <1>2, ClaimedShared
<1>4. TypeOK /\ (\A q \in Proc : ProcOK(q))
  BY DEF IInv
<1>5. FilesFormed' /\ file' \in [Path -> Context \cup {None, Torn}]
  BY <1>1, FileKept
<1>6. claims \subseteq claims' /\ (registry' = registry \/ lock = p)
  BY <1>2, <1>3
<1>7. CASE Finish(p, "failed")
  <2>1. /\ \A q \in Proc : ProcOK(q)'
        /\ pc' \in [Proc -> {"idle", "wait_new", "wait_claim", "ready"}
                                \cup Creating \cup Claiming \cup Ended]
        /\ context' \in [Proc -> Context \cup {None}]
        /\ output' \in [Proc -> Path \cup {None}]
        /\ current' \in [Proc -> SUBSET Entry]
        /\ lock' \in Proc \cup {None}
    <3>1. "failed" \in Ended  BY DEF Ended
    <3> QED  BY <1>4, <1>6, <1>7, <3>1, FinishKeeps
  <2>2. TypeOK'
    BY <1>3, <1>5, <2>1 DEF TypeOK
  <2> QED  BY <1>3, <1>5, <2>1, <2>2 DEF IInv
<1>8. CASE ~Finish(p, "failed")
  <2>1. /\ pc' = [pc EXCEPT ![p] = "ready"] /\ lock' = None
        /\ claims' = claims \cup {Granted(p)}
        /\ UNCHANGED <<context, output, current>>
    BY <1>8 DEF Claim, Goto
  <2>2. ProcOK(p) /\ pc'[p] = "ready"
    BY <1>4, <2>1 DEF TypeOK
  <2>3. Granted(p)' \in claims'
    BY <2>1 DEF Granted
  <2>4. ProcOK(p)'
    BY <1>1, <2>1, <2>2, <2>3 DEF ProcOK, Holding, Making, Loading
  <2>5. \A q \in Proc \ {p} :
          pc'[q] = pc[q] /\ context'[q] = context[q] /\ current'[q] = current[q]
    BY <1>4, <2>1 DEF TypeOK
  <2>6. \A q \in Proc : ProcOK(q)'
    <3>1. lock \in {p, None}  BY <1>3
    <3> QED  BY <1>4, <1>6, <2>4, <2>5, <3>1, AllKeep
  <2>7. TypeOK'
    BY <1>3, <1>4, <1>5, <2>1 DEF TypeOK
  <2> QED  BY <1>3, <1>5, <2>6, <2>7 DEF IInv
<1> QED  BY <1>7, <1>8

LEMMA CrashIInv == ASSUME IInv, NEW p \in Proc, Crash(p) PROVE IInv'
BY FileKept, FinishIInv DEF Crash, Ended

(* An edit leaves the key alone, so a secure context stays well formed. *)
LEMMA EditContextIInv ==
  ASSUME IInv, NEW f \in Path, NEW r \in Requests, EditContext(f, r) PROVE IInv'
<1> DEFINE c == file[f]
           d == [c EXCEPT !.length = r.length, !.counter = r.counter, !.nonce = r.nonce]
<1>1. /\ c \in Context /\ Secure(c) /\ r.nonce # None
      /\ file' = [file EXCEPT ![f] = d]
      /\ UNCHANGED <<registry, lock, pc, context, output, current, claims>>
  BY DEF EditContext
<1>2. r.length \in Nat /\ r.counter \in Nat /\ r.nonce \in Nonce
  BY <1>1, RegistryAssumption
<1>3. c = Torn \/ c = None \/ c.key \in Key
  BY <1>1 DEF IInv, FilesFormed, Formed
<1>4. d \in Context /\ d.key = c.key /\ d.mode = c.mode /\ d.nonce = r.nonce
  BY <1>1, <1>2 DEF Context
<1>5. Formed(d)
  <2>1. c.key \in Key
    BY <1>1, RegistryAssumption DEF IInv, FilesFormed, Formed
  <2> QED  BY <1>1, <1>2, <1>4, <2>1 DEF Formed, Secure
<1> HIDE DEF c, d
<1>6. \A g \in Path : file'[g] = file[g] \/ file'[g] = d
  BY <1>1 DEF IInv, TypeOK
<1>7. file' \in [Path -> Context \cup {None, Torn}]
  BY <1>1, <1>4 DEF IInv, TypeOK
<1>8. FilesFormed'
  BY <1>5, <1>6 DEF IInv, FilesFormed
<1>9. TypeOK'
  BY <1>1, <1>7 DEF IInv, TypeOK
<1>10. \A q \in Proc : ProcOK(q)'
  BY <1>1 DEF IInv, ProcOK, Holding, Granted
<1>11. (RegistryUnique /\ ClaimsFormed /\ ClaimIsOnDisk /\ KeystreamClaimedOnce)'
  BY <1>1 DEF IInv, RegistryUnique, ClaimsFormed, ClaimIsOnDisk, KeystreamClaimedOnce
<1> QED  BY <1>8, <1>9, <1>10, <1>11 DEF IInv
-----------------------------------------------------------------------------
LEMMA InitIInv == Init => IInv
<1> SUFFICES ASSUME Init PROVE IInv
  OBVIOUS
<1>1. TypeOK /\ FilesFormed
  BY DEF Init, TypeOK, FilesFormed
<1>2. RegistryUnique /\ ClaimsFormed /\ ClaimIsOnDisk /\ KeystreamClaimedOnce
  BY DEF Init, RegistryUnique, ClaimsFormed, ClaimIsOnDisk, KeystreamClaimedOnce
<1>3. \A p \in Proc : ProcOK(p)
  BY DEF Init, ProcOK, Holding, Making, Loading
<1> QED  BY <1>1, <1>2, <1>3 DEF IInv

LEMMA StutterIInv == IInv /\ UNCHANGED vars => IInv'
<1> SUFFICES ASSUME IInv, UNCHANGED vars PROVE IInv'
  OBVIOUS
<1> USE DEF vars
<1>1. TypeOK' /\ FilesFormed'
  BY DEF IInv, TypeOK, FilesFormed
<1>2. \A q \in Proc : ProcOK(q)'
  BY DEF IInv, ProcOK, Holding, Granted
<1>3. (RegistryUnique /\ ClaimsFormed /\ ClaimIsOnDisk /\ KeystreamClaimedOnce)'
  BY DEF IInv, RegistryUnique, ClaimsFormed, ClaimIsOnDisk, KeystreamClaimedOnce
<1> QED  BY <1>1, <1>2, <1>3 DEF IInv

LEMMA NextIInv == IInv /\ [Next]_vars => IInv'
<1> SUFFICES ASSUME IInv, Next PROVE IInv'
  BY StutterIInv
<1>1. CASE \E p \in Proc : Step(p)
  <2>1. PICK p \in Proc : Step(p)
    BY <1>1
  <2> QED
    BY <2>1, AcquireLockIInv, ReadForNewIInv, OpenOutputIInv, WriteOutputIInv,
       RegisterIInv, RollbackIInv, ReadForClaimIInv, ClaimIInv DEF Step
<1>2. CASE \E p \in Proc : Crash(p)
  BY <1>2, CrashIInv
<1>3. CASE \E p \in Proc, r \in Requests : CreateContext(p, r)
  BY <1>3, CreateContextIInv
<1>4. CASE \E p \in Proc, f \in Path, with_registry \in BOOLEAN :
             LoadContext(p, f, with_registry)
  BY <1>4, LoadContextIInv
<1>5. CASE \E f \in Path, r \in Requests : EditContext(f, r)
  BY <1>5, EditContextIInv
<1> QED  BY <1>1, <1>2, <1>3, <1>4, <1>5 DEF Next

-----------------------------------------------------------------------------
(* No step loses an entry: a writer holds the lock, so what it has read is *)
(* what it replaces.                                                       *)
Grown ==
  \A e \in registry :
    \/ e \in registry'
    \/ [e EXCEPT !.capture_started = TRUE] \in registry'

LEMMA MarkedIsGrown ==
  (\A e \in registry : e \in registry' \/ Mark(e) \in registry') => Grown
BY DEF Grown, Mark

(* Grants are never taken back either. *)
LEMMA StepGrows == IInv /\ [Next]_vars => Grown /\ claims \subseteq claims'
<1> SUFFICES ASSUME IInv, [Next]_vars PROVE Grown /\ claims \subseteq claims'
  OBVIOUS
<1>1. CASE registry' = registry
  <2>1. claims \subseteq claims'
    BY DEF vars, Next, Step, AcquireLock, ReadForNew, OpenOutput, WriteOutput, Register,
       Rollback, ReadForClaim, Claim, Crash, CreateContext, LoadContext, EditContext
  <2> QED  BY <1>1, <2>1 DEF Grown
<1>2. ASSUME NEW p \in Proc, Register(p) PROVE Grown /\ claims \subseteq claims'
  BY <1>2, RegisteredShared, MarkedIsGrown DEF Register
<1>3. ASSUME NEW p \in Proc, Claim(p) PROVE Grown /\ claims \subseteq claims'
  BY <1>3, ClaimedShared, MarkedIsGrown DEF Claim
<1>4. CASE registry' # registry
  <2>1. \E p \in Proc : Register(p) \/ Claim(p)
    BY <1>4 DEF vars, Next, Step, AcquireLock, ReadForNew, OpenOutput, WriteOutput,
       Rollback, ReadForClaim, Crash, CreateContext, LoadContext, EditContext
  <2> QED  BY <1>2, <1>3, <2>1
<1> QED  BY <1>1, <1>4
-----------------------------------------------------------------------------
(* The registry with the board: what has been streamed was claimed.        *)
StreamsClaimed ==
  \A s \in streams : Formed(s.context) /\ (Secure(s.context) => s \in claims)

BenchIInv == IInv /\ StreamsClaimed

LEMMA StreamIInv ==
  ASSUME BenchIInv, NEW p \in Proc, Stream(p)
  PROVE  IInv' /\ StreamsClaimed' /\ Grown
<1>1. /\ pc[p] = "ready" /\ Finish(p, "done") /\ UNCHANGED <<registry, file, claims>>
      /\ streams' = streams \cup {Granted(p)}
  BY DEF Stream
<1>2. IInv'
  BY <1>1, FileKept, FinishIInv DEF BenchIInv, Ended
<1>3. Formed(context[p]) /\ (Secure(context[p]) => Granted(p) \in claims)
  BY <1>1 DEF BenchIInv, IInv, ProcOK
<1>4. Granted(p).context = context[p]
  BY DEF Granted
<1> HIDE DEF Granted
<1>5. StreamsClaimed'
  BY <1>1, <1>3, <1>4 DEF BenchIInv, StreamsClaimed
<1> QED  BY <1>1, <1>2, <1>5 DEF Grown

LEMMA BenchNextIInv ==
  BenchIInv /\ [BenchNext]_benchVars => BenchIInv' /\ [Grown]_vars
<1> SUFFICES ASSUME BenchIInv, [BenchNext]_benchVars PROVE BenchIInv' /\ [Grown]_vars
  OBVIOUS
<1>1. ASSUME [Next]_vars, UNCHANGED streams PROVE BenchIInv' /\ [Grown]_vars
  <2>1. IInv' /\ Grown /\ claims \subseteq claims'
    BY <1>1, NextIInv, StepGrows DEF BenchIInv
  <2>2. StreamsClaimed'
    BY <1>1, <2>1 DEF BenchIInv, StreamsClaimed
  <2> QED  BY <2>1, <2>2 DEF BenchIInv
<1>2. CASE \E p \in Proc : Stream(p)
  BY <1>2, StreamIInv DEF BenchIInv
<1>3. CASE ~\E p \in Proc : Stream(p)
  BY <1>1, <1>3 DEF BenchNext, benchVars, RenderAndProgram, ProgramAgain
<1> QED  BY <1>2, <1>3

LEMMA StreamedOnce == BenchIInv => KeystreamStreamedOnce
<1> SUFFICES ASSUME BenchIInv, NEW s \in streams, NEW t \in streams,
                    Secure(s.context), SameKeystream(s.context, t.context)
             PROVE  s = t
  BY DEF KeystreamStreamedOnce
<1>1. Formed(s.context) /\ Formed(t.context) /\ s \in claims
  BY DEF BenchIInv, StreamsClaimed
<1>2. Secure(t.context)
  BY <1>1, RegistryAssumption DEF Formed, SameKeystream
<1>3. t \in claims
  BY <1>2 DEF BenchIInv, StreamsClaimed
<1> QED  BY <1>1, <1>3 DEF BenchIInv, IInv, KeystreamClaimedOnce

LEMMA BenchInitIInv == BenchInit => BenchIInv
BY InitIInv DEF BenchInit, BenchIInv, StreamsClaimed

LEMMA BenchAlways == BenchSpec => []BenchIInv
  BY BenchInitIInv, BenchNextIInv, PTL DEF BenchSpec

(* No key and nonce is ever granted to two captures, whatever order files  *)
(* are made, edited, claimed and abandoned in: claim_capture of context.py *)
(* with the lock and the unique registry behind it.                        *)
THEOREM BenchInvariant == BenchSpec => [](TypeOK /\ KeystreamClaimedOnce)
<1>1. BenchIInv => TypeOK /\ KeystreamClaimedOnce
  BY DEF BenchIInv, IInv
<1> QED  BY <1>1, BenchAlways, PTL

(* Each grant is on disk, marked as started, for the very context it was   *)
(* given for: no crash or failed write after it can make the context       *)
(* claimable again.                                                        *)
THEOREM GrantIsOnDisk == BenchSpec => []ClaimIsOnDisk
<1>1. BenchIInv => ClaimIsOnDisk
  BY DEF BenchIInv, IInv
<1> QED  BY <1>1, BenchAlways, PTL

(* The end of the chain, over any number of boards programmed again: no    *)
(* payload is streamed under a key and nonce already used.                 *)
THEOREM NothingStreamedTwice == BenchSpec => []KeystreamStreamedOnce
  BY StreamedOnce, BenchAlways, PTL

(* Entries are never lost, altered or set back, by any number of writers.  *)
THEOREM RegistryGrows == BenchSpec => RegistryOnlyGrows
<1>1. RegistryOnlyGrows <=> [][Grown]_vars
  BY DEF RegistryOnlyGrows, Grown
<1> QED  BY <1>1, BenchInitIInv, BenchNextIInv, PTL DEF BenchSpec
=============================================================================
