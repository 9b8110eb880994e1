------------------------------ MODULE GpsFixture ------------------------------
(***************************************************************************)
(* The data a bench run is fed with: the public NMEA file played by a GPS  *)
(* (scripts/gps_fixture.py), a raw capture of it that begins and ends      *)
(* anywhere, its validation (gps_capture.py), the large replay made of it  *)
(* (stress_fixture.py) and the runbook that names the replay               *)
(* (replay_campaign.py).                                                   *)
(*                                                                         *)
(* A byte is a number.  The identifier and the fields of a sentence are    *)
(* bytes below 2^FIELD_BITS other than 0, as no printable byte is 0; the   *)
(* two digits of a checksum v are the one byte 2^FIELD_BITS + v.           *)
(***************************************************************************)
EXTENDS Integers, SequencesExt, FiniteSetsExt, Bitwise

CONSTANTS
  Dollar, Star, CR, LF, Unprintable,
  FIELD_BITS,
  Files,         \* what the public file may hold, as it was checked out
  MAX_FAULTS,    \* bytes of the capture lost or altered
  Altered,       \* what a byte may be altered to
  LIMITS,        \* max_sentence_bytes, the default first
  SIZES,         \* --bytes of a replay
  REPLAY_SIZE,   \* the 1 MiB a runbook asks for
  None

ASSUME FixtureAssumption ==
  /\ Cardinality({Dollar, Star, CR, LF, Unprintable}) = 5
  /\ \A b \in {Dollar, Star, CR, LF, Unprintable} : b >= 2^(FIELD_BITS + 1)
  /\ REPLAY_SIZE \in SIZES
  /\ SIZES \subseteq Nat \ {0}

Field     == 1 .. 2^FIELD_BITS - 1
Digits(v) == 2^FIELD_BITS + v
MAX_SENTENCE == LIMITS[1]

VARIABLES
  file,          \* the public fixture
  stream,        \* what the GPS sends
  sent,          \* how much of it has been sent, from where the capture began
  capture,       \* the raw capture
  faults,
  phase,
  report,        \* of the validation, or of the replay
  replay,        \* the replay file
  runbook        \* campaign.json

vars == <<file, stream, sent, capture, faults, phase, report, replay, runbook>>
-----------------------------------------------------------------------------
InOrder(positions) == SelectSeq([i \in 1 .. Max(positions \cup {0}) |-> i],
                                LAMBDA i : i \in positions)

(* Positions at which CR LF begins, and what lies between them. *)
Breaks(bytes) == {i \in 1 .. Len(bytes) - 1 : bytes[i] = CR /\ bytes[i + 1] = LF}

Lines(bytes) ==
  LET ends == InOrder(Breaks(bytes))
  IN [k \in DOMAIN ends |->
        SubSeq(bytes, IF k = 1 THEN 1 ELSE ends[k - 1] + 2, ends[k] - 1)]

(* _parse_sentence, without the line end. *)
parse_sentence(line, limit) ==
  /\ \A i \in DOMAIN line : line[i] \notin {CR, LF, Unprintable}
  /\ line # <<>> /\ line[1] = Dollar
  /\ Cardinality({i \in DOMAIN line : line[i] = Star}) = 1
  /\ LET star == CHOOSE i \in DOMAIN line : line[i] = Star
         body == SubSeq(line, 2, star - 1)
         checksum == FoldLeft(LAMBDA x, byte : x ^^ byte, 0, body)
     IN /\ star = Len(line) - 1
        /\ body # <<>> /\ body[1] \in Field
        /\ line[Len(line)] = Digits(checksum)
  /\ Len(line) + 2 <= limit

(* parse_payload: whole sentences, each ended by CR LF, and nothing else. *)
parse_payload(payload, limit) ==
  LET breaks == Breaks(payload) IN
  /\ Len(payload) - 1 \in breaks
  /\ \A i \in DOMAIN payload :
       /\ payload[i] = CR => i \in breaks
       /\ payload[i] = LF => i - 1 \in breaks
  /\ \A k \in DOMAIN Lines(payload) : parse_sentence(Lines(payload)[k], limit)

NoWindow == [ok |-> FALSE, start |-> 0, end |-> 0]

(* Mutant: what follows the last sentence belongs to the window. *)
parse_window_to_the_end(payload, limit) ==
  LET breaks == Breaks(payload)
      start == IF payload # <<>> /\ payload[1] = Dollar THEN 0 ELSE Min(breaks) + 1
  IN IF breaks = {} \/ Len(payload) <= start THEN NoWindow
     ELSE [ok |-> parse_payload(SubSeq(payload, start + 1, Max(breaks) + 1), limit),
           start |-> start, end |-> Len(payload)]

(* parse_window: the fragments at both edges are reported, what lies       *)
(* between them is a payload of its own.  A capture that does not begin    *)
(* with a sentence begins with a fragment up to the first CR LF.           *)
parse_window(payload, limit) ==
  LET breaks == Breaks(payload)
      start == IF payload # <<>> /\ payload[1] = Dollar THEN 0 ELSE Min(breaks) + 1
      end == Max(breaks) + 1
  IN IF \/ \E i \in DOMAIN payload : payload[i] = Unprintable
        \/ breaks = {}
        \/ end <= start
     THEN NoWindow
     ELSE [ok |-> parse_payload(SubSeq(payload, start + 1, end), limit),
           start |-> start, end |-> end]

(* sentences: a checkout may have turned LF into CR LF, which is undone.   *)
Unconverted(raw) ==
  LET kept == InOrder(DOMAIN raw \ Breaks(raw))
  IN [k \in DOMAIN kept |-> raw[kept[k]]]

(* Every LF ends a line; a last line without one counts too.               *)
TextLines(text) ==
  LET ends == InOrder({i \in DOMAIN text : text[i] = LF}
                \cup (IF text = <<>> \/ Last(text) = LF THEN {} ELSE {Len(text) + 1}))
  IN [k \in DOMAIN ends |-> SubSeq(text, IF k = 1 THEN 1 ELSE ends[k - 1] + 1, ends[k] - 1)]

sentences(raw) ==
  LET text == Unconverted(raw) IN
  IF (\E i \in DOMAIN text : text[i] = CR) \/ text = <<>>
     \/ \E k \in DOMAIN TextLines(text) : ~parse_sentence(TextLines(text)[k], MAX_SENTENCE)
  THEN None ELSE TextLines(text)

(* load_replay: what the GPS would send. *)
load_replay(raw) ==
  FlattenSeq([k \in DOMAIN sentences(raw) |-> sentences(raw)[k] \o <<CR, LF>>])

(* make_payload: the sentences of a capture, repeated and cut to the size. *)
make_payload(source, size) ==
  LET w == parse_window(source, MAX_SENTENCE)
      cycle == SubSeq(source, w.start + 1, w.end)
  IN [k \in 1 .. size |-> cycle[((k - 1) % Len(cycle)) + 1]]
-----------------------------------------------------------------------------
Init ==
  /\ file \in Files
  /\ stream = <<>>
  /\ sent = 0
  /\ capture = <<>>
  /\ faults = 0
  /\ phase = "new"
  /\ report = None
  /\ replay = None
  /\ runbook = None

(* The capture begins when the GPS has already sent something, or not. *)
Start ==
  /\ phase = "new"
  /\ \/ sentences(file) = None /\ phase' = "refused" /\ UNCHANGED <<stream, sent>>
     \/ /\ sentences(file) # None
        /\ stream' = load_replay(file)
        /\ sent' \in 0 .. Len(stream') - 1
        /\ phase' = "record"
  /\ UNCHANGED <<file, capture, faults, report, replay, runbook>>

Receive ==
  /\ phase = "record" /\ sent < Len(stream)
  /\ sent' = sent + 1
  /\ capture' = Append(capture, stream[sent'])
  /\ UNCHANGED <<file, stream, faults, phase, report, replay, runbook>>

Disturb ==
  /\ phase = "record" /\ sent < Len(stream) /\ faults < MAX_FAULTS
  /\ faults' = faults + 1
  /\ sent' = sent + 1
  /\ \/ UNCHANGED capture
     \/ \E b \in Altered \ {stream[sent']} : capture' = Append(capture, b)
  /\ UNCHANGED <<file, stream, phase, report, replay, runbook>>

Stop ==
  /\ phase = "record"
  /\ phase' = "captured"
  /\ UNCHANGED <<file, stream, sent, capture, faults, report, replay, runbook>>

(* gps_capture.py: capture_metadata, with or without fragments, of a given *)
(* profile; the report is new or is not written.                           *)
Validate ==
  /\ phase = "captured"
  /\ \E allow_partial_edges \in BOOLEAN, limit \in Range(LIMITS) :
       LET w == IF allow_partial_edges THEN parse_window(capture, limit)
                ELSE [ok |-> parse_payload(capture, limit), start |-> 0, end |-> Len(capture)]
       IN IF w.ok THEN report' \in {None, w} ELSE UNCHANGED report
  /\ phase' = "validated"
  /\ UNCHANGED <<file, stream, sent, capture, faults, replay, runbook>>

(* stress_fixture.py: the replay, then its report; both files are new.  An *)
(* error in between leaves the replay alone.                               *)
Generate ==
  /\ phase = "captured"
  /\ \/ ~parse_window(capture, MAX_SENTENCE).ok /\ UNCHANGED <<replay, report>>
     \/ /\ parse_window(capture, MAX_SENTENCE).ok
        /\ \E size \in SIZES :
             /\ replay' = make_payload(capture, size)
             /\ report' \in {None, [sha256 |-> replay', bytes |-> size]}
  /\ phase' = "generated"
  /\ UNCHANGED <<file, stream, sent, capture, faults, runbook>>

(* prepare of replay_campaign.py: a replay of the size, with the digest of *)
(* its report, for contexts of that length.                                *)
CheckReplay ==
  /\ phase = "generated" /\ replay # None /\ report # None
  /\ replay = report.sha256 /\ Len(replay) = REPLAY_SIZE
  /\ phase' = "checked"
  /\ runbook' = [checked |-> replay, fixture_sha256 |-> None]
  /\ UNCHANGED <<file, stream, sent, capture, faults, report, replay>>

(* Between, the contexts and the builds are checked; the plan digests the  *)
(* replay once more, as it is then.                                        *)
WritePlan ==
  /\ phase = "checked"
  /\ runbook' = [runbook EXCEPT !.fixture_sha256 = replay]
  /\ phase' = "planned"
  /\ UNCHANGED <<file, stream, sent, capture, faults, report, replay>>

(* The operator edits the replay. *)
EditReplay ==
  /\ phase \in {"generated", "checked"} /\ replay # None
  /\ \E b \in Altered \ {replay[1]} : replay' = [replay EXCEPT ![1] = b]
  /\ UNCHANGED <<file, stream, sent, capture, faults, phase, report, runbook>>

Next ==
  \/ Start \/ Receive \/ Disturb \/ Stop
  \/ Validate \/ Generate \/ CheckReplay \/ WritePlan \/ EditReplay

Spec == Init /\ [][Next]_vars
-----------------------------------------------------------------------------
(* What the GPS sent from one end of a sentence to another. *)
Boundary == {0} \cup {i \in DOMAIN stream : stream[i] = LF}

Passages == {SubSeq(stream, i + 1, j) : <<i, j>> \in {p \in Boundary \X Boundary : p[1] < p[2]}}

(* One byte may be lost or altered anywhere, and the capture may begin and *)
(* end anywhere: the sentences a validated capture reports are sentences   *)
(* that were sent, one after the other.                                    *)
ReportedIsSent ==
  phase = "validated" /\ report # None =>
    SubSeq(capture, report.start + 1, report.end) \in Passages

(* And a replay repeats nothing else: it has the size asked for, begins    *)
(* with a whole sentence, breaks off only at its very end, and is itself   *)
(* accepted, from its first byte on, once it holds one sentence.           *)
Repeats(bytes, passage) ==
  \A k \in DOMAIN bytes : bytes[k] = passage[((k - 1) % Len(passage)) + 1]

ReplayIsSent(bytes) ==
  /\ Len(bytes) \in SIZES
  /\ \E passage \in Passages : Repeats(bytes, passage)
  /\ Breaks(bytes) # {} =>
       parse_window(bytes, MAX_SENTENCE) = [ok |-> TRUE, start |-> 0, end |-> Max(Breaks(bytes)) + 1]

(* What the bench is fed with is what a GPS sent: a capture is validated,  *)
(* a replay generated and a runbook begun only with whole sentences of it, *)
(* whatever happened to one byte on the line or to the file afterwards.    *)
BenchDataIsSent ==
  /\ ReportedIsSent
  /\ phase = "generated" /\ report # None => ReplayIsSent(report.sha256)
  /\ runbook # None => ReplayIsSent(runbook.checked)
=============================================================================
