-------------------------- MODULE SerialBench_proofs --------------------------
(***************************************************************************)
(* What capture.py and serial_bench.py promise for any reference, any      *)
(* number of transactions, any loss and noise on the line and any way the  *)
(* system hands the bytes out; at the end, that each command has only so   *)
(* many stages and that a deadline ends its own.                           *)
(***************************************************************************)
EXTENDS SerialBench, Integers, SequenceTheorems, TLAPS

(* The bytes that the queue of a port can hold, and its file. *)
Value == {Reference[i] : i \in DOMAIN Reference}
Byte(q) == (Value \X Nat) \cup {Noise(q), Stale}

BeforeFlush == {"idle", "arm", "bench_claim", "bench_open"}
Recording == {"claim", "loop", "store", "recorded"}
Benching == {"transact", "guard", "judge"}

TypeInv ==
  /\ inbox \in Seq(Value) /\ answered \in Nat
  /\ DOMAIN line = Port /\ \A q \in Port : line[q] \in Seq(Byte(q))
  /\ taken \in [Port -> Nat]
  /\ DOMAIN stored = Port
  /\ played \in 0 .. Len(Reference)
  /\ ports \in {{}, {"received"}, Port}
  /\ pc \in {"idle", "bench_claim", "bench_open", "transact", "guard", "judge"} => ports = {}
  /\ pc \in {"arm", "claim", "loop", "store", "recorded"} => ports # {}
  /\ pc \in BeforeFlush \cup {"claim"} =>
       inbox = <<>> /\ answered = 0 /\ played = 0 /\ taken = [q \in Port |-> 0]
  /\ pc = "idle" => \A q \in Port : stored[q] = None

(* What has been recorded is the beginning of what came after the flush. *)
RecordInv ==
  \A q \in ports :
    /\ taken[q] <= Len(line[q]) /\ taken[q] <= COUNT
    /\ stored[q] = SubSeq(line[q], 1, taken[q]) \/ (pc = "ended" /\ stored[q] = None)
    /\ pc \in Recording \/ taken[q] > 0 =>
         \A i \in 1 .. Len(line[q]) : line[q][i] # Stale

(* As long as no noise has come, the place of a byte is its number. *)
Clean(q, n) == \A i \in 1 .. n : line[q][i] # Noise(q)

OrderInv ==
  /\ pc \in Recording \cup Benching =>
       /\ \A i \in 1 .. Len(line["received"]) :
            Clean("received", i) => line["received"][i][2] = i
       /\ Clean("received", Len(line["received"])) => answered = Len(line["received"])
  /\ pc \in Recording /\ ports = Port =>
       /\ \A i \in 1 .. Len(line["reference"]) :
            Clean("reference", i) => i \in DOMAIN Reference /\ line["reference"][i] = <<Reference[i], 0>>
       /\ Clean("reference", Len(line["reference"])) => played = Len(line["reference"])

(* Of the bench: every byte taken from the port is in the file, or is held *)
(* for it.                                                                 *)
BenchInv ==
  /\ pc \in {"bench_claim", "bench_open"} => stored["received"] = <<>>
  /\ pc \in {"idle", "bench_claim", "bench_open"} =>
       sent = 0 /\ response = <<>> /\ extra = <<>> /\ received = <<>>
  /\ pc \in {"transact", "guard"} =>
       /\ sent \in 0 .. SIZE /\ response \in Seq(Byte("received")) /\ extra \in Seq(Byte("received"))
       /\ Len(response) <= SIZE
       /\ File \in Seq(Byte("received")) /\ received = File
       /\ taken["received"] <= Len(line["received"])
       /\ (File \o response) \o extra = SubSeq(line["received"], 1, taken["received"])
       /\ pc = "transact" => extra = <<>>
  /\ pc = "judge" =>
       /\ StartsWith(File, received)
       /\ invalid \/ (received = File /\ taken["received"] <= Len(line["received"])
                      /\ File = SubSeq(line["received"], 1, taken["received"]))

ClaimedInv ==
  /\ pc \in {"loop", "store", "recorded"} /\ ports = Port => claimed = (mode = "aes-128-ctr")
  /\ pc \in {"bench_open"} \cup Benching => claimed = (mode = "aes-128-ctr")

VerdictInv ==
  /\ status \in {"PASS", "FAIL"} => pc = "ended"
  /\ PassMeansEveryByteAnswered
  /\ ReportSpeaksOfTheFile

SerialInv == TypeInv /\ RecordInv /\ OrderInv /\ BenchInv /\ ClaimedInv /\ VerdictInv

-----------------------------------------------------------------------------
(* Beginnings of sequences. *)
LEMMA Beginning ==
  ASSUME NEW S, NEW s \in Seq(S), NEW n \in 0 .. Len(s)
  PROVE  /\ SubSeq(s, 1, n) \in Seq(S)
         /\ Len(SubSeq(s, 1, n)) = n
         /\ \A i \in 1 .. n : SubSeq(s, 1, n)[i] = s[i]
OBVIOUS

LEMMA EmptyBeginning ==
  ASSUME NEW S, NEW s \in Seq(S)
  PROVE  SubSeq(s, 1, 0) = <<>> /\ SubSeq(<<>>, 1, 0) = <<>> /\ Len(<<>>) = 0 /\ <<>> \in Seq(S)
<1>1. SubSeq(s, 1, 0) = <<>>
  OBVIOUS
<1>2. <<>> \in Seq(S)
  OBVIOUS
<1>3. \A t \in Seq(S) : SubSeq(t, 1, 0) = <<>>
  OBVIOUS
<1> QED  BY <1>1, <1>2, <1>3

LEMMA Grown ==
  ASSUME NEW S, NEW s \in Seq(S), NEW b \in S
  PROVE  /\ Append(s, b) \in Seq(S) /\ Len(s) \in Nat /\ Len(Append(s, b)) = Len(s) + 1
         /\ \A i \in 1 .. Len(s) : Append(s, b)[i] = s[i]
         /\ Append(s, b)[Len(s) + 1] = b
         /\ \A n \in 0 .. Len(s) : SubSeq(Append(s, b), 1, n) = SubSeq(s, 1, n)
OBVIOUS

LEMMA BeginningGrows ==
  ASSUME NEW S, NEW s \in Seq(S), NEW n \in 0 .. Len(s), NEW m \in n .. Len(s)
  PROVE  SubSeq(s, 1, n) \o SubSeq(s, n + 1, m) = SubSeq(s, 1, m)
<1>1. /\ SubSeq(s, 1, n) \in Seq(S) /\ Len(SubSeq(s, 1, n)) = n
      /\ SubSeq(s, n + 1, m) \in Seq(S) /\ Len(SubSeq(s, n + 1, m)) = m - n
      /\ SubSeq(s, 1, m) \in Seq(S) /\ Len(SubSeq(s, 1, m)) = m
  OBVIOUS
<1>2. \A i \in 1 .. m : (SubSeq(s, 1, n) \o SubSeq(s, n + 1, m))[i] = SubSeq(s, 1, m)[i]
  BY <1>1
<1> DEFINE p == SubSeq(s, 1, n)
           q == SubSeq(s, n + 1, m)
           r == SubSeq(s, 1, m)
<1>3. /\ p \in Seq(S) /\ q \in Seq(S) /\ r \in Seq(S)
      /\ Len(p) + Len(q) = Len(r) /\ Len(r) = m
      /\ \A i \in 1 .. m : (p \o q)[i] = r[i]
  BY <1>1, <1>2
<1> HIDE DEF p, q, r
<1>4. p \o q \in Seq(S) /\ Len(p \o q) = Len(r)
  BY <1>3
<1>5. p \o q = r
  BY <1>3, <1>4, SeqEqual
<1> QED  BY <1>5 DEF p, q, r

LEMMA Bytes ==
  /\ Reference \in Seq(Value) /\ SIZE \in Nat /\ None \notin Value
  /\ \A q \in Port : Noise(q) \in Byte(q) /\ Noise(q) # Stale
  /\ \A v \in Value, k \in Nat, q \in Port :
       <<v, k>> \in Byte(q) /\ <<v, k>> # Stale /\ <<v, k>> # Noise(q)
BY ReferenceAssumption DEF Byte, Noise, Stale, Value, SIZE

LEMMA InitSerial == Init => SerialInv
<1> SUFFICES ASSUME Init PROVE SerialInv
  OBVIOUS
<1> USE DEF Init, CaptureInit, LineInit
<1>1. TypeInv
  <2>1. DOMAIN line = Port /\ \A q \in Port : line[q] \in Seq(Byte(q))
    <3>1. \A q \in Port : <<>> \in Seq(Byte(q)) /\ <<Stale>> \in Seq(Byte(q))
      BY DEF Byte
    <3> QED  BY <3>1
  <2>2. inbox \in Seq(Value) /\ answered \in Nat /\ played \in 0 .. Len(Reference)
    BY Bytes DEF SIZE
  <2>3. DOMAIN stored = Port /\ taken \in [Port -> Nat] /\ \A q \in Port : stored[q] = None
    OBVIOUS
  <2> QED  BY <2>1, <2>2, <2>3 DEF TypeInv, BeforeFlush
<1>2. status \notin {"PASS", "FAIL"}
  BY CountAssumption
<1> QED
  BY <1>1, <1>2 DEF SerialInv, RecordInv, OrderInv, BenchInv, ClaimedInv, VerdictInv,
     Recording, Benching, PassMeansEveryByteAnswered, ReportSpeaksOfTheFile
-----------------------------------------------------------------------------
(* The steps of capture.py. *)
LEMMA ReserveCaptureKeeps == SerialInv /\ ReserveCapture /\ UNCHANGED benchVars => SerialInv'
<1> SUFFICES ASSUME SerialInv, ReserveCapture, UNCHANGED benchVars PROVE SerialInv'
  OBVIOUS
<1> USE DEF ReserveCapture, Fail, SerialInv, lineVars, benchVars, Port
<1>1. TypeInv'
  BY DEF TypeInv, BeforeFlush
<1>2. RecordInv'
  <2>1. /\ pc = "idle" /\ DOMAIN stored = Port /\ ports' \subseteq Port
        /\ \A q \in Port : taken[q] = 0 /\ line[q] \in Seq(Byte(q)) /\ stored[q] = None
    BY DEF TypeInv, BeforeFlush
  <2>2. \A q \in ports' : taken'[q] = 0 /\ line'[q] \in Seq(Byte(q))
    BY <2>1
  <2>3. \A q \in ports' : stored'[q] = <<>> \/ (stored'[q] = None /\ pc' = "ended")
    BY <2>1
  <2>4. \A q \in ports' : SubSeq(line'[q], 1, 0) = <<>> /\ Len(line'[q]) \in Nat
    BY <2>2, EmptyBeginning
  <2>5. pc' \notin Recording
    BY <2>1 DEF Recording
  <2> HIDE DEF ReserveCapture, SerialInv, Port
  <2>6. \A q \in ports' : taken'[q] <= Len(line'[q]) /\ taken'[q] <= COUNT /\ ~(taken'[q] > 0)
    BY <2>2, <2>4, CountAssumption
  <2>7. \A q \in ports' :
          stored'[q] = SubSeq(line'[q], 1, taken'[q]) \/ (pc' = "ended" /\ stored'[q] = None)
    BY <2>2, <2>3, <2>4
  <2> QED  BY <2>5, <2>6, <2>7 DEF RecordInv
<1>3. OrderInv' /\ BenchInv' /\ ClaimedInv'
  BY DEF OrderInv, BenchInv, ClaimedInv, Recording, Benching
<1>4. VerdictInv'
  BY DEF VerdictInv, PassMeansEveryByteAnswered, ReportSpeaksOfTheFile
<1> QED  BY <1>1, <1>2, <1>3, <1>4

LEMMA ArmKeeps == SerialInv /\ Arm /\ UNCHANGED benchVars => SerialInv'
<1> SUFFICES ASSUME SerialInv, Arm, UNCHANGED benchVars PROVE SerialInv'
  OBVIOUS
<1> USE DEF Arm, Fail, SerialInv, lineVars, benchVars
<1>1. /\ pc = "arm" /\ ports \subseteq Port /\ ports' = ports /\ "received" \in ports
      /\ DOMAIN line = Port /\ inbox = <<>> /\ answered = 0 /\ played = 0
      /\ \A q \in Port : taken[q] = 0 /\ line[q] \in Seq(Byte(q))
  BY DEF TypeInv, BeforeFlush, Port
<1>2. /\ DOMAIN line' = Port
      /\ \A q \in Port : line'[q] \in {<<>>, line[q]}
      /\ pc' = "claim" => \A q \in ports : line'[q] = <<>>
  BY <1>1
<1>3. \A q \in Port : line'[q] \in Seq(Byte(q)) /\ SubSeq(line'[q], 1, 0) = <<>> /\ Len(line'[q]) \in Nat
  <2> HIDE DEF Arm, SerialInv
  <2> TAKE q \in Port
  <2>1. line'[q] \in {<<>>, line[q]} /\ line[q] \in Seq(Byte(q)) /\ <<>> \in Seq(Byte(q))
    BY <1>1, <1>2, EmptyBeginning
  <2>2. line'[q] \in Seq(Byte(q))
    BY <2>1
  <2> QED  BY <2>2, EmptyBeginning
<1>4. TypeInv'
  BY <1>1, <1>2, <1>3 DEF TypeInv, BeforeFlush
<1>5. RecordInv'
  <2>1. \A q \in ports : SubSeq(line[q], 1, 0) = <<>> /\ stored[q] = <<>> /\ stored'[q] = stored[q]
                         /\ taken'[q] = 0
    BY <1>1, EmptyBeginning DEF RecordInv
  <2>2. pc' \in Recording => \A q \in ports : Len(line'[q]) = 0
    BY <1>1, <1>2, EmptyBeginning DEF Recording
  <2> QED  BY <1>1, <1>3, <2>1, <2>2, CountAssumption DEF RecordInv
<1>6. OrderInv'
  <2>1. pc' = "claim" => Len(line'["received"]) = 0 /\ (ports = Port => Len(line'["reference"]) = 0)
    BY <1>1, <1>2, EmptyBeginning DEF Port
  <2> QED  BY <1>1, <2>1 DEF OrderInv, Recording, Benching
<1>7. BenchInv' /\ ClaimedInv'
  BY DEF BenchInv, ClaimedInv, Recording, Benching
<1>8. VerdictInv'
  BY DEF VerdictInv, PassMeansEveryByteAnswered, ReportSpeaksOfTheFile
<1> QED  BY <1>4, <1>5, <1>6, <1>7, <1>8

(* Steps that touch neither the line nor a file. *)
LEMMA ReadyKeeps == SerialInv /\ Ready /\ UNCHANGED benchVars => SerialInv'
<1> SUFFICES ASSUME SerialInv, Ready, UNCHANGED benchVars PROVE SerialInv'
  OBVIOUS
<1> USE DEF Ready, Fail, SerialInv, lineVars, benchVars
<1>1. TypeInv'
  BY DEF TypeInv, BeforeFlush
<1>2. RecordInv' /\ OrderInv'
  BY DEF RecordInv, OrderInv, Clean, Recording, Benching
<1>3. BenchInv' /\ ClaimedInv'
  BY DEF BenchInv, ClaimedInv, Recording, Benching
<1>4. VerdictInv'
  BY DEF VerdictInv, PassMeansEveryByteAnswered, ReportSpeaksOfTheFile
<1> QED  BY <1>1, <1>2, <1>3, <1>4

LEMMA LeavingKeeps ==
  ASSUME SerialInv, UNCHANGED <<lineVars, mode, ports, claimed, taken, stored, played, benchVars>>,
         \/ pc \notin {"idle", "recorded", "ended"} /\ pc' = "ended" /\ status' \in {status, "ERROR"}
         \/ pc = "loop" /\ pc' \in {"loop", "store"} /\ status' = status
         \/ pc = "store" /\ pc' = "recorded" /\ status' \in {"CAPTURED", "INCOMPLETE"}
         \/ pc \in {"transact", "guard"} /\ pc' \in {pc, "guard"} /\ status' = status
  PROVE  SerialInv'
<1> USE DEF SerialInv, lineVars, benchVars
<1>1. TypeInv'
  BY DEF TypeInv, BeforeFlush
<1>2. RecordInv' /\ OrderInv'
  BY DEF RecordInv, OrderInv, Clean, Recording, Benching
<1>3. BenchInv' /\ ClaimedInv'
  BY DEF BenchInv, ClaimedInv, Recording, Benching, File
<1>4. VerdictInv'
  BY CountAssumption DEF VerdictInv, PassMeansEveryByteAnswered, ReportSpeaksOfTheFile
<1> QED  BY <1>1, <1>2, <1>3, <1>4
(* A byte that arrives at a port disturbs nothing that has been read. *)
GrowsAt(q) ==
  \/ line'[q] = line[q]
  \/ \E b \in Byte(q) \ {Stale} : line'[q] = Append(line[q], b)

LEMMA GrowthKeepsFiles ==
  ASSUME SerialInv, UNCHANGED <<pc, ports, taken, stored, benchVars>>,
         DOMAIN line' = Port, \A q \in Port : GrowsAt(q)
  PROVE  /\ \A q \in Port : line'[q] \in Seq(Byte(q))
         /\ RecordInv' /\ BenchInv'
<1>1. \A q \in Port :
         /\ line[q] \in Seq(Byte(q)) /\ taken[q] \in Nat /\ line'[q] \in Seq(Byte(q))
         /\ Len(line[q]) \in Nat /\ Len(line'[q]) \in Nat /\ Len(line'[q]) >= Len(line[q])
         /\ \A n \in 0 .. Len(line[q]) : SubSeq(line'[q], 1, n) = SubSeq(line[q], 1, n)
         /\ (\A i \in 1 .. Len(line[q]) : line[q][i] # Stale)
             => \A i \in 1 .. Len(line'[q]) : line'[q][i] # Stale
  <2> TAKE q \in Port
  <2>1. line[q] \in Seq(Byte(q)) /\ taken[q] \in Nat /\ GrowsAt(q) /\ Len(line[q]) \in Nat
    BY DEF SerialInv, TypeInv
  <2>2. CASE line'[q] = line[q]
    BY <2>1, <2>2
  <2>3. CASE \E b \in Byte(q) \ {Stale} : line'[q] = Append(line[q], b)
    <3>1. PICK b \in Byte(q) \ {Stale} : line'[q] = Append(line[q], b)
      BY <2>3
    <3> QED  BY <2>1, <3>1, Grown
  <2> QED  BY <2>1, <2>2, <2>3 DEF GrowsAt
<1>2. RecordInv'
  <2> SUFFICES ASSUME NEW q \in ports
               PROVE  /\ taken[q] <= Len(line'[q]) /\ taken[q] <= COUNT
                      /\ stored[q] = SubSeq(line'[q], 1, taken[q]) \/ (pc = "ended" /\ stored[q] = None)
                      /\ pc \in Recording \/ taken[q] > 0 =>
                           \A i \in 1 .. Len(line'[q]) : line'[q][i] # Stale
    BY DEF RecordInv
  <2>1. q \in Port
    BY DEF SerialInv, TypeInv, Port
  <2> QED  BY <1>1, <2>1 DEF SerialInv, RecordInv
<1>3. BenchInv'
  <2>1. "received" \in Port
    BY DEF Port
  <2>2. taken["received"] <= Len(line["received"]) =>
          /\ taken["received"] <= Len(line'["received"])
          /\ SubSeq(line'["received"], 1, taken["received"]) = SubSeq(line["received"], 1, taken["received"])
    BY <1>1, <2>1
  <2> QED  BY <2>2 DEF SerialInv, BenchInv, benchVars, File, StartsWith
<1> QED  BY <1>1, <1>2, <1>3
LEMMA VerdictUntouched ==
  ASSUME SerialInv, UNCHANGED <<pc, mode, ports, claimed, taken, stored, status, benchVars>>
  PROVE  ClaimedInv' /\ VerdictInv'
BY DEF SerialInv, benchVars, ClaimedInv, VerdictInv, PassMeansEveryByteAnswered,
       ReportSpeaksOfTheFile, File, StartsWith

LEMMA AnswerKeeps == SerialInv /\ Answer /\ UNCHANGED <<captureVars, benchVars>> => SerialInv'
<1> SUFFICES ASSUME SerialInv, Answer, UNCHANGED <<captureVars, benchVars>> PROVE SerialInv'
  OBVIOUS
<1> USE DEF captureVars
<1> DEFINE l == line["received"]
           b == <<Head(inbox), answered + 1>>
<1>1. /\ l \in Seq(Byte("received")) /\ DOMAIN line = Port /\ answered \in Nat
      /\ inbox \in Seq(Value) /\ inbox # <<>>
  BY DEF Answer, SerialInv, TypeInv, Port
<1>2. Head(inbox) \in Value /\ Tail(inbox) \in Seq(Value) /\ answered + 1 \in Nat
  BY <1>1
<1>3. b \in Byte("received") /\ b # Stale /\ b # Noise("received") /\ b[2] = answered + 1
  BY <1>2, Bytes DEF Port
<1>4. /\ DOMAIN line' = Port /\ line'["received"] = Append(l, b) /\ line'["reference"] = line["reference"]
      /\ inbox' = Tail(inbox) /\ answered' = answered + 1
  BY <1>1 DEF Answer, Port
<1>5. /\ Append(l, b) \in Seq(Byte("received")) /\ Len(l) \in Nat /\ Len(Append(l, b)) = Len(l) + 1
      /\ \A i \in 1 .. Len(l) : Append(l, b)[i] = l[i]
      /\ Append(l, b)[Len(l) + 1] = b
  BY <1>1, <1>3, Grown
<1>6. \A q \in Port : GrowsAt(q)
  BY <1>3, <1>4 DEF GrowsAt, Port
<1>7. (\A q \in Port : line'[q] \in Seq(Byte(q))) /\ RecordInv' /\ BenchInv'
  BY <1>4, <1>6, GrowthKeepsFiles
<1>8. TypeInv'
  <2>1. pc \notin BeforeFlush \cup {"claim"}
    BY <1>1 DEF SerialInv, TypeInv
  <2> QED  BY <1>2, <1>4, <1>7, <2>1 DEF SerialInv, TypeInv, BeforeFlush
<1>9. OrderInv'
  <2>1. /\ \A i \in 1 .. Len(l) : (\A j \in 1 .. i : l[j] # Noise("received")) => l[i][2] = i
        /\ (\A j \in 1 .. Len(l) : l[j] # Noise("received")) => answered = Len(l)
        =>
        /\ \A i \in 1 .. Len(l) + 1 :
             (\A j \in 1 .. i : Append(l, b)[j] # Noise("received")) => Append(l, b)[i][2] = i
        /\ (\A j \in 1 .. Len(l) + 1 : Append(l, b)[j] # Noise("received")) => answered + 1 = Len(l) + 1
    <3> HIDE DEF l, b
    <3> QED  BY <1>3, <1>5, SMTT(30)
  <2> QED  BY <1>4, <1>5, <2>1, SMTT(30) DEF SerialInv, OrderInv, Clean
<1> QED  BY <1>7, <1>8, <1>9, VerdictUntouched DEF SerialInv

LEMMA DisturbKeeps == SerialInv /\ Disturb /\ UNCHANGED <<captureVars, benchVars>> => SerialInv'
<1> SUFFICES ASSUME SerialInv, Disturb, UNCHANGED <<captureVars, benchVars>> PROVE SerialInv'
  OBVIOUS
<1> USE DEF captureVars
<1>1. ClaimedInv' /\ VerdictInv' /\ answered' = answered
  BY VerdictUntouched DEF Disturb
<1>2. CASE inbox # <<>> /\ inbox' = Tail(inbox) /\ UNCHANGED line
  <2>1. \A q \in Port : GrowsAt(q)
    BY <1>2 DEF GrowsAt
  <2>2. DOMAIN line' = Port /\ (\A q \in Port : line'[q] \in Seq(Byte(q))) /\ RecordInv' /\ BenchInv'
    BY <1>2, <2>1, GrowthKeepsFiles DEF SerialInv, TypeInv
  <2>3. TypeInv'
    <3>1. inbox \in Seq(Value) /\ Tail(inbox) \in Seq(Value)
      BY <1>2 DEF SerialInv, TypeInv
    <3> QED  BY <1>1, <1>2, <2>2, <3>1 DEF SerialInv, TypeInv, BeforeFlush
  <2>4. OrderInv'
    BY <1>1, <1>2 DEF SerialInv, OrderInv, Clean
  <2> QED  BY <1>1, <2>2, <2>3, <2>4 DEF SerialInv
<1>3. CASE \E p \in Port : line' = [line EXCEPT ![p] = Append(@, Noise(p))] /\ UNCHANGED inbox
  <2> PICK p \in Port : line' = [line EXCEPT ![p] = Append(@, Noise(p))] /\ UNCHANGED inbox
    BY <1>3
  <2> DEFINE l == line[p]
             b == Noise(p)
  <2>1. l \in Seq(Byte(p)) /\ DOMAIN line = Port
    BY DEF SerialInv, TypeInv
  <2>2. b \in Byte(p) /\ b # Stale
    BY Bytes
  <2>3. /\ DOMAIN line' = Port /\ line'[p] = Append(l, b)
        /\ \A q \in Port \ {p} : line'[q] = line[q]
    BY <2>1
  <2>4. \A q \in Port : GrowsAt(q)
    BY <2>2, <2>3 DEF GrowsAt
  <2>5. (\A q \in Port : line'[q] \in Seq(Byte(q))) /\ RecordInv' /\ BenchInv'
    BY <2>3, <2>4, GrowthKeepsFiles
  <2>6. TypeInv'
    BY <1>1, <2>3, <2>5 DEF SerialInv, TypeInv, BeforeFlush
  <2>7. /\ Len(l) \in Nat /\ Len(Append(l, b)) = Len(l) + 1
        /\ \A i \in 1 .. Len(l) : Append(l, b)[i] = l[i]
        /\ Append(l, b)[Len(l) + 1] = b
    BY <2>1, <2>2, Grown
  <2>8. \A q \in Port : \A i \in 1 .. Len(line'[q]) :
          \/ i \in 1 .. Len(line[q]) /\ line'[q][i] = line[q][i]
             /\ \A j \in 1 .. i : line'[q][j] = line[q][j]
          \/ line'[q][i] = Noise(q)
    <3> HIDE DEF l, b
    <3>1. \A i \in 1 .. Len(l) + 1 :
            \/ i \in 1 .. Len(l) /\ Append(l, b)[i] = l[i] /\ \A j \in 1 .. i : Append(l, b)[j] = l[j]
            \/ Append(l, b)[i] = b
      BY <2>7
    <3>2. \A q \in Port \ {p} : \A i \in 1 .. Len(line'[q]) :
            i \in 1 .. Len(line[q]) /\ \A j \in 1 .. i : line'[q][j] = line[q][j]
      BY <2>3
    <3> QED  BY <2>3, <2>7, <3>1, <3>2 DEF l, b
  <2>9. \A q \in Port : \/ line'[q] = line[q]
                        \/ ~(\A i \in 1 .. Len(line'[q]) : line'[q][i] # Noise(q))
    <3>1. Len(l) + 1 \in 1 .. Len(line'[p]) /\ line'[p][Len(l) + 1] = Noise(p)
      BY <2>3, <2>7
    <3> QED  BY <2>3, <3>1
  <2> HIDE DEF l, b
  <2>10. OrderInv'
    <3>1. \A q \in Port : \A i \in 1 .. Len(line'[q]) :
            (\A j \in 1 .. i : line'[q][j] # Noise(q)) =>
              i \in 1 .. Len(line[q]) /\ line'[q][i] = line[q][i] /\ Clean(q, i)
      <4> SUFFICES ASSUME NEW q \in Port, NEW i \in 1 .. Len(line'[q]),
                          \A j \in 1 .. i : line'[q][j] # Noise(q)
                   PROVE  i \in 1 .. Len(line[q]) /\ line'[q][i] = line[q][i] /\ Clean(q, i)
        OBVIOUS
      <4>1. i \in 1 .. i
        OBVIOUS
      <4>2. line'[q][i] # Noise(q)
        BY <4>1
      <4>3. /\ i \in 1 .. Len(line[q]) /\ line'[q][i] = line[q][i]
            /\ \A j \in 1 .. i : line'[q][j] = line[q][j]
        BY <2>8, <4>2, Zenon
      <4> QED  BY <4>3 DEF Clean
    <3>2. \A q \in Port :
            (\A j \in 1 .. Len(line'[q]) : line'[q][j] # Noise(q)) =>
              line'[q] = line[q] /\ Clean(q, Len(line[q]))
      BY <2>9 DEF Clean
    <3>3. "received" \in Port /\ "reference" \in Port
      BY DEF Port
    <3>4. UNCHANGED <<pc, ports, answered, played>>
      BY <1>1 DEF Disturb
    <3>5. (pc \in Recording \cup Benching =>
             /\ \A i \in 1 .. Len(line["received"]) :
                  Clean("received", i) => line["received"][i][2] = i
             /\ Clean("received", Len(line["received"])) => answered = Len(line["received"]))'
      BY <3>1, <3>2, <3>3, <3>4, SMTT(30) DEF SerialInv, OrderInv, Clean
    <3>6. (pc \in Recording /\ ports = Port =>
             /\ \A i \in 1 .. Len(line["reference"]) :
                  Clean("reference", i) =>
                    i \in DOMAIN Reference /\ line["reference"][i] = <<Reference[i], 0>>
             /\ Clean("reference", Len(line["reference"])) => played = Len(line["reference"]))'
      BY <3>1, <3>2, <3>3, <3>4, SMTT(30) DEF SerialInv, OrderInv, Clean
    <3> QED  BY <3>5, <3>6 DEF OrderInv
  <2> QED  BY <1>1, <2>5, <2>6, <2>10 DEF SerialInv
<1> QED  BY <1>2, <1>3 DEF Disturb

LEMMA PlayKeeps == SerialInv /\ Play /\ UNCHANGED benchVars => SerialInv'
<1> SUFFICES ASSUME SerialInv, Play, UNCHANGED benchVars PROVE SerialInv'
  OBVIOUS
<1> DEFINE l == line["reference"]
           v == Reference[played + 1]
           b == <<v, 0>>
<1>1. /\ l \in Seq(Byte("reference")) /\ DOMAIN line = Port /\ inbox \in Seq(Value)
      /\ played \in 0 .. Len(Reference) /\ played < Len(Reference)
      /\ pc \in {"loop", "store"} /\ ports # {}
  BY DEF Play, SerialInv, TypeInv, Port
<1>2. v \in Value /\ played + 1 \in DOMAIN Reference /\ Len(Reference) \in Nat
  BY <1>1, Bytes DEF Value
<1>3. b \in Byte("reference") /\ b # Stale
  BY <1>2, Bytes DEF Port
<1>4. /\ DOMAIN line' = Port /\ line'["reference"] = Append(l, b) /\ line'["received"] = line["received"]
      /\ inbox' = Append(inbox, v) /\ played' = played + 1
      /\ UNCHANGED <<answered, pc, mode, ports, claimed, taken, stored, status>>
  BY <1>1 DEF Play, Port
<1>5. /\ Len(l) \in Nat /\ Len(Append(l, b)) = Len(l) + 1
      /\ \A i \in 1 .. Len(l) : Append(l, b)[i] = l[i]
      /\ Append(l, b)[Len(l) + 1] = b
  BY <1>1, <1>3, Grown
<1>6. \A q \in Port : GrowsAt(q)
  BY <1>3, <1>4 DEF GrowsAt, Port
<1>7. (\A q \in Port : line'[q] \in Seq(Byte(q))) /\ RecordInv' /\ BenchInv'
  BY <1>4, <1>6, GrowthKeepsFiles
<1>8. TypeInv'
  <2>1. inbox' \in Seq(Value) /\ played' \in 0 .. Len(Reference)
    BY <1>1, <1>2, <1>4
  <2> HIDE DEF l, v, b
  <2> QED  BY <1>1, <1>4, <1>7, <2>1 DEF SerialInv, TypeInv, BeforeFlush
<1>9. OrderInv'
  <2> SUFFICES ASSUME pc \in Recording /\ ports = Port
               PROVE  /\ \A i \in 1 .. Len(l) + 1 : (\A j \in 1 .. i : Append(l, b)[j] # Noise("reference"))
                            => i \in DOMAIN Reference /\ Append(l, b)[i] = <<Reference[i], 0>>
                      /\ (\A j \in 1 .. Len(l) + 1 : Append(l, b)[j] # Noise("reference"))
                            => played + 1 = Len(l) + 1
    BY <1>4, <1>5, SMTT(30) DEF SerialInv, OrderInv, Clean
  <2>1. /\ \A i \in 1 .. Len(l) : (\A j \in 1 .. i : l[j] # Noise("reference"))
              => i \in DOMAIN Reference /\ l[i] = <<Reference[i], 0>>
        /\ (\A j \in 1 .. Len(l) : l[j] # Noise("reference")) => played = Len(l)
    BY DEF SerialInv, OrderInv, Clean
  <2> HIDE DEF l, b
  <2>2. (\A j \in 1 .. Len(l) + 1 : Append(l, b)[j] # Noise("reference")) => played = Len(l)
    <3>1. \A j \in 1 .. Len(l) : j \in 1 .. Len(l) + 1
      BY <1>5
    <3> QED  BY <1>5, <2>1, <3>1
  <2>3. ASSUME NEW i \in 1 .. Len(l), \A j \in 1 .. i : Append(l, b)[j] # Noise("reference")
        PROVE  i \in DOMAIN Reference /\ Append(l, b)[i] = <<Reference[i], 0>>
    <3>1. \A j \in 1 .. i : j \in 1 .. Len(l)
      BY <1>5
    <3> QED  BY <1>5, <2>1, <2>3, <3>1
  <2>4. (\A j \in 1 .. Len(l) + 1 : Append(l, b)[j] # Noise("reference"))
          => Len(l) + 1 \in DOMAIN Reference /\ Append(l, b)[Len(l) + 1] = <<Reference[Len(l) + 1], 0>>
    BY <1>2, <1>5, <2>2 DEF b
  <2>5. \A i \in 1 .. Len(l) + 1 : i \in 1 .. Len(l) \/ i = Len(l) + 1
    BY <1>5
  <2> QED  BY <2>2, <2>3, <2>4, <2>5
<1> QED  BY <1>4, <1>7, <1>8, <1>9, VerdictUntouched DEF SerialInv

LEMMA ReadPortsKeeps == SerialInv /\ ReadPorts /\ UNCHANGED benchVars => SerialInv'
<1> SUFFICES ASSUME SerialInv, ReadPorts, UNCHANGED benchVars PROVE SerialInv'
  OBVIOUS
<1>1. PICK read \in {Pending, Pending \ {"received"}, {}} :
         /\ taken' = [q \in Port |-> IF q \in read THEN taken[q] + Readable(q) ELSE taken[q]]
         /\ stored' = [q \in Port |->
                         IF q \in read THEN stored[q] \o Chunk(q, Readable(q)) ELSE stored[q]]
  BY DEF ReadPorts
<1>2. /\ pc = "loop" /\ ports \subseteq Port /\ ports # {} /\ read \subseteq Pending
      /\ UNCHANGED <<lineVars, mode, ports, claimed, played>>
      /\ \/ pc' \in {"loop", "store"} /\ status' = status
         \/ pc' = "ended" /\ status' = "ERROR"
  BY DEF ReadPorts, Fail, SerialInv, TypeInv, Port
<1>3. \A q \in ports :
        /\ taken'[q] \in Nat /\ taken'[q] <= Len(line[q]) /\ taken'[q] <= COUNT
        /\ stored'[q] = SubSeq(line[q], 1, taken'[q])
        /\ \A i \in 1 .. Len(line[q]) : line[q][i] # Stale
  <2> TAKE q \in ports
  <2> DEFINE n == Readable(q)
             l == line[q]
             t == taken[q]
  <2>1. /\ q \in Port /\ l \in Seq(Byte(q)) /\ t \in Nat /\ t <= Len(l) /\ t <= COUNT /\ Len(l) \in Nat
        /\ stored[q] = SubSeq(l, 1, t)
        /\ \A i \in 1 .. Len(l) : l[i] # Stale
    BY <1>2 DEF SerialInv, TypeInv, RecordInv, Recording
  <2>2. CASE q \in read
    <3>1. q \in Pending /\ n = Least(Len(l) - t, COUNT - t)
      BY <1>2, <2>2 DEF Readable, Available
    <3>2. n \in Nat /\ t + n <= Len(l) /\ t + n <= COUNT /\ t \in 0 .. Len(l) /\ t + n \in t .. Len(l)
      <4> HIDE DEF l, t, n
      <4> QED  BY <2>1, <3>1, CountAssumption DEF Least
    <3>3. taken'[q] = t + n /\ stored'[q] = SubSeq(l, 1, t) \o SubSeq(l, t + 1, t + n)
      BY <1>1, <2>1, <2>2 DEF Chunk
    <3>4. SubSeq(l, 1, t) \o SubSeq(l, t + 1, t + n) = SubSeq(l, 1, t + n)
      <4> HIDE DEF l, t, n
      <4> QED  BY <2>1, <3>2, BeginningGrows
    <3>5. taken'[q] \in Nat /\ taken'[q] <= Len(l) /\ taken'[q] <= COUNT
      <4> HIDE DEF n, l, t
      <4> QED  BY <2>1, <3>2, <3>3
    <3>6. stored'[q] = SubSeq(l, 1, taken'[q])
      BY <3>3, <3>4
    <3> QED  BY <2>1, <3>5, <3>6
  <2>3. CASE q \notin read
    <3>1. taken'[q] = t /\ stored'[q] = stored[q]
      BY <1>1, <2>1, <2>3
    <3> QED  BY <2>1, <3>1
  <2> QED  BY <2>2, <2>3
<1>4. taken' \in [Port -> Nat] /\ DOMAIN stored' = Port
  <2>1. \A q \in Port : taken'[q] \in Nat
    <3>1. \A q \in Port \ ports : taken'[q] = taken[q]
      BY <1>1, <1>2 DEF Pending
    <3> QED  BY <1>3, <3>1 DEF SerialInv, TypeInv
  <2> QED  BY <1>1, <2>1
<1>5. TypeInv'
  BY <1>2, <1>4 DEF SerialInv, TypeInv, BeforeFlush, lineVars
<1>6. RecordInv'
  BY <1>2, <1>3 DEF RecordInv, lineVars
<1>7. OrderInv'
  BY <1>2 DEF SerialInv, OrderInv, Recording, Benching, Clean, lineVars
<1>8. BenchInv' /\ ClaimedInv'
  BY <1>2 DEF SerialInv, BenchInv, ClaimedInv, Recording, Benching, benchVars
<1>9. VerdictInv'
  BY <1>2 DEF SerialInv, VerdictInv, PassMeansEveryByteAnswered, ReportSpeaksOfTheFile
<1> QED  BY <1>5, <1>6, <1>7, <1>8, <1>9 DEF SerialInv

(* What a byte can be told from. *)
LEMMA ByteParts ==
  ASSUME NEW q \in Port, NEW b \in Byte(q)
  PROVE  /\ b = Noise(q) <=> b[1] = q
         /\ b = Stale <=> b[1] = None
         /\ b # Noise(q) /\ b # Stale => b[1] \in Value /\ b[2] \in Nat /\ b = <<b[1], b[2]>>
         /\ q \notin Value /\ q # None /\ None \notin Value
BY ReferenceAssumption DEF Byte, Noise, Stale, Value

(* Bytes with the right values are answers, and so each in its place. *)
LEMMA AnswersInPlace ==
  ASSUME NEW l \in Seq(Byte("received")), NEW n \in 0 .. Len(l), NEW v,
         \A i \in 1 .. Len(l) : (\A j \in 1 .. i : l[j] # Noise("received")) => l[i][2] = i,
         \A i \in 1 .. n : v[i] \in Value /\ l[i][1] = v[i]
  PROVE  SubSeq(l, 1, n) = [i \in DOMAIN SubSeq(l, 1, n) |-> <<v[i], i>>]
<1>1. \A i \in 1 .. n : /\ l[i] \in Byte("received") /\ l[i] # Noise("received")
                        /\ l[i] = <<l[i][1], l[i][2]>>
  BY ByteParts DEF Port
<1>2. \A i \in 1 .. n : l[i][2] = i
  <2> TAKE i \in 1 .. n
  <2>1. i \in 1 .. Len(l) /\ \A j \in 1 .. i : j \in 1 .. n
    OBVIOUS
  <2>2. \A j \in 1 .. i : l[j] # Noise("received")
    BY <1>1, <2>1, Zenon
  <2> QED  BY <2>1, <2>2, Zenon
<1>3. \A i \in 1 .. n : l[i] = <<v[i], i>>
  BY <1>1, <1>2
<1> DEFINE f == SubSeq(l, 1, n)
<1>4. f \in Seq(Byte("received")) /\ Len(f) = n /\ \A i \in 1 .. n : f[i] = l[i]
  BY Beginning
<1>5. DOMAIN f = 1 .. n /\ f = [i \in DOMAIN f |-> f[i]]
  BY <1>4
<1> HIDE DEF f
<1>6. [i \in DOMAIN f |-> f[i]] = [i \in DOMAIN f |-> <<v[i], i>>]
  BY <1>3, <1>4, <1>5
<1>7. f = [i \in DOMAIN f |-> <<v[i], i>>]
  BY <1>5, <1>6
<1> QED  BY <1>7 DEF f

LEMMA CompareKeeps == SerialInv /\ Compare /\ UNCHANGED benchVars => SerialInv'
<1> SUFFICES ASSUME SerialInv, Compare, UNCHANGED benchVars PROVE SerialInv'
  OBVIOUS
<1>1. /\ pc = "recorded" /\ ports = Port /\ pc' = "ended" /\ status' \in {"PASS", "FAIL"}
      /\ UNCHANGED <<lineVars, mode, ports, claimed, taken, stored, played>>
  BY DEF Compare, Verdict
<1>2. TypeInv' /\ RecordInv'
  BY <1>1 DEF SerialInv, TypeInv, RecordInv, BeforeFlush, Recording, lineVars
<1>3. OrderInv' /\ BenchInv' /\ ClaimedInv'
  BY <1>1 DEF OrderInv, BenchInv, ClaimedInv, Recording, Benching
<1>4. ReportSpeaksOfTheFile' /\ (status' \in {"PASS", "FAIL"} => pc' = "ended")
  BY <1>1 DEF ReportSpeaksOfTheFile, Port
<1>5. ASSUME status' = "PASS" PROVE PassMeansEveryByteAnswered'
  <2> DEFINE l == line["received"]
             m == line["reference"]
             v == [i \in DOMAIN stored["reference"] |-> stored["reference"][i][1]]
             n == taken["received"]
             k == taken["reference"]
  <2>1. /\ l \in Seq(Byte("received")) /\ n \in 0 .. Len(l)
        /\ m \in Seq(Byte("reference")) /\ k \in 0 .. Len(m)
        /\ File = SubSeq(l, 1, n) /\ stored["reference"] = SubSeq(m, 1, k)
        /\ \A i \in 1 .. Len(l) : l[i] # Stale
        /\ \A i \in 1 .. Len(m) : m[i] # Stale
    BY <1>1 DEF SerialInv, TypeInv, RecordInv, Recording, Port, File
  <2>2. /\ \A i \in 1 .. Len(l) : (\A j \in 1 .. i : l[j] # Noise("received")) => l[i][2] = i
        /\ \A i \in 1 .. Len(m) : (\A j \in 1 .. i : m[j] # Noise("reference")) =>
             i \in DOMAIN Reference /\ m[i] = <<Reference[i], 0>>
    BY <1>1 DEF SerialInv, OrderInv, Recording, Clean
  <2>3. \E invalid_ \in BOOLEAN : compare(v, File, COUNT, invalid_)
    BY <1>5, CountAssumption DEF Compare, Verdict, File
  <2>4. Len(v) = COUNT /\ Len(File) = COUNT /\ Recovered(File) = v
    BY <2>3 DEF compare
  <2>5. Len(File) = n /\ DOMAIN File = 1 .. n /\ \A i \in 1 .. n : File[i] = l[i]
    <3> HIDE DEF l, n
    <3> QED  BY <2>1, Beginning
  <2>6. DOMAIN v = 1 .. k /\ \A i \in 1 .. k : v[i] = m[i][1]
    <3>1. DOMAIN SubSeq(m, 1, k) = 1 .. k /\ \A i \in 1 .. k : SubSeq(m, 1, k)[i] = m[i]
      <4> HIDE DEF m, k
      <4> QED  BY <2>1, Beginning
    <3> QED  BY <2>1, <3>1
  <2>7. DOMAIN v = 1 .. n /\ \A i \in 1 .. n : v[i] \in {l[i][1], None}
    <3> HIDE DEF v, l, n
    <3>1. DOMAIN Recovered(File) = 1 .. n /\ \A i \in 1 .. n : Recovered(File)[i] \in {l[i][1], None}
      BY <2>5 DEF Recovered
    <3> QED  BY <2>4, <3>1
  <2> HIDE DEF v
  <2>8. k = n
    BY <2>1, <2>6, <2>7
  <2> HIDE DEF l, m, n, k
  <2>9. \A i \in 1 .. n : v[i] \in Value /\ l[i][1] = v[i] /\ m[i][1] = v[i] /\ m[i] # Noise("reference")
    <3> TAKE i \in 1 .. n
    <3>1. l[i] \in Byte("received") /\ m[i] \in Byte("reference") /\ l[i] # Stale /\ m[i] # Stale
      BY <2>1, <2>8
    <3>2. l[i][1] \in Value \cup {"received"} /\ m[i][1] \in Value \cup {"reference"} /\ m[i][1] # None
      BY <3>1, ByteParts DEF Port
    <3>3. v[i] = m[i][1] /\ v[i] \in {l[i][1], None}
      BY <2>6, <2>7, <2>8
    <3>4. m[i] = Noise("reference") => m[i][1] = "reference"
      BY DEF Noise
    <3> QED  BY <3>2, <3>3, <3>4, ReferenceAssumption, ByteParts, <3>1 DEF Port
  <2>10. \A i \in 1 .. n : v[i] = Reference[i]
    BY <2>1, <2>2, <2>8, <2>9
  <2>11. File = [i \in DOMAIN File |-> <<v[i], i>>]
    <3>1. \A i \in 1 .. n : v[i] \in Value /\ l[i][1] = v[i]
      BY <2>9
    <3>2. SubSeq(l, 1, n) = [i \in DOMAIN SubSeq(l, 1, n) |-> <<v[i], i>>]
      <4>1. l \in Seq(Byte("received")) /\ n \in 0 .. Len(l)
        BY <2>1
      <4>2. \A i \in 1 .. Len(l) : (\A j \in 1 .. i : l[j] # Noise("received")) => l[i][2] = i
        BY <2>2
      <4> QED  BY ONLY <3>1, <4>1, <4>2, AnswersInPlace
    <3> QED  BY <2>1, <3>2
  <2>12. [i \in DOMAIN File |-> <<v[i], i>>] = [i \in DOMAIN File |-> <<Reference[i], i>>]
    BY <2>5, <2>10
  <2>13. File = [i \in DOMAIN File |-> <<Reference[i], i>>]
    BY <2>11, <2>12
  <2>14. File' = File /\ ports' # {} /\ taken'["received"] = Len(File) /\ claimed' = (mode' = "aes-128-ctr")
    BY <1>1, <2>5 DEF SerialInv, ClaimedInv, Port, File, n
  <2>15. File' = [i \in DOMAIN File' |-> <<IF ports' = {} THEN BenchReference[i] ELSE Reference[i], i>>]
    BY <2>13, <2>14
  <2> QED  BY <2>14, <2>15 DEF PassMeansEveryByteAnswered
<1>6. VerdictInv'
  BY <1>4, <1>5 DEF VerdictInv, PassMeansEveryByteAnswered
<1> QED  BY <1>2, <1>3, <1>6 DEF SerialInv
-----------------------------------------------------------------------------
(* The steps of serial_bench.py. *)
LEMMA Joined ==
  ASSUME NEW S, NEW s \in Seq(S), NEW t \in Seq(S), NEW u \in Seq(S)
  PROVE  /\ s \o t \in Seq(S) /\ Len(s \o t) = Len(s) + Len(t)
         /\ s \o (t \o u) = (s \o t) \o u
         /\ s \o <<>> = s
<1>1. s \o t \in Seq(S) /\ Len(s \o t) = Len(s) + Len(t)
  OBVIOUS
<1>2. s \o (t \o u) = (s \o t) \o u
  BY ConcatAssociative, SMTT(30)
<1>3. s \o <<>> = s
  BY EmptySeq, ConcatProperties
<1> QED  BY <1>1, <1>2, <1>3

LEMMA OpeningKeeps ==
  SerialInv /\ (ReserveBench \/ ClaimBench \/ OpenBench) => SerialInv'
<1> SUFFICES ASSUME SerialInv, ReserveBench \/ ClaimBench \/ OpenBench PROVE SerialInv'
  OBVIOUS
<1> USE DEF ReserveBench, ClaimBench, OpenBench, Fail, lineVars, benchVars, unchangedByBench
<1>1. /\ pc \in {"idle", "bench_claim", "bench_open"} /\ ports = {} /\ ports' = {}
      /\ DOMAIN stored = Port /\ DOMAIN line = Port /\ \A q \in Port : line[q] \in Seq(Byte(q))
      /\ inbox = <<>> /\ answered = 0 /\ played = 0 /\ taken = [q \in Port |-> 0]
      /\ UNCHANGED <<inbox, answered, faults, benchVars, mode, ports, played, taken>>
      /\ sent = 0 /\ response = <<>> /\ extra = <<>> /\ received = <<>>
  BY DEF SerialInv, TypeInv, BeforeFlush, BenchInv
<1>2. /\ pc = "idle" => pc' \in {"bench_claim", "ended"} /\ UNCHANGED <<line, claimed>>
      /\ pc = "bench_claim" => pc' \in {"bench_open", "ended"} /\ UNCHANGED <<line, stored>>
      /\ pc = "bench_open" => pc' \in {"transact", "ended"} /\ UNCHANGED <<stored, claimed>>
      /\ status' \in {status, "empty", "ERROR"}
  BY DEF SerialInv
<1>3. DOMAIN line' = Port /\ \A q \in Port : line'[q] \in Seq(Byte(q))
  <2>1. \A q \in Port : <<>> \in Seq(Byte(q))
    OBVIOUS
  <2> QED  BY <1>1, <2>1 DEF Port
<1>4. pc' \in {"bench_claim", "bench_open", "transact"} => stored'["received"] = <<>>
  BY <1>1, <1>2 DEF SerialInv, BenchInv, Port
<1>5. pc' = "transact" => line'["received"] = <<>>
  BY <1>1, <1>2 DEF Port
<1>6. TypeInv'
  <2>1. DOMAIN stored' = Port
    BY <1>1
  <2>2. inbox' \in Seq(Value) /\ answered' \in Nat /\ played' \in 0 .. Len(Reference)
        /\ taken' \in [Port -> Nat]
    BY <1>1 DEF SerialInv, TypeInv
  <2>3. pc' \in {"bench_claim", "bench_open", "transact", "ended"}
    BY <1>1, <1>2
  <2> HIDE DEF ReserveBench, ClaimBench, OpenBench
  <2> QED  BY <1>1, <1>3, <2>1, <2>2, <2>3 DEF TypeInv, BeforeFlush
<1>7. RecordInv'
  BY <1>1 DEF RecordInv
<1> HIDE DEF ReserveBench, ClaimBench, OpenBench
<1>8. OrderInv'
  <2>1. pc' = "transact" => Len(line'["received"]) = 0
    BY <1>5
  <2> QED  BY <1>1, <1>2, <2>1 DEF OrderInv, Recording, Benching
<1>9. BenchInv'
  <2>1. pc' \in {"bench_claim", "bench_open", "transact", "ended"}
    BY <1>1, <1>2
  <2>2. pc' = "transact" =>
          /\ Len(line'["received"]) = 0 /\ taken'["received"] = 0 /\ File' = <<>>
          /\ File' \in Seq(Byte("received"))
          /\ (File' \o response') \o extra' = SubSeq(line'["received"], 1, taken'["received"])
    <3> SUFFICES ASSUME pc' = "transact"
                 PROVE  /\ Len(line'["received"]) = 0 /\ taken'["received"] = 0 /\ File' = <<>>
                        /\ File' \in Seq(Byte("received"))
                        /\ (File' \o response') \o extra' = SubSeq(line'["received"], 1, taken'["received"])
      OBVIOUS
    <3>1. line'["received"] = <<>> /\ taken'["received"] = 0 /\ File' = <<>> /\ response' = <<>> /\ extra' = <<>>
      BY <1>1, <1>4, <1>5 DEF Port, File
    <3>2. <<>> \in Seq(Byte("received")) /\ Len(<<>>) = 0 /\ SubSeq(<<>>, 1, 0) = <<>>
          /\ <<>> \o <<>> = <<>>
      BY EmptyBeginning, Joined
    <3> QED  BY <3>1, <3>2
  <2>3. 0 \in 0 .. SIZE /\ <<>> \in Seq(Byte("received")) /\ Len(<<>>) = 0 /\ SIZE \in Nat
    BY Bytes
  <2> QED  BY <1>1, <1>4, <2>1, <2>2, <2>3 DEF BenchInv
<1>10. ClaimedInv'
  <2>1. pc' = "bench_open" => claimed' = (mode = "aes-128-ctr")
    BY <1>1 DEF ClaimBench, ReserveBench, OpenBench
  <2> QED  BY <1>1, <1>2, <2>1 DEF SerialInv, ClaimedInv, Benching
<1>11. VerdictInv'
  <2>1. status' \notin {"PASS", "FAIL"}
    BY <1>1, <1>2 DEF SerialInv, VerdictInv
  <2> QED  BY <2>1 DEF VerdictInv, PassMeansEveryByteAnswered, ReportSpeaksOfTheFile
<1> QED  BY <1>6, <1>7, <1>8, <1>9, <1>10, <1>11 DEF SerialInv

LEMMA Reading ==
  ASSUME NEW l \in Seq(Byte("received")), NEW t \in 0 .. Len(l), NEW n \in 0 .. Len(l) - t
  PROVE  /\ SubSeq(l, t + 1, t + n) \in Seq(Byte("received"))
         /\ Len(SubSeq(l, t + 1, t + n)) = n
         /\ SubSeq(l, 1, t) \o SubSeq(l, t + 1, t + n) = SubSeq(l, 1, t + n)
<1>1. t + n \in t .. Len(l)
  OBVIOUS
<1>2. SubSeq(l, t + 1, t + n) \in Seq(Byte("received")) /\ Len(SubSeq(l, t + 1, t + n)) = n
  OBVIOUS
<1> QED  BY <1>1, <1>2, BeginningGrows

(* What is known while a transaction is in progress. *)
LEMMA InTransaction ==
  ASSUME SerialInv, pc \in {"transact", "guard"}
  PROVE  /\ ports = {} /\ DOMAIN stored = Port /\ DOMAIN line = Port
         /\ taken \in [Port -> Nat] /\ inbox \in Seq(Value)
         /\ line["received"] \in Seq(Byte("received"))
         /\ taken["received"] \in 0 .. Len(line["received"])
         /\ sent \in 0 .. SIZE /\ Len(response) \in 0 .. SIZE /\ SIZE \in Nat
         /\ response \in Seq(Byte("received")) /\ extra \in Seq(Byte("received"))
         /\ File \in Seq(Byte("received")) /\ received = File /\ stored["received"] = File
         /\ (File \o response) \o extra = SubSeq(line["received"], 1, taken["received"])
         /\ pc = "transact" => extra = <<>>
<1>1. ports = {} /\ DOMAIN stored = Port /\ DOMAIN line = Port /\ taken \in [Port -> Nat]
      /\ inbox \in Seq(Value) /\ line["received"] \in Seq(Byte("received"))
  BY DEF SerialInv, TypeInv, Port
<1>2. taken["received"] \in Nat /\ Len(line["received"]) \in Nat
  BY <1>1 DEF Port
<1>3. taken["received"] <= Len(line["received"]) /\ response \in Seq(Byte("received"))
      /\ Len(response) <= SIZE /\ Len(response) \in Nat
  BY DEF SerialInv, BenchInv
<1>4. /\ sent \in 0 .. SIZE /\ extra \in Seq(Byte("received"))
      /\ File \in Seq(Byte("received")) /\ received = File
      /\ (File \o response) \o extra = SubSeq(line["received"], 1, taken["received"])
      /\ pc = "transact" => extra = <<>>
  BY DEF SerialInv, BenchInv
<1>5. taken["received"] \in 0 .. Len(line["received"]) /\ Len(response) \in 0 .. SIZE /\ SIZE \in Nat
  BY <1>2, <1>3, Bytes
<1>6. stored["received"] = File
  BY DEF File
<1> QED  BY <1>1, <1>3, <1>4, <1>5, <1>6

LEMMA ExchangeKeeps == SerialInv /\ Exchange => SerialInv'
<1> SUFFICES ASSUME SerialInv, Exchange PROVE SerialInv'
  OBVIOUS
<1> DEFINE l == line["received"]
           t == taken["received"]
<1>1. PICK n \in 0 .. Available("received"), m \in 0 .. SIZE - sent :
         /\ ReadReply(n) /\ sent' = sent + m
         /\ inbox' = inbox \o SubSeq(Reference, sent + 1, sent')
  BY DEF Exchange
<1>2. /\ pc = "transact" /\ pc' = "transact" /\ extra = <<>> /\ extra' = <<>>
      /\ UNCHANGED <<answered, line, ports, mode, played, claimed, stored, status, received>>
      /\ response' = response \o SubSeq(l, t + 1, t + n)
      /\ taken' = [taken EXCEPT !["received"] = t + n]
      /\ n = Least(Len(l) - t, SIZE - Len(response))
  BY <1>1, InTransaction DEF Exchange, ReadReply, Chunk, Available, unchangedByBench
<1>3. /\ ports = {} /\ DOMAIN line = Port /\ taken \in [Port -> Nat] /\ inbox \in Seq(Value)
      /\ l \in Seq(Byte("received")) /\ t \in 0 .. Len(l)
      /\ sent \in 0 .. SIZE /\ Len(response) \in 0 .. SIZE /\ SIZE \in Nat
      /\ response \in Seq(Byte("received")) /\ File \in Seq(Byte("received")) /\ received = File
      /\ (File \o response) \o <<>> = SubSeq(l, 1, t)
  BY <1>2, InTransaction
<1> HIDE DEF l, t
<1>4. /\ n \in 0 .. Len(l) - t /\ n <= SIZE - Len(response) /\ t + n \in Nat /\ t + n <= Len(l)
  BY <1>2, <1>3 DEF Least
<1>5. sent' \in 0 .. SIZE /\ inbox' \in Seq(Value)
  <2>1. sent' \in 0 .. SIZE
    BY <1>1, <1>3
  <2>2. SubSeq(Reference, sent + 1, sent') \in Seq(Value)
    BY <1>3, <2>1, Bytes DEF SIZE
  <2> QED  BY <1>1, <1>3, <2>1, <2>2
<1>6. /\ response' \in Seq(Byte("received")) /\ Len(response') <= SIZE
      /\ (File \o response') \o <<>> = SubSeq(l, 1, t + n)
  <2> DEFINE c == SubSeq(l, t + 1, t + n)
  <2>1. c \in Seq(Byte("received")) /\ Len(c) = n /\ SubSeq(l, 1, t) \o c = SubSeq(l, 1, t + n)
    BY <1>3, <1>4, Reading
  <2>2. response' = response \o c
    BY <1>2
  <2> HIDE DEF c
  <2>3. response' \in Seq(Byte("received")) /\ Len(response') = Len(response) + n
    BY <1>3, <2>1, <2>2, Joined, ZenonT(40)
  <2>4. File \o response \in Seq(Byte("received")) /\ File \o response' = (File \o response) \o c
        /\ File \o response' \in Seq(Byte("received"))
    <3>1. File \in Seq(Byte("received")) /\ response \in Seq(Byte("received"))
      BY <1>3
    <3>2. File \o (response \o c) = (File \o response) \o c
      BY <2>1, <3>1, Joined, SMTT(30)
    <3>3. File \o response \in Seq(Byte("received")) /\ File \o response' \in Seq(Byte("received"))
      BY <2>3, <3>1, Joined
    <3> QED  BY <2>2, <3>2, <3>3
  <2>5. (File \o response) \o <<>> = File \o response /\ (File \o response') \o <<>> = File \o response'
    BY <2>4, Joined
  <2>6. (File \o response') \o <<>> = SubSeq(l, 1, t + n)
    BY <1>3, <2>1, <2>4, <2>5
  <2> QED  BY <1>3, <1>4, <2>3, <2>6, SMTT(30)
<1>7. taken' \in [Port -> Nat] /\ taken'["received"] = t + n
  BY <1>2, <1>3, <1>4 DEF Port
<1>8. TypeInv'
  BY <1>2, <1>3, <1>5, <1>7 DEF SerialInv, TypeInv, BeforeFlush
<1>9. RecordInv' /\ OrderInv' /\ ClaimedInv'
  BY <1>2, <1>3 DEF SerialInv, RecordInv, OrderInv, ClaimedInv, Clean, Recording, Benching
<1>10. BenchInv'
  <2>1. File' = File /\ line'["received"] = l
    BY <1>2 DEF File, l
  <2>2. extra' \in Seq(Byte("received"))
    BY <1>2
  <2> QED  BY <1>2, <1>3, <1>4, <1>5, <1>6, <1>7, <2>1, <2>2 DEF BenchInv
<1>11. VerdictInv'
  BY <1>2 DEF SerialInv, VerdictInv, PassMeansEveryByteAnswered, ReportSpeaksOfTheFile
<1> QED  BY <1>8, <1>9, <1>10, <1>11 DEF SerialInv

LEMMA EndTransactionKeeps ==
  ASSUME SerialInv, pc \in {"transact", "guard"}, NEW timed_out \in BOOLEAN,
         EndTransaction(timed_out),
         UNCHANGED <<lineVars, unchangedByBench, claimed, taken, status, settings>>
  PROVE  SerialInv'
<1>1. /\ pc' \in {"transact", "judge"} /\ sent' = 0 /\ response' = <<>> /\ extra' = <<>>
      /\ UNCHANGED <<inbox, answered, line, ports, mode, played, claimed, taken, status>>
  BY DEF EndTransaction, lineVars, unchangedByBench
<1>2. /\ DOMAIN stored' = Port /\ File' = (File \o response) \o extra /\ received' = File'
  BY InTransaction DEF EndTransaction, File, Port
<1>3. /\ File' \in Seq(Byte("received")) /\ (File' \o <<>>) \o <<>> = File'
      /\ File' = SubSeq(line["received"], 1, taken["received"])
  <2>1. File \o response \in Seq(Byte("received"))
    BY InTransaction, Joined
  <2>2. (File \o response) \o extra \in Seq(Byte("received"))
    BY <2>1, InTransaction, Joined
  <2>3. \A f \in Seq(Byte("received")) : (f \o <<>>) \o <<>> = f
    <3> TAKE f \in Seq(Byte("received"))
    <3>1. f \o <<>> = f
      BY Joined
    <3> QED  BY <3>1
  <2> QED  BY <1>2, <2>2, <2>3, InTransaction
<1>4. TypeInv'
  BY <1>1, <1>2, InTransaction DEF SerialInv, TypeInv, BeforeFlush
<1>5. RecordInv' /\ OrderInv' /\ ClaimedInv'
  BY <1>1, InTransaction DEF SerialInv, RecordInv, OrderInv, ClaimedInv, Clean, Recording, Benching
<1>6. BenchInv'
  <2>1. <<>> \in Seq(Byte("received")) /\ Len(<<>>) = 0 /\ 0 \in 0 .. SIZE /\ 0 <= SIZE
    BY Bytes
  <2>2. taken'["received"] <= Len(line'["received"])
    BY <1>1, InTransaction
  <2>3. (File' \o response') \o extra' = SubSeq(line'["received"], 1, taken'["received"])
    BY <1>1, <1>3
  <2>4. StartsWith(File', received')
    <3>1. \A f \in Seq(Byte("received")) : SubSeq(f, 1, Len(f)) = f /\ Len(f) <= Len(f)
      OBVIOUS
    <3> QED  BY <1>2, <1>3, <3>1 DEF StartsWith
  <2> QED  BY <1>1, <1>2, <1>3, <2>1, <2>2, <2>3, <2>4 DEF BenchInv
<1>7. VerdictInv'
  BY <1>1 DEF SerialInv, VerdictInv, PassMeansEveryByteAnswered, ReportSpeaksOfTheFile
<1> QED  BY <1>4, <1>5, <1>6, <1>7 DEF SerialInv

LEMMA GuardReadKeeps == SerialInv /\ GuardRead => SerialInv'
<1> SUFFICES ASSUME SerialInv, GuardRead PROVE SerialInv'
  OBVIOUS
<1> DEFINE l == line["received"]
           t == taken["received"]
           n == Len(l) - t
           c == SubSeq(l, t + 1, t + n)
           g == File \o response
<1>1. /\ pc = "guard" /\ pc' = "guard"
      /\ UNCHANGED <<inbox, answered, line, ports, mode, played, claimed, stored, status,
                     sent, response, received>>
      /\ extra' = extra \o c
      /\ taken' = [taken EXCEPT !["received"] = Len(l)]
  BY DEF GuardRead, lineVars, unchangedByBench, Chunk, Available
<1>2. /\ ports = {} /\ DOMAIN line = Port /\ taken \in [Port -> Nat] /\ inbox \in Seq(Value)
      /\ l \in Seq(Byte("received")) /\ t \in 0 .. Len(l)
      /\ sent \in 0 .. SIZE /\ Len(response) \in 0 .. SIZE /\ SIZE \in Nat
      /\ response \in Seq(Byte("received")) /\ extra \in Seq(Byte("received"))
      /\ File \in Seq(Byte("received")) /\ received = File
      /\ g \o extra = SubSeq(l, 1, t)
  BY <1>1, InTransaction
<1>3. /\ Len(l) \in Nat
      /\ c \in Seq(Byte("received")) /\ SubSeq(l, 1, t) \o c = SubSeq(l, 1, Len(l))
  <2> HIDE DEF l, t
  <2>1. Len(l) \in Nat /\ n \in 0 .. Len(l) - t /\ t + n = Len(l)
    BY <1>2
  <2> HIDE DEF n
  <2>2. c \in Seq(Byte("received")) /\ SubSeq(l, 1, t) \o c = SubSeq(l, 1, t + n)
    BY <1>2, <2>1, Reading
  <2> QED  BY <2>1, <2>2
<1> HIDE DEF c
<1>4. g \in Seq(Byte("received"))
  BY <1>2, Joined
<1> HIDE DEF g
<1>5. extra' \in Seq(Byte("received")) /\ g \o extra' = SubSeq(l, 1, Len(l))
  <2>1. extra \o c \in Seq(Byte("received")) /\ g \o (extra \o c) = (g \o extra) \o c
    <3>1. extra \in Seq(Byte("received"))
      BY <1>2
    <3>2. extra \o c \in Seq(Byte("received"))
      BY <1>3, <3>1, Joined
    <3>3. g \o (extra \o c) = (g \o extra) \o c
      BY <1>3, <1>4, <3>1, Joined, SMTT(30)
    <3> QED  BY <3>2, <3>3
  <2> QED  BY <1>1, <1>2, <1>3, <2>1
<1>6. taken' \in [Port -> Nat] /\ taken'["received"] = Len(l)
  BY <1>1, <1>2, <1>3 DEF Port
<1>7. TypeInv'
  BY <1>1, <1>2, <1>6 DEF SerialInv, TypeInv, BeforeFlush
<1>8. RecordInv' /\ OrderInv' /\ ClaimedInv'
  BY <1>1, <1>2 DEF SerialInv, RecordInv, OrderInv, ClaimedInv, Clean, Recording, Benching
<1>9. BenchInv'
  <2>1. File' = File /\ line'["received"] = l /\ (File' \o response') \o extra' = g \o extra'
    BY <1>1 DEF File, g
  <2>2. taken'["received"] <= Len(line'["received"])
    BY <1>3, <1>6, <2>1
  <2>3. (File' \o response') \o extra' = SubSeq(line'["received"], 1, taken'["received"])
    BY <1>5, <1>6, <2>1
  <2> HIDE DEF l, t
  <2>4. /\ sent' \in 0 .. SIZE /\ response' \in Seq(Byte("received")) /\ Len(response') <= SIZE
        /\ extra' \in Seq(Byte("received")) /\ File' \in Seq(Byte("received")) /\ received' = File'
    BY <1>1, <1>2, <1>5, <2>1
  <2> QED  BY <1>1, <2>2, <2>3, <2>4 DEF BenchInv
<1>10. VerdictInv'
  BY <1>1 DEF SerialInv, VerdictInv, PassMeansEveryByteAnswered, ReportSpeaksOfTheFile
<1> QED  BY <1>7, <1>8, <1>9, <1>10 DEF SerialInv

LEMMA BreakOffKeeps == SerialInv /\ BreakOff => SerialInv'
<1> SUFFICES ASSUME SerialInv, BreakOff PROVE SerialInv'
  OBVIOUS
<1>1. PICK k \in 0 .. Len(response \o extra) :
        stored' = [stored EXCEPT !["received"] = @ \o SubSeq(response \o extra, 1, k)]
  BY DEF BreakOff
<1>2. /\ pc \in {"transact", "guard"} /\ pc' = "judge" /\ invalid' = TRUE
      /\ UNCHANGED <<inbox, answered, line, ports, mode, played, claimed, taken, status, received>>
  BY DEF BreakOff, lineVars, unchangedByBench
<1> DEFINE part == SubSeq(response \o extra, 1, k)
<1>3. part \in Seq(Byte("received"))
  <2>1. response \o extra \in Seq(Byte("received"))
    BY <1>2, InTransaction, Joined
  <2> QED  BY <2>1, Beginning
<1>4. DOMAIN stored' = Port /\ File' = File \o part
  BY <1>1, <1>2, InTransaction DEF File, Port
<1> HIDE DEF part
<1>5. TypeInv'
  BY <1>2, <1>4, InTransaction DEF SerialInv, TypeInv, BeforeFlush
<1>6. RecordInv' /\ OrderInv' /\ ClaimedInv'
  BY <1>2, InTransaction DEF SerialInv, RecordInv, OrderInv, ClaimedInv, Clean, Recording, Benching
<1>7. BenchInv'
  <2>1. StartsWith(File', received')
    <3>1. \A f \in Seq(Byte("received")), h \in Seq(Byte("received")) :
             Len(f) <= Len(f \o h) /\ SubSeq(f \o h, 1, Len(f)) = f
      <4> TAKE f \in Seq(Byte("received")), h \in Seq(Byte("received"))
      <4>1. Len(f) \in 0 .. Len(f \o h) /\ f \o h \in Seq(Byte("received"))
        OBVIOUS
      <4>2. SubSeq(f \o h, 1, Len(f)) \in Seq(Byte("received"))
            /\ Len(SubSeq(f \o h, 1, Len(f))) = Len(f)
            /\ \A i \in 1 .. Len(f) : SubSeq(f \o h, 1, Len(f))[i] = f[i]
        BY <4>1, Beginning
      <4> QED  BY <4>1, <4>2, SeqEqual
    <3> QED  BY <1>2, <1>3, <1>4, <3>1, InTransaction DEF StartsWith
  <2> QED  BY <1>2, <2>1 DEF BenchInv
<1>8. VerdictInv'
  BY <1>2 DEF SerialInv, VerdictInv, PassMeansEveryByteAnswered, ReportSpeaksOfTheFile
<1> QED  BY <1>5, <1>6, <1>7, <1>8 DEF SerialInv

LEMMA JudgeKeeps == SerialInv /\ Judge => SerialInv'
<1> SUFFICES ASSUME SerialInv, Judge PROVE SerialInv'
  OBVIOUS
<1>1. /\ pc = "judge" /\ pc' = "ended" /\ ports = {} /\ status' \in {"PASS", "FAIL"}
      /\ status' = "PASS" => compare(BenchReference, received, TRIALS * SIZE, invalid)
      /\ UNCHANGED <<inbox, answered, line, ports, mode, played, claimed, taken, stored, received>>
  BY CountAssumption DEF Judge, lineVars, benchVars, unchangedByBench, SerialInv, TypeInv, Verdict
<1>2. TypeInv' /\ RecordInv' /\ OrderInv' /\ BenchInv' /\ ClaimedInv'
  BY <1>1 DEF SerialInv, TypeInv, RecordInv, OrderInv, BenchInv, ClaimedInv, BeforeFlush,
     Recording, Benching
<1>3. StartsWith(File, received) /\ (File # received => status' = "FAIL")
  BY <1>1 DEF SerialInv, BenchInv, compare
<1>4. ReportSpeaksOfTheFile'
  BY <1>1, <1>3 DEF ReportSpeaksOfTheFile, File, StartsWith
<1>5. ASSUME status' = "PASS" PROVE PassMeansEveryByteAnswered'
  <2> DEFINE l == line["received"]
             n == taken["received"]
             v == BenchReference
  <2>1. /\ l \in Seq(Byte("received")) /\ n \in 0 .. Len(l)
        /\ received = File /\ File = SubSeq(l, 1, n)
    <3>1. ~invalid /\ l \in Seq(Byte("received")) /\ n \in Nat /\ Len(l) \in Nat
      BY <1>1, <1>5 DEF compare, SerialInv, TypeInv, Port
    <3>2. received = File /\ n <= Len(l) /\ File = SubSeq(l, 1, n)
      BY <1>1, <3>1 DEF SerialInv, BenchInv
    <3> HIDE DEF l, n
    <3> QED  BY <3>1, <3>2
  <2>2. \A i \in 1 .. Len(l) : (\A j \in 1 .. i : l[j] # Noise("received")) => l[i][2] = i
    BY <1>1 DEF SerialInv, OrderInv, Benching, Clean
  <2>3. Len(File) = TRIALS * SIZE /\ Recovered(File) = v
    BY <1>1, <1>5, <2>1 DEF compare
  <2>4. Len(File) = n /\ DOMAIN File = 1 .. n /\ \A i \in 1 .. n : File[i] = l[i]
    <3> HIDE DEF l, n
    <3> QED  BY <2>1, Beginning
  <2>5. \A i \in 1 .. n : v[i] \in Value
    <3> TAKE i \in 1 .. n
    <3>1. i \in 1 .. TRIALS * SIZE /\ n = TRIALS * SIZE
      BY <2>3, <2>4
    <3>2. SIZE # 0 /\ SIZE \in Nat /\ i \in Nat /\ i >= 1
      <4>1. TRIALS * 0 = 0 /\ SIZE \in Nat /\ TRIALS \in Nat
        BY TrialsAssumption, Bytes
      <4> QED  BY <3>1, <4>1
    <3>3. (i - 1) % SIZE \in 0 .. SIZE - 1
      BY <3>2
    <3>4. ((i - 1) % SIZE) + 1 \in 1 .. Len(Reference)
      BY <3>2, <3>3 DEF SIZE
    <3>5. v[i] = Reference[((i - 1) % SIZE) + 1]
      BY <3>1 DEF BenchReference
    <3> QED  BY <3>4, <3>5, Bytes DEF Value
  <2> HIDE DEF v
  <2>6. \A i \in 1 .. n : v[i] \in Value /\ l[i][1] = v[i]
    <3>1. \A i \in 1 .. n : Recovered(File)[i] \in {l[i][1], None}
      <4> HIDE DEF l, n
      <4> QED  BY <2>4 DEF Recovered
    <3> HIDE DEF l, n
    <3> QED  BY <2>3, <2>5, <3>1, Bytes
  <2> HIDE DEF l, n
  <2>7. SubSeq(l, 1, n) = [i \in DOMAIN SubSeq(l, 1, n) |-> <<v[i], i>>]
    <3>1. l \in Seq(Byte("received")) /\ n \in 0 .. Len(l)
      BY <2>1
    <3> QED  BY ONLY <2>2, <2>6, <3>1, AnswersInPlace
  <2>8. File = [i \in DOMAIN File |-> <<v[i], i>>]
    BY <2>1, <2>7
  <2>9. File' = File /\ ports' = {} /\ taken'["received"] = Len(File) /\ claimed' = (mode' = "aes-128-ctr")
    BY <1>1, <2>4 DEF SerialInv, ClaimedInv, Benching, File, n
  <2>10. File' = [i \in DOMAIN File' |-> <<IF ports' = {} THEN BenchReference[i] ELSE Reference[i], i>>]
    BY <2>8, <2>9 DEF v
  <2> QED  BY <2>9, <2>10 DEF PassMeansEveryByteAnswered
<1>6. VerdictInv'
  BY <1>1, <1>4, <1>5 DEF VerdictInv, PassMeansEveryByteAnswered
<1> QED  BY <1>2, <1>6 DEF SerialInv
LEMMA NextKeeps == SerialInv /\ [Next]_vars => SerialInv'
<1> SUFFICES ASSUME SerialInv, [Next]_vars PROVE SerialInv'
  OBVIOUS
<1>1. CASE CaptureNext /\ UNCHANGED benchVars
  <2>1. CASE ReserveCapture \/ Arm \/ Ready \/ ReadPorts \/ Compare \/ Play
    BY <1>1, <2>1, ReserveCaptureKeeps, ArmKeeps, ReadyKeeps, ReadPortsKeeps, CompareKeeps, PlayKeeps
  <2>2. CASE LeaveLoop
    BY <1>1, <2>2, LeavingKeeps DEF LeaveLoop
  <2>3. CASE Store
    BY <1>1, <2>3, LeavingKeeps DEF Store, Fail
  <2>4. CASE Interrupt
    BY <1>1, <2>4, LeavingKeeps DEF Interrupt
  <2>5. CASE Expire
    BY <1>1, <2>5, LeavingKeeps DEF Expire
  <2>6. CASE LineNext /\ UNCHANGED captureVars
    BY <1>1, <2>6, AnswerKeeps, DisturbKeeps DEF LineNext
  <2> QED  BY <1>1, <2>1, <2>2, <2>3, <2>4, <2>5, <2>6 DEF CaptureNext, CaptureStep
<1>2. CASE ReserveBench \/ ClaimBench \/ OpenBench
  BY <1>2, OpeningKeeps
<1>3. CASE Exchange \/ GuardRead \/ BreakOff \/ Judge
  BY <1>3, ExchangeKeeps, GuardReadKeeps, BreakOffKeeps, JudgeKeeps
<1>4. CASE GiveUp
  BY <1>4, EndTransactionKeeps DEF GiveUp
<1>5. CASE BeginGuard
  <2>1. CASE pc' = "guard" /\ expired' = FALSE /\ UNCHANGED <<stored, benchVars>>
    BY <1>5, <2>1, LeavingKeeps DEF BeginGuard, unchangedByBench
  <2>2. CASE EndTransaction(FALSE)
    BY <1>5, <2>2, EndTransactionKeeps DEF BeginGuard
  <2> QED  BY <1>5, <2>1, <2>2 DEF BeginGuard
<1>6. CASE EndGuard
  BY <1>6, EndTransactionKeeps DEF EndGuard
<1>7. CASE BenchExpire
  BY <1>7, LeavingKeeps DEF BenchExpire, unchangedByBench
<1>8. CASE UNCHANGED vars
  <2> USE <1>8 DEF vars, captureVars, lineVars, benchVars
  <2>1. TypeInv'
    BY DEF SerialInv, TypeInv
  <2>2. RecordInv'
    BY DEF SerialInv, RecordInv
  <2>3. OrderInv'
    BY DEF SerialInv, OrderInv, Clean
  <2>4. BenchInv'
    BY DEF SerialInv, BenchInv, File, StartsWith
  <2>5. ClaimedInv' /\ VerdictInv'
    BY VerdictUntouched
  <2> QED  BY <2>1, <2>2, <2>3, <2>4, <2>5 DEF SerialInv
<1> QED
  BY <1>1, <1>2, <1>3, <1>4, <1>5, <1>6, <1>7, <1>8 DEF Next, BenchStep

THEOREM SerialInvariant == Spec => []SerialInv
<1> QED  BY InitSerial, NextKeeps, PTL DEF Spec

(* Whatever a port is recorded with, its file is the beginning of what     *)
(* arrived there after the flush.                                          *)
THEOREM RecordingIsAPrefix == Spec => []FileIsWhatArrived
<1>1. SerialInv => FileIsWhatArrived
  <2> SUFFICES ASSUME SerialInv, NEW q \in ports, stored[q] # None
               PROVE  /\ StartsWith(line[q], stored[q])
                      /\ \A i \in DOMAIN stored[q] : stored[q][i] # Stale
                      /\ Len(stored[q]) <= COUNT
    BY DEF FileIsWhatArrived
  <2> DEFINE l == line[q]
             n == taken[q]
             s == stored[q]
  <2>1. /\ q \in Port /\ l \in Seq(Byte(q)) /\ n \in Nat /\ n <= Len(l) /\ n <= COUNT /\ Len(l) \in Nat
        /\ s = SubSeq(l, 1, n)
        /\ n > 0 => \A i \in 1 .. Len(l) : l[i] # Stale
    BY DEF SerialInv, TypeInv, RecordInv, Port
  <2> HIDE DEF l, n, s
  <2>2. n \in 0 .. Len(l)
    BY <2>1
  <2>3. Len(s) = n /\ DOMAIN s = 1 .. n /\ \A i \in 1 .. n : s[i] = l[i]
    BY <2>1, <2>2, Beginning
  <2>4. \A i \in DOMAIN s : s[i] # Stale
    BY <2>1, <2>3
  <2> QED  BY <2>1, <2>3, <2>4 DEF StartsWith, l, s
<1> QED  BY <1>1, SerialInvariant, PTL

(* A PASS of either tool is a statement about every byte of the file.      *)
THEOREM PassIsEarned == Spec => []PassMeansEveryByteAnswered
<1>1. SerialInv => PassMeansEveryByteAnswered
  BY DEF SerialInv, VerdictInv
<1> QED  BY <1>1, SerialInvariant, PTL

(* What serial_bench.py compared is what its file holds.                   *)
THEOREM ReportMatchesFile == Spec => []ReportSpeaksOfTheFile
<1>1. SerialInv => ReportSpeaksOfTheFile
  BY DEF SerialInv, VerdictInv
<1> QED  BY <1>1, SerialInvariant, PTL
-----------------------------------------------------------------------------
(* The stages a command still has before it: every transaction has two,    *)
(* and in each of them one deadline runs.                                  *)
StagesLeft ==
  CASE pc = "idle"        -> 2 * TRIALS + 4
    [] pc = "bench_claim" -> 2 * TRIALS + 3
    [] pc = "bench_open"  -> 2 * TRIALS + 2
    [] pc = "transact"    -> 2 * (TRIALS - trial) + 1
    [] pc = "guard"       -> 2 * (TRIALS - trial)
    [] pc = "arm"         -> 5
    [] pc = "claim"       -> 4
    [] pc = "loop"        -> 3
    [] pc = "store"       -> 2
    [] pc = "judge"       -> 1
    [] pc = "recorded"    -> 1
    [] pc = "ended"       -> 0

Stage == {"idle", "bench_claim", "bench_open", "transact", "guard", "arm", "claim", "loop",
          "store", "judge", "recorded", "ended"}

(* No transaction is begun after the last. *)
StageInv ==
  /\ pc \in Stage
  /\ trial \in Nat
  /\ pc \in {"idle", "bench_claim", "bench_open"} => trial = 0
  /\ pc \in {"transact", "guard"} => trial < TRIALS

(* A step of the command itself. *)
ToolStep == (CaptureStep /\ UNCHANGED benchVars) \/ BenchStep

MovesOn ==
  \/ StagesLeft' < StagesLeft
  \/ pc' = pc /\ trial' = trial /\ (expired => expired')

LEMMA StagesLeftIs ==
  ASSUME StageInv
  PROVE  /\ StagesLeft \in 0 .. 2 * TRIALS + 4
         /\ StagesLeft = 0 <=> pc = "ended"
<1> USE TrialsAssumption
<1>1. CASE pc \in {"idle", "bench_claim", "bench_open"}
  <2>1. \/ StagesLeft = 2 * TRIALS + 4
        \/ StagesLeft = 2 * TRIALS + 3
        \/ StagesLeft = 2 * TRIALS + 2
    BY <1>1 DEF StagesLeft
  <2> QED  BY <1>1, <2>1
<1>2. CASE pc \in {"transact", "guard"}
  <2>1. TRIALS - trial \in 1 .. TRIALS
    BY <1>2 DEF StageInv
  <2>2. \/ StagesLeft = 2 * (TRIALS - trial) + 1
        \/ StagesLeft = 2 * (TRIALS - trial)
    BY <1>2 DEF StagesLeft
  <2> QED  BY <1>2, <2>1, <2>2
<1>3. CASE pc \in {"arm", "claim", "loop", "store", "judge", "recorded"}
  <2>1. StagesLeft \in 1 .. 5
    BY <1>3 DEF StagesLeft
  <2> QED  BY <1>3, <2>1
<1>4. CASE pc = "ended"
  BY <1>4 DEF StagesLeft
<1> QED  BY <1>1, <1>2, <1>3, <1>4 DEF StageInv, Stage

(* Where a command can go from each of its stages. *)
Onward ==
  \/ pc = "idle" /\ pc' # "idle"
  \/ pc = "bench_claim" /\ pc' = "bench_open"
  \/ pc = "bench_open" /\ pc' = "transact"
  \/ pc = "transact" /\ pc' = "guard" /\ trial' = trial
  \/ pc \in {"transact", "guard"} /\ pc' = "transact" /\ trial' = trial + 1
  \/ pc \in {"transact", "guard"} /\ pc' = "judge"
  \/ pc = "arm" /\ pc' = "claim"
  \/ pc = "claim" /\ pc' = "loop"
  \/ pc = "loop" /\ pc' = "store"
  \/ pc = "store" /\ pc' = "recorded"
  \/ pc # "ended" /\ pc' = "ended"

LEMMA OnwardIsLess ==
  ASSUME StageInv, StageInv', Onward
  PROVE  StagesLeft' < StagesLeft
  BY TrialsAssumption DEF StageInv, Stage, StagesLeft, Onward

LEMMA EndTransactionMoves ==
  ASSUME StageInv, pc \in {"transact", "guard"}, NEW timed_out, EndTransaction(timed_out)
  PROVE  StageInv' /\ Onward
<1>1. /\ trial' = trial + 1
      /\ \/ pc' = "judge"
         \/ pc' = "transact" /\ trial' # TRIALS
  BY DEF EndTransaction
<1>2. StageInv'
  BY <1>1, TrialsAssumption DEF StageInv, Stage
<1> QED  BY <1>1, <1>2 DEF Onward

(* A step of the command goes on to a later stage, or the deadline of the  *)
(* present one has not passed.                                             *)
LEMMA ToolMoves ==
  ASSUME StageInv, ToolStep
  PROVE  /\ StageInv'
         /\ Onward \/ (~expired /\ pc' = pc /\ trial' = trial)
<1> USE TrialsAssumption
<1>1. CASE CaptureStep /\ UNCHANGED benchVars
  <2>1. trial' = trial
    BY <1>1 DEF benchVars
  <2>2. \/ pc = "arm" /\ pc' \in {"claim", "ended"}
        \/ pc = "claim" /\ pc' \in {"loop", "ended"}
        \/ pc = "loop" /\ pc' \in {"store", "ended"}
        \/ pc = "loop" /\ pc' = "loop" /\ ~expired
        \/ pc = "store" /\ pc' \in {"recorded", "ended"}
    BY <1>1 DEF CaptureStep, Arm, Ready, ReadPorts, LeaveLoop, Store, Fail
  <2>3. StageInv'
    BY <2>1, <2>2 DEF StageInv, Stage
  <2> QED  BY <2>1, <2>2, <2>3 DEF Onward
<1>2. CASE ClaimBench \/ OpenBench
  <2>1. trial' = trial
    BY <1>2 DEF ClaimBench, OpenBench, benchVars
  <2>2. \/ pc = "bench_claim" /\ pc' \in {"bench_open", "ended"}
        \/ pc = "bench_open" /\ pc' \in {"transact", "ended"}
    BY <1>2 DEF ClaimBench, OpenBench, Fail
  <2>3. StageInv'
    BY <2>1, <2>2 DEF StageInv, Stage
  <2> QED  BY <2>2, <2>3 DEF Onward
<1>3. CASE Exchange \/ GuardRead
  <2>1. ~expired /\ pc' = pc /\ trial' = trial
    BY <1>3 DEF Exchange, GuardRead, unchangedByBench
  <2> QED  BY <2>1 DEF StageInv
<1>4. CASE GiveUp \/ EndGuard
  <2>1. PICK timed_out \in BOOLEAN : pc \in {"transact", "guard"} /\ EndTransaction(timed_out)
    BY <1>4 DEF GiveUp, EndGuard
  <2> QED  BY <2>1, EndTransactionMoves
<1>5. CASE BeginGuard
  <2>1. CASE EndTransaction(FALSE)
    BY <1>5, <2>1, EndTransactionMoves DEF BeginGuard
  <2>2. CASE pc' = "guard" /\ UNCHANGED benchVars
    <3>1. pc = "transact" /\ trial' = trial
      BY <1>5, <2>2 DEF BeginGuard, benchVars
    <3>2. StageInv'
      BY <2>2, <3>1 DEF StageInv, Stage
    <3> QED  BY <2>2, <3>1, <3>2 DEF Onward
  <2> QED  BY <1>5, <2>1, <2>2 DEF BeginGuard
<1>6. CASE BreakOff \/ Judge
  <2>1. \/ pc \in {"transact", "guard"} /\ pc' = "judge"
        \/ pc = "judge" /\ pc' = "ended"
    BY <1>6 DEF BreakOff, Judge
  <2>2. trial' = trial
    BY <1>6 DEF BreakOff, Judge, benchVars
  <2>3. StageInv'
    BY <2>1, <2>2 DEF StageInv, Stage
  <2> QED  BY <2>1, <2>3 DEF Onward
<1> QED  BY <1>1, <1>2, <1>3, <1>4, <1>5, <1>6 DEF ToolStep, BenchStep

LEMMA NextStage ==
  ASSUME StageInv, [Next]_vars
  PROVE  StageInv' /\ [MovesOn]_vars
<1>1. ASSUME StageInv', Onward
      PROVE  StageInv' /\ [MovesOn]_vars
  BY <1>1, OnwardIsLess DEF MovesOn
<1>2. ASSUME pc' = pc, trial' = trial, expired => expired'
      PROVE  StageInv' /\ [MovesOn]_vars
  BY <1>2 DEF MovesOn, StageInv
<1>3. CASE ToolStep
  <2>1. expired' = expired \/ ~expired \/ Onward
    BY <1>3, ToolMoves
  <2> QED  BY <1>1, <1>2, <1>3, <2>1, ToolMoves
<1>4. CASE (ReserveCapture \/ Compare \/ Interrupt) /\ UNCHANGED benchVars
  <2>1. trial' = trial
    BY <1>4 DEF benchVars
  <2>2. \/ pc = "idle" /\ pc' \in {"arm", "ended"}
        \/ pc \notin {"idle", "ended"} /\ pc' = "ended"
    BY <1>4 DEF ReserveCapture, Compare, Interrupt, Fail
  <2>3. StageInv'
    BY <2>1, <2>2 DEF StageInv, Stage
  <2>4. Onward
    BY <2>2 DEF Onward
  <2> QED  BY <1>1, <2>3, <2>4
<1>5. CASE (Play \/ Expire \/ (LineNext /\ UNCHANGED captureVars)) /\ UNCHANGED benchVars
  <2>1. pc' = pc /\ trial' = trial /\ (expired => expired')
    BY <1>5 DEF Play, Expire, captureVars, benchVars
  <2> QED  BY <1>2, <2>1
<1>6. CASE ReserveBench
  <2>1. pc = "idle" /\ pc' \in {"bench_claim", "ended"} /\ trial' = trial
    BY <1>6 DEF ReserveBench, benchVars
  <2>2. StageInv' /\ Onward
    BY <2>1 DEF StageInv, Stage, Onward
  <2> QED  BY <1>1, <2>2
<1>7. CASE BenchExpire
  <2>1. pc' = pc /\ trial' = trial /\ ~expired
    BY <1>7 DEF BenchExpire, benchVars
  <2> QED  BY <1>2, <2>1
<1>8. CASE UNCHANGED vars
  BY <1>8 DEF vars, captureVars, benchVars, StageInv
<1> QED  BY <1>3, <1>4, <1>5, <1>6, <1>7, <1>8 DEF Next, CaptureNext, ToolStep

(* What EveryToolEnds rests on, for any number of transactions, reference  *)
(* and behaviour of the line: a command of capture.py or serial_bench.py   *)
(* has at most 2 * TRIALS + 4 stages before it and returns to none; a      *)
(* deadline that has passed stays passed until its stage is over; and      *)
(* after it the next step of the command ends the stage.                   *)
THEOREM DeadlinesAreKept ==
  Spec => /\ [](StagesLeft \in 0 .. 2 * TRIALS + 4 /\ (StagesLeft = 0 <=> pc = "ended"))
          /\ [][MovesOn]_vars
          /\ [][expired /\ ToolStep => StagesLeft' < StagesLeft]_vars
<1>1. Init => StageInv
  BY TrialsAssumption DEF Init, CaptureInit, StageInv, Stage
<1>2. StageInv /\ [Next]_vars => StageInv' /\ [MovesOn]_vars
  BY NextStage
<1>3. StageInv => StagesLeft \in 0 .. 2 * TRIALS + 4 /\ (StagesLeft = 0 <=> pc = "ended")
  BY StagesLeftIs
<1>4. StageInv /\ StageInv' => [expired /\ ToolStep => StagesLeft' < StagesLeft]_vars
  BY ToolMoves, OnwardIsLess
<1> QED  BY <1>1, <1>2, <1>3, <1>4, PTL DEF Spec
=============================================================================
