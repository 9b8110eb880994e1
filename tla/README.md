# A verification project for the UART / AES-128-CTR bridge

The repository holds a small hardware design and the tools that use it on a
bench.  A GPS receiver sends NMEA sentences over a serial line at 9600 baud; an
FPGA receives every byte, queues it, combines it with AES-128 counter-mode
keystream and sends it on.  Two bitstreams are built from one source: a
*secure* one, and a *baseline* one from which the cipher is removed at
elaboration, so that the two can be compared.  Python scripts create the
single-use encryption contexts, build bitstreams, drive the serial ports and a
logic analyser, and judge recordings.

What can go wrong is typical of such designs: handshakes that lose or repeat a
byte, a keystream that slips by one position, state that survives a reset, a
counter that wraps, a context that is used twice; and, on the bench, a record
that passes although a byte, a sample or the build behind it is not what it is
taken for.  The TLA+ modules here model the hardware at register-transfer
level, one step per clock edge, and the scripts one system call or one turn of
a loop at a time, and the properties are aimed at those hazards.

## 1. Inventory

### Hardware

| Part (source) | State | Operations | Hard part |
|---|---|---|---|
| `uart_rx` | 2-stage synchroniser, 5-state machine, bit timer, shift register | sample, receive, framing error | resynchronisation, break, false start |
| `uart_tx` | bit timer, bit index, frame register | start, shift, end of frame | frame time, back-to-back frames |
| `sync_fifo` | RAM, two pointers, level, peak, flags | write, read, both, reset | read and write at full; RAM is never reset |
| `aes128_core` | 4-state machine, round index, round constant, key and data registers | load key, start, 20 round phases | two pipelines in step; last round differs |
| `aes128_ctr_mask` | context, counter, one held mask, one block in flight | configure, issue, capture, consume, abort | abort while the engine runs; last counter |
| `aes128_ctr_stream` | current mask, byte index | load, shift, discard | swap of masks at the last byte |
| `uart_ctr_bridge` | session flag, fault flags, peak, holding register | configure, run, fault, abort | one edge resets everything on a fault |
| `de10_lite_uart_ctr_top`, `reset_sync` | KEY0, reset pipe, used mark, pending request | press, release, edge | reset must not restart a used keystream |
| `uart_bridge`, `uart_scope`, other tops | loopback and test patterns | | |

The bridge composes receiver, FIFO, cipher and transmitter by handshakes within
one clock domain: `rx_done` writes the FIFO, a read is requested only when the
holding register is free, the byte leaves it when a keystream byte is ready and
the transmitter is idle.  `datapath_rst = rst || !active` is an *asynchronous*
reset of receiver, FIFO, transmitter and holding register, so the edge that
clears `active` also clears all of them.

### Host scripts

| Part | State | Operations | Hard part |
|---|---|---|---|
| `context.py` | registry file, one file per context, lock file | create, claim, validate, render | crash between two writes, two processes, reuse |
| `capture.py` | open ports, output files, deadline | record, record-pair, compare | stale input, partial reads, Control-C |
| `serial_bench.py` | one port, the transaction in progress | run, replay | deadlines against late answers, extra bytes |
| `bench_build.py`, `build_manifest.py` | build directory, manifest, binding | begin, bind, flow, finish, verify | a build that fails half way, edits meanwhile |
| `ad2_live_capture.py` | reader thread, bounded queue, preflight, decoders | record, analyze | thread stop, queue full, lost samples, chunk edges |
| `long_campaign.py` | campaign file | prepare, summarize | verdicts and files that no longer belong together |
| `publish_experiment.py`, `live_timing.py` | export directory | export, check-export | files that change while they are copied |
| `gps_fixture.py`, `gps_capture.py`, `stress_fixture.py`, `replay_campaign.py` | capture, replay, runbook | validate, repeat, plan | a capture that begins and ends anywhere |
| the rest | none between calls | reports, vectors, tables | |

Processes of `context.py` and of the capture tools meet in the registry, under
a lock on a file beside it.  A capture tool claims a context there before it
tells the operator to start the source.  `bench_build.py` turns a context into
a bitstream and binds the two by a digest; `ad2_live_capture.py` claims only a
context whose bitstream verifies.  Later tools read what earlier ones wrote,
by digest, while the operator may edit any file.

`PROJECT.json` lists every component with its status, and every hazard found
while reading, at its source line.

## 2. Modules

Detailed hardware modules follow the RTL register by register; abstract ones say what a
unit promises.  A unit that uses another is composed with the *abstract* form
of it, and the detailed form is shown to implement the abstract one:

```
 BoundedQueue   <== SyncFifo            Keystream  <== CtrStream (over CtrMask)
 AesService     <== AesCore             CtrChannel <== UartCtrBridge
 TxPort         <== UartTx             RxPort     <== UartRx on UartNoise
 CtrMask        uses AesService
 CtrStream      extends CtrMask
 UartLink       extends UartRx, uses UartTx
 UartCtrBridge  uses RxPort, BoundedQueue, TxPort, CtrStream
 ContextTop     extends UartCtrBridge
```

The modules of the scripts are composed by EXTENDS, each adding a tool to what
it works on:

```
 ContextRegistry  -> BenchLedger                the registry, and the board
 SerialLine       -> Capture -> SerialBench     the line, and the tools on it
 BuildManifest, UartDecoder -> DigitalRecord -> Evidence
 GpsFixture                                     the data, by itself
```

| Module | Models | Correspondence |
|---|---|---|
| `BoundedQueue` | what `sync_fifo` promises | `queue` for the RAM, pointers and level |
| `SyncFifo` | `rtl/common/sync_fifo.sv` | `Clock` is an edge with the two enables as parameters; `RamPorts` is the always block without reset, `Pointers`, `Occupancy` and the flags the one with it |
| `AesService` | what `aes128_core` promises | `left` counts the edges to the result |
| `AesCore` | `rtl/aes/aes128_core.sv` | one action per arm of the state machine; data are symbolic (below) |
| `CtrMask` | `rtl/ctr/aes128_ctr_mask.sv` | `Abort`, `Configure`, `Run`, `Idle` are the arms of its always block |
| `Keystream` | counter mode, byte by byte | |
| `CtrStream` | `rtl/ctr/aes128_ctr_stream.sv` | extends `CtrMask`, which it instantiates, so its own actions are named `Stream...`; `StreamRun(used)`: `used` is the RTL's `transfer` |
| `TxPort`, `RxPort` | byte side of `uart_tx`, `uart_rx` | durations in clock edges, the line abstracted |
| `UartTx` | `rtl/uart/uart_tx.sv` | `Start`, `Rest`, `HoldBit`, `NextBit`, `EndFrame` are the branches of its always block |
| `UartRx` | `rtl/uart/uart_rx.sv` | one action per state and per outcome of `bit_timer == 0`; `Edge(rx)` is an edge with the line at level `rx` |
| `UartNoise` | the receiver on a line that may do anything | any level at any edge, reset at any time |
| `UartLink` | a transmitter and a receiver on one line | two clocks, each step one or both of them; extends `UartRx`, so its own specification is `LinkSpec` |
| `CtrChannel` | what the bridge promises end to end | `incoming`: what the receiver shows (`rx_done`, `rx_data`); `owed`: received and not yet sent; `line`, `remaining`: the frame being sent and its edges to come |
| `UartCtrBridge` | `rtl/bridge/uart_ctr_bridge.sv` | combinational wires are operators of the same names; `Abort`, `Fault`, `Configure`, `Run`, `Idle` in the RTL's priority |
| `ContextTop` | `de10_lite_uart_ctr_top.sv`, `reset_sync.sv` | `Press` is KEY0's asynchronous effect, between any two edges |
| `ContextRegistry` | `context.py` | a process is one run of a command; a step is a system call another process or a crash can get in between |
| `BenchLedger` | the same, with `render_context_sv` and the board | the board's guard is that of `ContextTop`, forgotten when it is programmed |
| `SerialLine` | board, line and the system's queues (external) | a byte names the byte it answers and its keystream position |
| `Capture` | `capture.py` | `Arm` opens, sets and flushes; `ReadPorts`, `LeaveLoop` are a turn of the loop; `Compare` is the third command |
| `SerialBench` | `serial_bench.py` | `Exchange` is a turn of the send and receive loop, `GuardRead` one of the guard time |
| `BuildManifest` | `bench_build.py`, `build_manifest.py` | one action per file written or program run, each may fail; `verify(require_complete)` is the function |
| `UartDecoder` | `UARTDecoder` | `feed` scans the runs of equal level of a chunk one after the other (`Scanned`, a recursive function); the frame in progress is carried to the next chunk |
| `DigitalRecord` | `record` and `DigitalRecordReader` | the two threads; `Poll` is a turn of the reader, `Turn` of the main loop |
| `Evidence` | `analyze`, `summarize`, `export`, `check_export` | `assess`, `summarize`, `check_export` are the functions' conditions |
| `GpsFixture` | `gps_fixture.py` and what uses it | `parse_window` and the other functions by name, on abstract bytes |
| `SyncFifo_proofs`, `AesCore_proofs`, `CtrStream_proofs`, `Uart_proofs` | theorems on the units | `Uart_proofs`: receiver alone, then the line |
| `ContextTop_proofs` | theorems on the bridge, then the board | |
| `BenchLedger_proofs`, `SerialBench_proofs`, `Evidence_proofs` | theorems on the scripts | |
| `MC*` | values of the constants for TLC | |

Conventions.  A step is a rising clock edge, with the inputs sampled at it
chosen by the environment, or the asynchronous assertion of the reset.
Non-blocking assignments become primed variables: right-hand sides see the
values before the edge, and where the RTL assigns twice the later one wins.
Edges with reset asserted change nothing and are stuttering steps.  The
`ENABLE_AES` parameter of the bridge is a variable that never changes, so that
one run covers both elaborations.

Data are symbolic.  `Enc` is an uninterpreted function from key and block to
mask, which TLC instantiates as the free (identity on pairs) function, so that
two masks are equal only if key, nonce and counter are.  A transmitted byte is
the pair of payload byte and keystream byte; the XOR is not computed.  `Clear`
is a register holding zero.  In `AesCore` a data block is the sequence of
operations applied to the plaintext, and a round key the sequence of round
constants applied to the key: the module is about the *order* of operations.

In the scripts a digest is the content of the file itself with a version that
an edit raises, so digests are equal exactly when contents are.  A context is a
record of identity, mode and a body.  Deadlines are an `expired` flag that may
be raised at any moment.  In `DigitalRecord` a chunk is named by the positions
of its samples, so that a lost, doubled or misplaced sample shows.  In
`GpsFixture` a byte is a number, the two digits of a checksum are one byte, and
the checksum itself is computed.

Some definitions are marked "Mutant": each is the definition that follows it
with one plausible bug, kept to show that the properties notice.

## 3. Runs

| Run | Instance | Question |
|---|---|---|
| `sync_fifo` | DEPTH 4, 2 values; 2621 states | Is the ring a queue, in every mix of reads, writes and resets? |
| `aes_core` | 10 rounds, 2 keys, 2 blocks; 255 states | Are the operations those of FIPS-197, in order, in 20 edges? |
| `ctr_stream` | 3-byte masks, counters 0..3, 2 keys, 2 nonces, latency 4; 457 states | Do masks come in order, under this context only, and stop? Is the byte port the keystream? |
| `bridge` | both elaborations, DEPTH 4, 2 values, FRAME 4, latency 5; 48168 states | Is the bridge a lossless in-order channel, per session? |
| `top` | one value, counters 1..3, KEY0 at any time; 2609 states | Can KEY0 ever reuse a keystream byte? Does data keep moving? |
| `top_nominal` | a source no faster than the line; 3216 states | Does only the end of the keystream overflow the FIFO? |
| `uart_noise` | 8 clocks per bit, 2 data bits; 46551 states | What does the receiver promise on a line that may do anything? |
| `uart_link` | 8 clocks per bit, 8 data bits, clocks 3 edges apart; 7214 states | Does every byte cross the line intact? |
| `bench_ledger` | 4 processes, 2 paths, 1 key, 2 nonces; 461686 states | Can a keystream block be granted or streamed twice? |
| `serial_tools` | 2 bytes, 2 transactions, 2 faults; 119112 states | Do files, verdicts and the line agree? Does every tool end? |
| `acquisition` | 13 samples, chunks of 3 and 5, queue of 2, 2 edits before and 1 after; 950952 states | Does a CAPTURED, a PASS, an export rest on what happened, when the context file is replaced, and put back, while a command reads it? |
| `gps_fixture` | 3 sentences, 1 fault at any byte; 261914 states | Is what is validated and replayed what the GPS sent? |

What the properties say:

* `sync_fifo`: `PointersAgree` (write pointer = read pointer + level, peak not
  below level), `ImplementsQueue` (refinement of `BoundedQueue`).
* `aes_core`: `ImplementsService` (refinement of `AesService`, whose result is
  the sequence of operations of FIPS-197).
* `ctr_stream`: `HeldMaskIsNext` (so a result left over from an aborted context
  is never taken for ours), `CounterNeverSkips`, `ImplementsKeystream`,
  `ExhaustedAtTheEnd`, and the liveness properties `AbortDrains` and
  `ByteKeepsComing`.
* `bridge`: `SessionsAgree` (control, cipher and datapath agree on whether
  there is a session), `FifoNeverDrops` (the bridge's copy of the FIFO's full
  condition is exact), `OverflowSeenInPeak`, `ImplementsChannel`.
* `top`: `BytesMarkContext`, `KeystreamUsedOnce` (the auxiliary `spent` records
  every keystream byte sent since power-up), and the liveness properties
  `RearmsUnlessUsed` and `HeldByteLeaves`.
* `top_nominal`: `KeepsUpWithSource`.
* `uart_noise`: `ImplementsPort` (the spacing of pulses that `RxPort` allows
  the bridge to rely on), `SilentUntilIdle` (a break is one error, and nothing
  follows it before a whole idle bit).
* `uart_link`: `TxImplementsPort` (the transmitter is `TxPort`, ten bit times and
  an edge), `CrossesIntact`, `ByteArrives` (liveness).
* `bench_ledger`: `KeystreamClaimedOnce` and `KeystreamStreamedOnce` (no
  keystream is granted, or streamed, twice), `ClaimIsOnDisk` (a grant outlives
  a crash of the tool it was given to), `RegistryOnlyGrows` (action property).
* `serial_tools`: `FileIsWhatArrived`, `PassMeansEveryByteAnswered`,
  `ReportSpeaksOfTheFile`, `EveryToolEnds` (liveness).
* `acquisition`: `VerifiedBuildIsWhole`, `ClaimedContextIsInTheBitstream`;
  `SamplesInOrder`, `DecodedAsOnePiece` (how samples are cut into chunks makes no
  difference), `CapturedIsClean`, `RecordEnds` (liveness); `SummaryRestsOnBytes`,
  `ExportIsTheCapture`.
* `gps_fixture`: `BenchDataIsSent` (what a report, a replay and a runbook hold
  is a passage of what was sent, from one sentence end to another).

Four of them leave open what the code leaves open.

* `ImplementsChannel`: a frame holds the line for exactly `FRAME` edges, and
  every byte the receiver shows is owed from the next edge on; but a session may
  end at any edge (abort, fault, reset), and then the frame on the line is cut
  short and what is owed is discarded, as `datapath_rst` does.
* `ClaimedContextIsInTheBitstream`: `build` reads the context file at lines 34,
  43 and 49 and `record` at 333, 337 and 343, and no lock keeps it as it is.  The
  history variable `swaps` counts the replacements between the first and the
  last read of either command, putting an earlier content back included.  With
  none of either, claim, report and bitstream agree, whatever was done before,
  between and after the commands.  With one in the build they still do, unless
  the build was started with an altered copy of the very context that is later
  claimed.  With two, the file may be another one only while it is rendered: the
  build is then bound to a context it does not carry, and nothing before the
  analysis of the recorded bytes can tell.  With one in `record`, after the check
  of the binding, the report names another context than the one that is claimed.
* `SummaryRestsOnBytes`: `summarize` compares the context that the report names
  with the campaign's, and not what `claim_capture` returned.  So a context that
  came in place of another at line 343 can get a PASS without a claim of its own,
  if its bitstream was on the board.  The property promises the board in any
  case, and the claim if the report has it for this context.
* `ExportIsTheCapture`: `export` asks the registry for the identity only, so an
  altered copy of a started context may be published.  What is promised is that
  no capture can be started for what is published: the registry has it as
  started, or has no such context.

`VerifiedBuildIsWhole`, besides, requires the reports whose names are patterns
only if the flow left them, as `verify` does.

### Bounds, and why they are enough

* FIFO of 4 (2 in `top_nominal`): a power of two, as the RTL requires, with
  room for pointers to wrap and for empty, partly full and full.  Depth does
  not matter beyond that, which `FifoImplementsQueue` proves.
* Masks of 3 bytes instead of 16: first, middle and last byte differ.
* Counters up to 2..4 instead of 2^32-1: start in the middle, step, saturate.
  `CounterInOrder` and the stream's theorems prove it for every bound.
* Latencies: shorter *and* longer than the time to use a mask, so the stream
  both stalls and runs without a gap.  `top_nominal` has the real ordering, in
  which a mask is ready before the previous one is used up.
* `FRAME`, `RX_GAP`, `RX_REARM`: the serial ports' times in clock edges.  In
  `bridge` and `top` the source may be faster than the line (`RX_GAP` 2 against
  `FRAME` 4) to fill the FIFO.  In hardware they are some 52000 edges each,
  against 22 of the cipher; the models keep the order of these numbers only
  where a property depends on it (`top_nominal`).
* 8 clocks per bit is the least the RTL accepts, and the hardest: there is no
  finer division of a bit.  On the noisy line the data bits play no part in
  when a pulse may come, so two of them stand for eight.  On the link the
  bytes are a few patterns, with runs and alternations of bits.
* A drift of 3 edges per frame, half a bit less one: with 4 a byte is lost, so
  the bound is the receiver's own.  The link starts with the receiver armed on
  an idle line, because a receiver that comes out of reset in the middle of
  a frame may well take it for another one; `uart_noise` starts from reset.
  The idle bit is counted after the synchroniser, whose two stages are preset
  high: after a reset two of its samples are not of the line.
* Two values of each datum show any confusion between two of them.
* Four commands on the registry: two that make contexts of overlapping
  keystream and two that claim them, or one that comes after another's crash.
  Of four counter blocks a request takes one or two, so requests can overlap,
  meet end to end, or run past the limit.  The proofs cover every number of
  everything.
* Two bytes and two transactions: a byte short, a byte too many, and an answer
  that slips into the next transaction.  `MAX_NOISE` 2 lets a lost byte be made
  up for by a noise byte, which must not pass.
* Two and a half samples to a bit, since the real period is no whole number
  either, and a frame of one data bit: chunks of 3 and 5 cut it at many places,
  and a warm-up of 3 and an idle time of 2 end inside chunks and between them.  The queue of 2
  fills up.  The waves are one for each thing that matters to the verdict:
  bytes that agree, that differ, a broken stop bit, activity too early, and
  a board with the bitstream of a registered context or of an altered copy,
  whichever was compiled.
* Two edits of what a build and an acquisition read, at any moment until the
  acquisition has the hardware (`MAX_EDITS`): the least with which a context can
  be replaced and put back.  One more after it, of a file of the capture or the
  export, or the context (`MAX_LATE`).  As the hardware is taken, what nothing
  reads any more is forgotten: sources, build, counts.  A campaign is planned
  for the context that has an altered copy or for a baseline one (`Planned`).
  Contexts are contents, so an earlier one may come back.  Sources, artifacts
  and results carry a version that only grows: that none of them returns to an
  earlier content is assumed.  A source that is edited while it is compiled and
  put back before `finish` would go unnoticed, as the manifest has digests of
  before and after only, and `VerifiedBuildIsWhole` does not speak of it.
* One fault in a capture.  Two may make up for each other in a checksum of one
  XOR, which no reader of the format can tell.  A maximum length of 7 admits
  both kinds of sentence, 6 only the shorter.  The replay sizes are below one
  cycle and several cycles with a part of one.

### Fairness

The only fairness is that the clock keeps ticking.  Plain weak fairness of the
clock edge would say too much: where every edge without a request leaves the
registers as they are, it would force the environment to make a request, and a
design that waits for ever for nothing would be rescued by an abort that nobody
asked for.  The fairness condition is therefore guarded by `ENABLED
<<QuietEdge>>`: time may stop only in a state that an edge without requests
would not change, and no request is ever forced.  Inputs (KEY0, `abort_req`,
bytes arriving, bytes taken) are under no fairness: `ByteKeepsComing` and
`HeldByteLeaves` hold whatever they do, and `RearmsUnlessUsed` states its own
premise that KEY0 is let go for good.  On the link each of the two clocks is
fair by itself, and no byte is forced on the transmitter.

For the scripts fairness says that a running process is scheduled and that time
passes: `Spec` of `SerialBench` has weak fairness of the steps of the tools and
of their deadlines, `Spec` of `Evidence` of the timeout and the end of the main
thread and of the reader thread's start and stop.  The line, the board, the
operator and the analyser owe nothing: a poll may find no sample for ever.  A
process that waits for the registry's lock is under no fairness, and no
property asks when it gets it.

Safety runs use no fairness.  Deadlock is checked in every run of the hardware,
where some edge is always possible.  The runs of the scripts do not check it:
commands end, and their number is bounded.

## 4. Proofs

| Theorem | States | For every | From |
|---|---|---|---|
| `SyncFifo_proofs!FifoInvariant` | `PointersAgree` | depth, data set | `DepthAssumption` |
| `SyncFifo_proofs!FifoImplementsQueue` | `ImplementsQueue` | the same | the same |
| `AesCore_proofs!CoreImplementsService` | `ImplementsService` | number of rounds, keys, blocks | `CoreAssumption` |
| `CtrStream_proofs!MaskInvariant` | `HeldMaskIsNext` | counter range, latency, keys, nonces, cipher | `MaskAssumption` |
| `CtrStream_proofs!CounterInOrder` | `CounterNeverSkips` | the same | the same |
| `CtrStream_proofs!StreamInvariant` | types, bytes in place | the same, and mask length | `MaskAssumption`, `StreamAssumption` |
| `CtrStream_proofs!StreamEndsAtTheEnd` | `ExhaustedAtTheEnd` | the same | the same |
| `CtrStream_proofs!StreamImplementsKeystream` | `ImplementsKeystream` | the same | the same |
| `CtrStream_proofs!StallIsBounded` | the bound behind `ByteKeepsComing` | the same | the same |
| `CtrStream_proofs!DrainIsBounded` | the bound behind `AbortDrains` | counter range, latency, keys, nonces, cipher | `MaskAssumption` |
| `Uart_proofs!ReceiverSilentUntilIdle` | `SilentUntilIdle` | bit time, number of data bits, line | `RxAssumption` |
| `Uart_proofs!ReceiverImplementsPort` | `ImplementsPort` | the same | the same |
| `Uart_proofs!BytesCrossIntact` | `CrossesIntact` | bit time, number of data bits, bytes, drift | the same, `LinkAssumption` and `TOLERANCE + CLKS_PER_BIT \div 2 < CLKS_PER_BIT` |
| `Uart_proofs!TransmitterImplementsPort` | `TxImplementsPort` | bit time, number of data bits, bytes | `RxAssumption`, `LinkAssumption` |
| `Uart_proofs!ArrivalIsBounded` | the bound behind `ByteArrives` | as `BytesCrossIntact` | as `BytesCrossIntact` |
| `ContextTop_proofs!SessionInvariant` | `SessionsAgree` | depth, frame length, serial timing, bytes, cipher, build | `BridgeAssumption` |
| `ContextTop_proofs!OverflowIsExact` | `FifoNeverDrops` | the same | the same |
| `ContextTop_proofs!OverflowIsSeen` | `OverflowSeenInPeak` | the same | the same |
| `ContextTop_proofs!BytesKeepOrder` | order of the bytes | the same | the same |
| `ContextTop_proofs!BridgeDrivesCipher` | the cipher inside is `CtrStream` | the same | the same |
| `ContextTop_proofs!BridgeImplementsChannel` | `ImplementsChannel` | the same | the same, `MaskAssumption`, `StreamAssumption` |
| `ContextTop_proofs!UseIsMarked` | `BytesMarkContext` | the same, and the context in the bitstream | `BridgeAssumption`, `ContextAssumption` |
| `ContextTop_proofs!KeystreamSpentOnce` | `KeystreamUsedOnce` | the same | the same, `CipherIsOneToOne`, and `BUILDS = {TRUE}` |
| `ContextTop_proofs!SourceIsKeptUpWith` | `KeepsUpWithSource` | the same | `BridgeAssumption`, `ContextAssumption` and `InTime` |
| `ContextTop_proofs!HeldByteIsBounded` | the bound behind `HeldByteLeaves` | the same | `BridgeAssumption`, `ContextAssumption`, `MaskAssumption`, `StreamAssumption` |
| `BenchLedger_proofs!BenchInvariant` | `KeystreamClaimedOnce` | processes, paths, keys, nonces, requests | `RegistryAssumption` |
| `BenchLedger_proofs!GrantIsOnDisk` | `ClaimIsOnDisk` | the same | the same |
| `BenchLedger_proofs!NothingStreamedTwice` | `KeystreamStreamedOnce` | the same | the same |
| `BenchLedger_proofs!RegistryGrows` | `RegistryOnlyGrows` | the same | the same |
| `SerialBench_proofs!RecordingIsAPrefix` | `FileIsWhatArrived` | reference, byte count, loss, noise, way of handing out bytes | `ReferenceAssumption`, `CountAssumption` |
| `SerialBench_proofs!PassIsEarned` | `PassMeansEveryByteAnswered` | the same, and number of transactions | the same, `TrialsAssumption` |
| `SerialBench_proofs!ReportMatchesFile` | `ReportSpeaksOfTheFile` | the same | the same |
| `SerialBench_proofs!DeadlinesAreKept` | the bound behind `EveryToolEnds` | the same | `TrialsAssumption` |
| `Evidence_proofs!BuildIsWhole` | `VerifiedBuildIsWhole` | contexts, edits | none |
| `Evidence_proofs!CaptureIsClean` | `CapturedIsClean` | contexts, streams, queue, chunks, byte count | `RecordAssumption` |
| `Evidence_proofs!ClaimedContextIsBuilt` | `ClaimedContextIsInTheBitstream` | contexts, edits | `RecordAssumption` |
| `Evidence_proofs!SummaryIsEvidence` | `SummaryRestsOnBytes` | contexts, streams, queue, chunks, byte count, edits | `RecordAssumption`, `WindowAssumption` |
| `Evidence_proofs!VerifiedExportIsTheCapture` | `ExportIsTheCapture` | the same | the same, and `MAX_LATE \in 0..3` |
| `Evidence_proofs!StoppedRecordEnds` | the bound behind `RecordEnds` | contexts, streams, queue, chunks, byte count | none |
| `Evidence_proofs!SamplesKeepOrder` | `SamplesInOrder` | streams, queue, chunks | `ChunksAssumption` |
| `Evidence_proofs!DecodingIsOnePiece` | `DecodedAsOnePiece` | streams, queue, chunks, bit period, frame width, warm-up, idle time, byte count | `ChunksAssumption`, `SamplesAssumption`, `DecoderAssumption` |

What the assumptions ask.  `CipherIsOneToOne`: under one key and nonce no two
counters give the same mask, as AES is a permutation; a byte of keystream is
identified by the mask it is from.  `BUILDS = {TRUE}`: the baseline build uses
no keystream.  `WindowAssumption`: a byte to be decoded has at least one level
in its window.  `SamplesAssumption`: a sample is a pair of levels 0 or 1, and
the two durations, which the code rounds up to whole samples, are at least one.
`DecoderAssumption`: among ranges of numbers, that the mark of a decoder without
a frame is not the number of a sample.  `TrialsAssumption`: there is a
transaction, as `--trials` must be positive.  `ReferenceAssumption`: the values
of the reference are not the names of ports.  The rest are ranges of numbers.

*FIFO.*  `PointersAgree` alone is inductive together with the types, but says
nothing of the data: the invariant adds `ContentsWritten` (every word between
the pointers has been written) so that what a read returns is a byte.  The
refinement maps the queue to `Contents`, the words from the read pointer on;
the lemmas say how it changes when a byte is appended, removed or both, by
comparing the two functions slot by slot, pointers wrapping included.  Each
step of the ring is then one step of the queue.

*Engine.*  `RoundInv` says which operations have been done at the beginning of
each half of a round (`Progress`: the first n of the standard's list) and which
round key has been expanded beside the data.  The two pipelines meet only in
`AddRoundKey`, so this is what keeps them in step; the last round leaves one
operation out, which is why the theorem needs two rounds at least.

*Mask generator.*  What must be true of a held mask depends on what is in the
engine, so the invariant relates both: a block in flight is the next counter's
and is either still running or has just finished (`ExpectedResultIsOurs`); the
flags agree (`pending_last` and `last_issued` say whether the counter has
saturated); and an engine that has a valid key with a context open has *this*
context's key.  `HeldMaskIsNext` follows at the edge of capture from
`ExpectedResultIsOurs`, which is why it is not inductive alone.
`CounterInOrder` reads the action property off the same invariant, step by step.

*Stream.*  The invariant is the generator's with `MaskBytesInPlace` and, for
the registers by themselves, `LanesOK`, which also says that the bytes left
belong to a counter that exists: without it an offered byte could not be told
from `Clear`.  The generator's lemmas give `GeneratorRun`: an edge of an active
context keeps key and nonce and advances `NextMask` exactly if a mask is taken.
Three lemmas then say what loading, shifting and keeping do to the bytes, and
three more map the same edges to `Offer` or `Use` of `Keystream`, or to a
stutter.  Since the generator is composed by its own actions, not by an
abstraction of it, the theorem is about the two RTL units together.

*Receiver.*  `IdleOK` says that while the receiver waits its bit timer *is* the
idle time seen, and that every other state has seen a whole idle bit.  `WaitOK`
bounds what the port still has to wait by `Until`, the edges the state machine
needs before it can sample a stop bit; each edge lowers `Until` by one at most.

*Line.*  `LinkInv` counts the edges of both ends since the frame began:
`Elapsed` of the transmitter, and `Elapsed - drift` of the receiver, whose
state, timer and bit index are a function of that number (`InStart`, `InData`,
`InStop`).  `LineIsSeen` is the heart: half a bit time after a bit's nominal
beginning by the receiver's count, the line shows that bit, because the drift
is less than what is left of the bit on either side.  Two stages of the
synchroniser later it is the sample.  Between two frames the byte before may
still be in the receiver: `Waking` says so, and it is why two bytes can be under
way at once.  The tolerance of the theorem is the one beyond which TLC finds a
lost byte.

With these, every unit that the bridge is composed of by its specification is
proved to implement it: `RxPort`, `BoundedQueue`, `TxPort` and, below the
stream, `AesService`.

*Bridge.*  The invariant has a part for each thing that must agree: control and
cipher on whether there is a session, an ended session with an empty datapath,
the queue with its two peaks, and the holding register with the read in
progress (a byte read has a place kept free, `HoldOK`).  That `overflow_now`,
made from the bridge's own signals, equals the FIFO's refusal is `RunFifo`: the
byte that finds the FIFO full is met by a read.  `BytesKeepOrder` follows
register by register (held, just read, neither) with the theorems on sequences.
`BridgeDrivesCipher` says that whatever the bridge does is a step of
`StreamSpec`, so the stream's lemmas, cited through `Facts` (an instance of
`CtrStream_proofs`), hold of the cipher inside the bridge.
`BridgeImplementsChannel` puts the two halves together: at each edge the channel
takes the byte that arrives, sends the oldest one owed with the keystream byte
that is next, or closes; the byte sent is the one `OldestSent` names, the
keystream byte the one at the stream's position (`PositionMoves`).

*Board.*  `BytesMarkContext` is inductive once the bridge's invariant is there:
a byte that arrives marks the context at the edge at which it enters the FIFO
(`RunTop`), all others were under way before, by `RunInOrder`.
`KeystreamSpentOnce` adds `SpentIsPassed`: what has been spent lies before the
stream's present position in the one context the board ever loads, and a
context whose keystream has been touched is marked, so it is not loaded again.
A keystream byte is a mask and a lane; that the positions are told apart by
their masks is where `CipherIsOneToOne` comes in.

*Pace.*  `KeepsUpWithSource` is about three clocks at once: the source, the
line and the cipher.  The invariant is a schedule.  The next byte waits for the
line (`tx_left` edges), for its own way through FIFO and holding register
(`FetchIn`) or for a keystream byte (`KeyIn`); whichever it is, that time and
the time all waiting bytes take on the line together stay within the edges the
source still leaves (`Grace`, a frame at most) and the one stall of a session,
from configuration to the first mask (`NoLater`).  For that the cipher must not
stall a second time: while a mask is in use the next one is nearer than the last
byte of the present one (`KeepsPace`), because one encryption fits into the time
a mask's bytes take.  A byte refused would find `DEPTH + 2` others before it,
and those would be late.  `InTime` states what the constants must satisfy: a
frame of three edges or more; `RX_GAP >= FRAME`, one edge to spare per byte; an
encryption shorter than `BLOCK_BYTES` bytes on the line; and a FIFO with room
for what arrives before the first mask.  The values of `top_nominal` meet it with
one edge in hand (`LATENCY + 4` is 14, `(DEPTH + 1) * ByteTime` is 15); with 16
bytes to a mask, 1024 in the FIFO and frames of ten bit times the board meets
all of it by orders of magnitude except the spare edge, which is the sender's to
leave: from one that sends without a pause at exactly the receiver's bit time
the backlog grows by an edge per byte.

*Registry.*  The argument is mutual exclusion.  `ProcOK` says of each process,
by where it is, what it knows: one that holds the lock and is about to write
has in memory exactly the registry that is on disk, and one about to register
has seen that no entry has its keystream.  `RegistryUnique` (no keystream has
two entries) is what makes claims unique: a claim goes through an entry, marks
it, and a marked entry is never granted again.  Crash, failed write and
rollback are steps like any other; each leaves either the old registry or the
new one.  `NothingStreamedTwice` adds that what was streamed was granted.
`RegistryGrows` is read off the same invariant.

*Serial tools.*  `SerialInv` has six parts.  `RecordInv` is `FileIsWhatArrived`
at every step: what is stored of a port is the beginning of what arrived there,
and nothing of before the flush is in it.  `BenchInv` is the same for the
bench, where a byte taken from the port is in the file, in the answer being
collected or among the extra ones, in this order.  `OrderInv` says that a byte
of the board stands at the place of its number as long as no noise came before
it, and that in between none was lost.  A PASS then compares as many bytes as
were sent, and none of them is noise, since noise equals no byte of the
reference: so no byte was lost either, and each is the answer to its own.

*Build.*  `MadeOK` bounds the version an artifact was made from by the version
the manifest was begun with and the version of now; `verify` compares the outer
two, so all three are equal when it passes.  *Capture.*  `CleanInv` follows
CAPTURED from the turn of the loop that sets it through the join to the report:
only after the join can no error come any more, and there `Finalize` looks at
it. *Binding.* `BindInv` says what the context file, the context the build
read, the parameters and the binding have in common, by how many replacements
`swaps` has counted in the build: with none all reads agree; with one, two
neighbours of the three still do, so the parameters are those of the first read
or of the last. `ClaimInv` does the same for the three reads of `record`, and
carries it to the claim. `SwapsCount` says how an edit counts. At the claim the
binding names the context claimed, and identities are unique in the registry:
the first read can differ from it only as a copy that no registry has.

*Samples.*  `SampleInv` says that the blocks in the queue are consecutive, each
beginning where the one before ends, and the first where the file ends; that
their concatenation is then one run of positions is shown by induction over
the blocks (`WFMin` on the set of prefixes for which it fails, which needs no
operator parameter).

*Decoding.*  That chunks make no difference is shown sample by sample.  A scan
of a run of equal levels first lets the frame in progress sample what bits fall
into the run (`drain`), then looks at the level.  `DrainAgain` says that to
drain up to a sample and then up to a later one is to drain up to the later one;
with it `ScanAgain`: a run cut in two is scanned to the same decoder, since the
second part finds the level it knows.  `ScannedSample` adds one sample to what
`Scanned` has gone through, and `FeedInTwo` is then an induction over the second
chunk, by the least sample at which two feeds and one feed differ.  In the same
way `FeedStarts` says that every frame start is the last high sample before a
low one.  `PieceInv` carries it through the loop: until the warm-up has passed
nothing was fed to the decoders of the record, afterwards they hold one feed of
what `samples.bin` has beyond it (`AfterWarmup`: the part of a chunk that
preflight keeps from them is the part of the file that is in the warm-up).

*Evidence.*  `FilesInv` says of each file whether it is the one that was written
or an edited one, and a digest of an edited file is of no file written.  A
summary compares digests taken at different times, so what it rests on is the
chain from the recording to the report.  What the report says of the claim is
true of the registry (`ClaimMade`), whatever it says of the context; only where
both name the same registered context are they about one thing, since there an
identity has one content.  That the bitstream on the board was this context's is
not handed down at all: it is read off the bytes (`SentenceIsRecovered`).
*Export.*  Each of the four files that
`check_export` compares was copied from a file of the capture, or from an edited
one: `ExportInv` and `CopyInv` count the edits.  To make the four agree on
something else takes four edits after the acquisition; the theorem allows three
(`FewEdits`), and any number before.

*Bounds.*  Liveness needs fairness and `ENABLED`, out of reach of this prover,
but most of these properties have a count that cannot rise behind them, and
that is proved.  `ByteIn` and `DrainIn` are the edges to the next keystream byte
and to a free engine, by the state of the generator; `LeavesIn` is the larger of
the line's wait and the cipher's for the byte in the holding register, and an
edge lowers all three by one.  `ArrivesIn` is read off the state of the
receiver, which only the receiver's clock moves.  `StagesLeft` counts the parts
of a command, two of them to a transaction: no step raises it, and where a
deadline runs the first step of the command after it lowers it.  `StepsToExit`
counts, once the main loop of `record` has been left, what both threads still
have to do; `StopInv` says that the loop is never left without telling the
reader, and that the analyser is open at most until `Finalize`.  What is left
to fairness is that the edges and steps happen, and in `RecordEnds` that the
timeout ends the loop.

Only model-checked: liveness itself (`AbortDrains`, `ByteKeepsComing`,
`RearmsUnlessUsed`, `HeldByteLeaves`, `ByteArrives`, `EveryToolEnds`,
`RecordEnds`), of which the proofs have the bounds just named (for
`RearmsUnlessUsed`, only that the engine is free after an abort); and
`BenchDataIsSent`, which rests on the XOR of a checksum, computed with a module
that has no counterpart in the prover, and on folds over whole sentences, and
which holds for one fault in sentences of these kinds, not for any alteration
of any file.

## 5. Not modelled, and why

* The arithmetic of AES (S-box, MixColumns, key expansion) and the XOR: pure
  functions, covered in the repository by published vectors.
* Metastability, timing closure, power: not behaviours of the source text.
* The LEDs' toggles and heartbeat: display only.
* Vendor libraries, Quartus, report processing (`power_analysis.py`,
  `fpga_metrics.py`, `timing_review.py`, `manuscript_check.py` and others),
  the paper, `reference/uart-v1`: text in, tables out, or superseded.
* The default arm of `aes128_core`'s state machine: its two bits encode four
  states, all used, so no sequence of steps reaches it.
* Of `long_campaign.py` the batch of `prepare`: it calls `create` and the build
  of other modules in a loop.  Of `replay_campaign.py` its checks of contexts
  and builds, which repeat those of `record`, and the command lines it writes.
* Statistics: what `frame_metrics` computes from the starts of frames, beyond
  whether it has something to compute, and the counts in reports.
* File modes and JSON: an unreadable file is one whose writing was broken off
  (`Torn`).

Some hazards of the scripts are known and no property is about them.  `analyze`,
`summarize` and `export` read the context file, and `analyze` and `summarize`
also `acquisition.json`, and digest them a moment later or before, in the model
one step: what is said of their verdicts is said of the files as they were at
that moment, and the tools that come after read them again.  Bytes beyond the expected count that
come with the last ones are cut off before the comparison, deliberately.
READY may be printed while older chunks wait in the queue; when the operator
reacts is outside the program.  A failing flush in `serial_bench.py` leaves a
port with changed settings, which no datum depends on.  `replay_campaign.py`
digests the replay once more after it has checked it (`runbook` keeps both),
and nothing compares the two.

## 6. Plan

What is left, in this order.

1. `prepare` of `long_campaign.py` over `ContextRegistry` and `BuildManifest`:
   a batch that fails half way.
2. AES transforms against a GF(2^8) definition, by TLC.

## Running

    tlc -config MCUartCtrBridge.cfg MCUartCtrBridge
    tlc -config MCBenchLedger.cfg MCBenchLedger
    tlapm SyncFifo_proofs.tla
    tlapm ContextTop_proofs.tla
    tlapm Uart_proofs.tla
    tlapm BenchLedger_proofs.tla
