# Models, checks and proofs for C_Program

`src/` is a collection of C programs. Nearly all of its own logic is
serial-line communication: the terminal emulator **qodem** with its file-transfer
protocols, the bidirectional **HydraCom**, **JModem**, the **MCOMM** terminal and
its Zmodem sender, and **PLINK**. This directory models them in TLA+, one
component after the other. It holds four of them: qodem's Xmodem transfers (the
sending program, the receiving program, the line between them, and the loop that
ends a download), HydraCom's Hydra sessions (two programs that send each other
a batch of files at the same time, over any number of sessions), qodem's Zmodem
batches with their crash recovery, and its Kermit batches with their windows. TLC checks small
instances; TLAPS proves the safety properties of the first three, and the refinements of
their abstract specifications, for all files, batches, lines and limits, each under the
assumptions section 5 names.

## 1. Inventory

No program here has threads. Each is an event loop over a serial line or socket;
the concurrency is between the *two programs at the two ends of the line* (and a
user at each keyboard), and the hard behaviour is what such programs are famous
for: bytes lost, damaged, cut into arbitrary reads, answers that cross timeouts,
retries of what was already done, two state machines that each guess the state
of the other.

| Component | Source | State it keeps | Operations | Hard behaviour | What makes it correct |
|---|---|---|---|---|---|
| Xmodem | `qodem/source/xmodem.c` | `state`, `prior_state`, `flavor`, `first_byte`, `current_block`, `current_block_number`, `current_block_sequence_i`, error and timeout counts, timer, `file` | `xmodem()` → `xmodem_send()` / `xmodem_receive()`, `construct_block()`, `verify_block()`, `check_timeout()` | lost ACKs, noise, fallback to vanilla Xmodem on either side, streaming (-G), resent EOT | the file received is the file sent; SUCCESS is true; every transfer ends |
| Xmodem end of file | same, 1664–1713 | stream position, `last_byte` | the loop that cuts SUB padding | position and size drift apart; no bound of its own | cuts the padding and nothing else, ends |
| Ymodem | same file | also block-0 states, `upload_file_list`, `download_path` | block 0, batch, terminator | per-file handshake on top of Xmodem's | every file of the batch arrives under its name, once |
| Transfer dispatch | `protocols.c` | `q_program_state`, `q_transfer_stats` | `protocol_process_data()`, `start_/stop_file_transfer()`, ESC handler | user aborts between two handler calls | a handler never runs after its transfer ended |
| Main loop | `qodem.c` | raw and transfer buffers | `process_incoming_data()`, `select()` loop | partial writes, calls repeated while there is output | bytes in order, none dropped or sent twice |
| Zmodem | `zmodem.c` | one state per header awaited, file position, `ack_required`, `waiting_for_ack`, `streaming_zdata`, `blocks_ack_count`, error and timeout counts, `packet_buffer`; the receiver's disk | `zmodem()` → `zmodem_send()` / `zmodem_receive()`, ~20 state handlers, `parse_packet()`, `setup_for_next_file()`, `check_timeout()` | rewind by ZRPOS while data still streams; ZACKs inside and after a frame; crash recovery by length and CRC; renaming; headers broken off | what is complete is the file; no other file is touched; resumes at the offset both agree on; every transfer ends |
| Kermit | `kermit.c` | one state per packet awaited, `sequence_number`, `input_window` (a ring of packets and gaps), `output_window`, negotiated parameters, file position, timeout count | `kermit()` → `decode_input_bytes()`, `check_for_repeat()`, `save_input_packet()`, `move_windows()`, one handler per state, `nak_packet()`, `handle_timeout()` | sliding windows with 6-bit sequence numbers; gaps; NAK of a lost packet and of the next; repeats answered from a kept reply; RESEND; streaming without NAKs | packets reach the file in order, all, and once; what may be asked for again is kept; success is true; every transfer ends |
| Dialer, modem | `dialer.c`, `modem.c` | dial state, cycle timers, modem buffer | dial, redial, hang up, answer | timeout racing CONNECT/BUSY | one number dialled at a time; redial stops |
| Host mode | `host.c` | host state, login, menu | wait, login, menus, transfers | line drop in any state | returns to waiting |
| Network clients | `netclient.c` | telnet/rlogin/ssh session, options | connect, listen, read, write, negotiate | option loops | no option answered for ever |
| Scrollback, screen | `scrollback.c`, `screen.c`, `console.c` | list of lines, cursor, scroll region | print, scroll, insert, delete, find | limits, wrap | cursor inside the screen |
| Emulations | `vt100.c`, `ansi.c`, `avatar.c`, `petscii.c`, `atascii.c`, `vt52.c` | parser state, attributes | one byte at a time | wide tables | every byte leads to a defined state |
| Phonebook, scripts, UI | `phonebook.c`, `script.c`, `forms.c`, `keyboard.c`, … | lists, forms | editing | little | – |
| Hydra | `HYDRACOM/HYDRA.C`, `FMISC.C` | `txstate`/`rxstate`, `txpos`/`rxpos`, sync ids, windows, retry timers; BAD-XFER files and their log on disk | `hydra()` packet loop, one branch per packet type; `xfer_init()`, `xfer_bad()` | both directions at once; RPOS while data streams; device packets; an answer to the wrong file; resumption in a later session; fallback to one-way mode | each file arrives whole; XFER_OK is true; a rewind happens once per request; both sides end together |
| HydraCom shell | `HYDRACOM/HYDRACOM.C`, `MISC.C`, … | options, batch | batch of `hydra()` calls | carrier loss | – |
| JModem | `JModem/jmodem_[a-f].c` | block length, CRC, status | send/receive with variable blocks, compression | adaptive block size | file identical |
| TXZM, SmalTerm, COMM | `MCOMM551/` | Zmodem sender; UART ring buffers (binary library) | `main`, send | source of the driver missing | – |
| PLINK | `PLINK/` | link state, RLE, CRC | block link with RLE and CRC | escapes at block ends | decode ∘ encode = identity |
| RLE, CRC32 | `RLE/src`, `CRC32.c` | none | encode, decode, crc | run lengths at the limit | decode ∘ encode = identity |
| NetWare tools | `mars_dosutils/netpc` | drive maps, connection | NCP calls over DOS interrupts | external server | – |
| CPFBurn, RStart, samples | – | none | small exercises | – | – |

`qodem/lib` (cryptlib, PDCurses, miniupnpc, a C runtime) is vendored.

How they meet in qodem: `select()` → `process_incoming_data()` reads the line,
calls `protocol_process_data()`, which calls `xmodem()`, `zmodem()` or
`kermit()` as long as `q_program_state` says that the transfer is running, and writes what they
output; the call is repeated while it produced output. The protocol ends the
transfer with `stop_file_transfer(END | ABORT)`; so does ESC.

`PROJECT.json` lists every component with its status, and every hazard with its
line and the properties that watch it.

## 2. Plan

| # | Module | Of | State |
|---|---|---|---|
| 1 | `Padding`, `FileTransfer`, `Xmodem`, `XmodemTrim` with their MC and proof modules | Xmodem transfers | done |
| 2 | `BatchTransfer`, `Hydra` (two-way session, RPOS and sync ids, windows, timers, resumption) with their MC and proof modules | `HYDRACOM/HYDRA.C` | done |
| 3 | `Zmodem` (batches, ZRPOS, windows, crash recovery, sessions) with its MC module | `zmodem.c`, the autostart of `console.c` | done |
| 4 | `Ymodem` (block 0, ACK twice, batch, terminator; `setup_for_next_file()` failing), refining `BatchTransfer` in one direction; a disk that fills up | rest of `xmodem.c` | open |
| 5 | `TransferLoop`: output buffer, leftover bytes, 8-bit translation | `qodem.c`, `protocols.c` | open |
| 6 | `Kermit` (windows, streaming, NAKs, timeouts, RESEND, skipped files) with its MC module | `kermit.c` | done; windows model-checked only |
| 7 | `RunLength` (RLE, PLINK, JModem encodings) as pure functions against a reference; `Dialer`; scrollback | rest | open |

Theorems that are left: the invariant of Xmodem for pairs of flavors with X_1K_G
on one side; Zmodem with downloads begun by hand; Kermit with windows over a line
that is clean, or loses one packet.

Composition: `Xmodem` EXTENDS `Padding` and instantiates `FileTransfer` through a
refinement mapping; `XmodemTrim` EXTENDS `Padding` and justifies the one-step
end of file in `Xmodem`. `Hydra` composes the transmitters, receivers, device
channels, lines and disks of two programs and instantiates `BatchTransfer`; `Zmodem`
composes a sender, a receiver, line and disk, and instantiates it with one batch empty. `Kermit`
composes the same; it cannot refine `BatchTransfer`, as its files may hold packets twice.

## 3. Modules

**`Padding`** – `Trim(f)`, a file without the SUBs at its end. Xmodem does not send
a file's size, so this is what a receiver can know. `PaddingProofs` holds the
lemmas about it.

**`FileTransfer`** – what a protocol promises: the destination grows block by block
as a prefix, is saved once and whole, the sender succeeds after that, either side
may give up. No line, no protocol.

**`Xmodem`** – two qodems and a line.

* `snd` and `rcv` are the static variables of `xmodem.c` in the two programs:
  `state`, `prior` (`prior_state`), `flavor`, `first` (`first_byte`), `number`
  (`current_block_number`; `current_block_sequence_i` is it modulo `SeqCount`),
  `errors` (`stats_increment_errors()`), `timeouts` (`timeout_count`), `xfer`
  (`q_program_state` / `q_transfer_stats.state`: transfer under way, ended, aborted) and, at the
  receiver, `block` (`current_block`). At the sender `current_block` is the
  block `number - 1`, so it needs no field.
* `data` and `reply` are the bytes in flight. A block travels as 66 + 66 (+ 1
  (+ 896)) bytes: every length that the code compares with (132, 133, 1029, and
  "more than `XMODEM_MAX_BLOCK_SIZE`") is a sum of these, and a block can be
  split between reads anywhere among them. Header bytes, numbers and checksums are what
  `Header` and `Verdict` see of the pieces. `harm` says what the line did to a
  piece: `"full"` damage shows in the checksum or CRC, `"half"` damage in only
  one byte of the CRC.
* One action is one call of `xmodem()` with the first `k` bytes or pieces of what
  has arrived (`k` is chosen freely: reads are cut by the operating system),
  together with the immediate calls that
  `process_incoming_data()` makes because there was output. That repetition is
  why the `PURGE_INPUT` after a receiver's timeout is not a state of its own: its NAK overwrites the
  byte the timeout wrote. The states, guards and the order of tests are the
  code's; see the `map` in `PROJECT.json` for the lines.
* The file is a sequence of block contents; `Sub` is a block of padding only.
  `verify_block()` is `Verdict`, in the order it tests: size, header, number,
  CRC or checksum, duplicate.
* The loop at EOT is one step to `Trim(file)`, or `TRIM_LOOP` where it never ends
  (`XmodemTrim` has the loop). With an empty file its exit depends on an
  uninitialised byte: both outcomes are possible.
* `Aborted` is `stats_file_cancelled()`. `SenderTimeout` in BLOCK leaves
  `PURGE_INPUT` even when it gave up, as the code does; `Running` (the test in
  `protocol_process_data()`) is what stops it.
* `X_RELAXED` is `X_NORMAL` with a `TimeoutMax` of 100.

Timers are not counted in seconds. With `PromptLine = FALSE` a timer may fire at
any moment, which covers every delay the line can have. With `PromptLine = TRUE`
it fires only when nothing is in flight (`Quiet`), and the receiver's 10 seconds
fire twice before the sender's 20 (`lapse`): `check_timeout()` with
its "one freebie". The safety properties are checked without that assumption.

**`XmodemTrim`** – the same loop over bytes, with `ftell()`, `fseek()`, `fread()`
and `ftruncate()` as the code calls them.

**`BatchTransfer`** – what a session promises in which two programs send each other
a batch: what is on disk of a file grows along the file or is thrown away, a file is
saved whole, OK is told for a file only when it is saved, a session that ends well
has gone through both batches. The disks outlive the session.

**`Hydra`** – two HydraComs, the line and their disks.

* `tx`, `rx`, `dev` are the static variables of `HYDRA.C` for the transmitter
  (`txstate`, `txpos`, `txsyncid`, `txlastack`, `txretries`, whether `txtimer` runs;
  `file` is the position in the batch, `open` is `txfd >= 0`), the receiver
  (`rxstate`, `rxpos`, `rxsyncid`, `rxlastsync`, `rxretries`, `rxtimer`) and the
  device packets (`devtxstate`, `devtxid`, …, `devrxid`). `hdxlink` is the one-way mode.
* One action is one pass through the two switches at the top of `hydra()`'s loop
  (`Transmit`), or what the loop does with one packet or pseudo packet of `rxpkt()`
  (`Receive`, `Timers`) *and* the switch on `txstate` after it (`Settle`). Where
  `hydra()` returns, the action is also the prologue of the next call (`Begun`), which
  skips files that cannot be opened.
* `rxpkt()` drops a packet with a bad CRC, so a packet is intact or lost. `line[p]` is
  what is on its way to `p`. An abort dumps an arbitrary rest of what is not yet
  sent (`txflush`/`com_dump`) before the CANCEL sequence.
* Files are sequences of units; a data packet carries 1 to `BlockMax` of them,
  because the code adapts the length to the line. `part` is the file under its
  BAD-XFER name, `Kept` the rule of `xfer_bad()` for what is worth keeping;
  `saved` is what `xfer_okay()` has given its real name.
* `result` is what `hydra()` has returned for each file, `outcome` for the session.
  `NewSession` is another call over the same disks, with the programs restarted or not
  (`NextHdxLinks`: the fallback to one-way mode survives in a program that goes on).
* Timers are not counted in seconds. They fire when the line is empty (`Quiet`) and
  the two sides' retries are in step (`InStep`: both wait the same `timer` between
  retries, and 15 seconds are longer than a packet takes); earlier firing is the fault
  `"late"`. A receiver's request timer is the same (`AsksAgain`).

**`Zmodem`** – a qodem that sends a batch, one that receives it, the line, and the
receiver's disk.

* `snd` and `rcv` are the `status` of the two programs: `state`, `prior`
  (`prior_state`), `pos` (`file_position`), `ackReq` (`ack_required`), `waiting`
  (`waiting_for_ack`), `streaming` (`streaming_zdata`), `acks` (`blocks_ack_count`),
  `reliable` (`reliable_link`), `errors` (`consecutive_errors`), `timeouts`
  (`timeout_count`), `file` (`upload_file_list_i`; at the receiver the name it has),
  `open` (`file_name` and `file_stream` are not NULL), `type` (the header whose data
  is awaited), `value` (the challenge), `version` (which suffix of the name), `junk` (bytes of
  a subpacket without an end in `packet_buffer`), `xfer` (as in Xmodem, and `CRASH`, `HANG`
  where the code runs into `abort()`, a NULL name or an endless loop).
* `down` and `up` are what is on its way. A header or a data subpacket is one element,
  as `parse_packet()` and `decode_zdata_bytes()` hand them on: a damaged header is
  `GARBLED` (CRC error or invalid), lost, or `CUT` (its beginning stays in `packet_buffer`,
  where what comes next is taken for the rest of it: `HeadersJoin`); a damaged subpacket
  is `DAMAGED`, or `JUNK` where its ZCRC escape is gone. The subpacket of a ZSINIT is `SHORT`:
  `send_zsinit()` writes it with a CRC-16 behind a header that announces a CRC-32, so
  `decode_zdata_bytes()` lacks a byte (1194) and takes the first one of what comes next for it: a
  CRC error (`ReceiveJunk`, then `ReceiveBadData`).
* One action is one handler for one element (`ReceiveZcrcWait`, `SendZdataAck`, …) or
  one timeout, *with* the states it passes through at once: `done` is false until
  something is sent or awaited, so ZRPOS, ZFILE or ZSKIP are never seen between calls.
  Where a handler sets `packet_buffer_n = 0`, any amount of what follows on the line may have
  been in it (`Rests`); where the sender empties its output buffer, any amount of what
  it holds may have left (`Sent`), a subpacket broken off included.
* A file is a sequence of units; `SendBlock` takes 1 to `BlockMax` of them, because
  `block_size_up()` and `block_size_down()` change the size. The CRC that answers a ZCRC stands
  for the first units of the file; two files of different content have different CRCs.
* `disk[f]` is the file of that name and those with its suffixes `.0000`, `.0001`, …;
  `saved[f]` what has been closed at a ZEOF, `result` what the sender has logged (`OK`
  after a ZRINIT, `SKIP` after a ZSKIP).
* `zmodem_start()` is `Started`: what it does not set is left from the last transfer;
  `NewSession` is that over the same disk, a program that died being started afresh.
* `scenario` holds what users and line do in one behaviour: challenge, ZSINIT (control characters are
  escaped at the sender's wish only; when the receiver wishes it too, its ZRINIT says so and there is no ZSINIT), autostart,
  ESC, the disk, the kinds of faults and how many.
* `Quiet` is as in Hydra: timers run out when nobody has anything to do; one that is early is the
  fault `late`.

**`Kermit`** – a qodem that sends a batch, one that receives it, the line, and the receiver's
files.

* `snd` and `rcv` are the static variables of `kermit.c` in the two programs: `state`, `seq`
  (`sequence_number`), `mode` (`session_parms.streaming` and `windowing`: `opening` is what
  `kermit_start()` sets, with windows of one packet; `bare` is what an empty ACK of the
  Send-Init leaves), `file`, `pos` (`file_position` with `outstanding_bytes`), `timeouts`, `skip`
  (`skip_file`), `open`; at the receiver `begin`, `count`, `slots`
  (`input_window` with its `begin` and `n`; `input_window_i` is `End`), `last` (the slot of `output_window` that
  a receiver keeps); at the sender `window` (`output_window`, from its beginning).
* A packet is one element of `down` or `up`, with the number of the file, a unit of it or a position
  for its data field. `decode_input_bytes()` discards all it has with a
  packet whose check is wrong or whose SEQ is above 63, hence `Without(line, k)` with any `k`.
* One action is one round of the loop of `kermit()`, *with* the handler it ends in and the packet that is
  encoded: `Received` at the receiver, `Answered` (a packet) and `Unanswered` (none) at the sender.
  `Examined` is decoding and `check_for_repeat()`; `Save` is `find_input_slot()` with its four cases in the
  code's order; `Rest` is what follows `move_windows()`.
* A slot that is rolled off keeps its SEQ, and the code goes by it (`IsNext`, `Newest`); gaps are
  slots that are not `acked`. `Wanted` repeats that `nak_packet()` looks for the last slot at the end of
  the *window*, where it means that of the ring, and `TimeoutSeqs` that `handle_timeout()` may read a slot
  behind the array.
* `prompt` says whether the two users begin in such a way that what was sent before a program's first
  call is there to be thrown away by it (`toss_input_buffer`) or may come later.
* `CRASH` stands for `fwrite()` or `fclose()` with a NULL stream: a DATA or ERROR packet that is
  saved after a transfer or file was ended makes the code write the rest of its window.
* Timers fire when nothing is on its way (`Quiet`); earlier firing is the fault `late`.

**`MCXmodem`, `MCXmodemTrim`, `MCHydra`, `MCZmodem`, `MCKermit`** – the small instances. **`XmodemProofs`,
`XmodemTrimProofs`, `PaddingProofs`** – theorems and lemmas on Xmodem;
**`HydraTypes`** (type correctness), **`HydraSafety`** (the invariant for the files
one program sends, first free of variables, then that every action keeps it) and
**`HydraDelivery`** (batches, disks, device packets, the end of a session, the refinement, and the
theorems) on Hydra; **`ZmodemProofs`** on Zmodem: invariant, theorems and refinement.
**`KermitProofs`** – type correctness of Kermit, and what its streams promise: success that is true, files that are whole.

Operators whose comment begins with "Slip:" are variants of the definition that
follows them with a plausible mistake in it. Nothing uses them; they are there to
confirm that the properties notice the mistake (`mutants` in `PROJECT.json`).

## 4. Runs

Fixed: `SeqCount = 2`, the smallest number of block numbers with which a block
and its predecessor differ, so wrap-around happens in every run of three blocks.
`DataRoom` (pieces in flight: room for at least two blocks of the sizes sent) and
`ReplyRoom` (2 or 3 control bytes) bound the line: a handler waits until there is room. `ErrorsMax`, `TimeoutMax` and
`FallbackMax` keep the order of the code's 15, 10 and 5 at smaller values;
so every counter reaches its limit. `MaxFaults` is 1 or 2: two faults suffice for
a fault during the recovery of another. There is no symmetry: the contents `a`
and `b` appear in one order only.

For Hydra, `RetriesMax` (10 in the code) is 1 in `HydraSessions`, so that giving up is
as common as going on, and 4 in `HydraCompletes`, more than two faults can use up;
`OneWayRetries` is 0 (4 in the code), so that the fallback to one-way mode is reached
at the first repetition; `ResumeMin` is 1 unit, so that every part is resumed.
`LineRoom` bounds the packets in transit to 2 or 3 before a program sends more (an
action sends up to 3), enough for data of the old position behind a request to rewind.
Window sizes 1 and 2 make every DATAACK matter. `MaxFaults` is 1 per run of two sessions
with aborts at any moment, or 2 without aborts.

For Zmodem the first file has three units and blocks have one or two, so the file is one
full block and a short one, or short blocks only, or ends with a full one; the second file makes it a batch. The windows are 2 blocks
on a reliable line and 1 after an error (32 and 4 in the code), so each of ZCRCG, ZCRCQ and ZCRCW
occurs in one file. `TimeoutMax` is 4 (5 in the code) and `ErrorsMax` 5 (15), more than two faults can
use up and few enough to be reached. `LineRoom = 3` leaves two blocks of an old position
behind a ZRPOS. `MCScenarios` are 18 combinations rather than their product: eight with data
damaged twice, over what may be on the disk (nothing, a part of the file, another's
smaller or equally long file) with and without challenge; four with every other fault of headers and
data, three of them over two sessions; another's file under ESC; a header broken off; a slow line; three that
begin with a ZSINIT, under every fault, ESC, and a second session (few states each, as such a transfer gets no further).

For Kermit the window has 3 slots (30 in the code) and a SEQ 8 values (64), so the first file has more packets
than slots and numbers wrap while its data are under way; as in the code there are more than two
windows to a round of numbers. `LineRoom = 3` is a window in transit before more data are sent. `TimeoutMax` is 3 (5 in the code), more than
two faults use up. `MCScenarios` has every mode and order of starting over every disk without a fault and with one fault of each kind,
and two losses or two early timers for some. Both programs have the option of streaming or neither has; names do not begin with 1, X or Z,
which the code takes for the marks of a position or of a skipped file in an ACK.

| Run | Instance | Checks | Shows |
|---|---|---|---|
| `XmodemPlain` | checksum, 3 padded files (one of nothing but padding), 2 faults of any kind, timeouts and ESC at any time | `IInv`, `LockStep`, `NoFalseSuccess`, `RefinesFileTransfer`, `Termination` | the inductive invariant; the sender is never two blocks ahead; the abstract promise is kept, cancelling included; every retry is counted somewhere |
| `XmodemNegotiation` | every pair of the four flavors but -G/-G, 1 block, 1 fault | `TypeOK`, `FileIsPrefix`, `NoFalseSuccess`, `FlavorsAgree` | fallback on both sides, crossed first bytes, -G against non-G |
| `XmodemPrompt` | 13 pairs that can agree, -G/-G included, 3 blocks, 1 piece lost or damaged, prompt line | `FileIsPrefix`, `NoFalseSuccess`, `SucceedsIfClean` | the transfer works, and so does each fallback; one error is recovered from; -G stops at the first error |
| `HydraSessions` | two sessions over the same disks, batches of 3 (the second unreadable) and 1, window 1 against 2, 1 fault (loss, read, write, no room), abort or carrier loss at any moment, 1 device packet | `TypeOK`, `PartIsPrefix`, `SavedIsWhole`, `NoFalseOk`, `EndsTogether`, `HeardOnce`, `RefinesBatchTransfer` | nothing on disk is wrong after any break and resumption; a session that ends well is finished on both sides; the abstract promise is kept |
| `HydraCompletes` | one file each way, every choice of one-way options, packets up to 2 units, 2 faults (loss of anything but an INITACK, late answers) | `RewindsOnce`, `Completes` | everything arrives, one-way mode never ends in both waiting; one rewind per request |
| `ZmodemTransfers` | files of 3 and 1 units, 18 scenarios, 1 or 2 sessions over one disk, up to 2 faults | `TypeOK`, `CompleteIsWhole`, `StuckAtZsinit`, `OwnFilesKept`, `Completes`, `Stops`, `RefinesBatchTransfer` | a file on disk grows along the file sent or stays as it is; what is closed at a ZEOF or skipped as complete is whole; damaged data is recovered from, but a transfer that begins with a ZSINIT never gets to a file; no side waits for ever but in `receive_zdata()` |
| `KermitTransfers` | files of 5 and 3 units, 68 initial states, streaming or windows, 0 to 2 faults of one kind | `TypeOK`, `Consecutive`, `NothingMissing`, `OnDiskOnceIfKept`, `NoFalseSuccess`, `NothingLost`, `Stops`, `SucceedsIfClean` | the ring of packets and gaps stays in order; a file closed as complete lacks nothing, and repeats nothing if nothing was lost; a lost packet can always be sent again; both programs end; a clean line always gives success |
| `XmodemTrim` | all files of ≤ 5 bytes over 3 values | `TrimInv`, `KeepsData`, `CompleteIsTrimmed`, `LoopEnds` | the padding loop is right where there is data |

`CHECK_DEADLOCK FALSE` everywhere but for Kermit: a transfer or session ends, and then nothing
happens. `Kermit` has a step for that (`Done`), so there TLC also checks that nothing else stops.

Runs that end in a counterexample, each one a finding in `PROJECT.json` with the line that
says otherwise:

| Run | Property | What happens |
|---|---|---|
| `XmodemHalfCrc` | `FileIsPrefix` | `&&` in the CRC test: damage in one CRC byte is accepted |
| `XmodemStreamRace` | `NoFalseSuccess` | a late -G sender: the receiver falls back, the EOT ends an empty file, both report success |
| `ZmodemWindowEnd` | `CompletesIfClean` | a full last block that fills the window is a ZCRCQ; its ZACK has the size of the file, so the ZEOF follows inside the frame and is taken for data; both sides wait, and the sender gives up |
| `KermitLostPacket` | `OnDiskOnce` | a window that was emptied in part begins with DATA and is not full: Case 1 of `find_input_slot()` writes that packet without rolling it off, and it is written again; one lost packet is enough, and the file is ACKed as complete |

The passing liveness properties leave out what is known to fail: in
`XmodemPrompt` no reply is lost and no EOT damaged, `SucceedsIfClean` asks for
recovery only where no 1K block is resent (`OnlyShortBlocks`) and lets the
assertion of -G end the program; `Termination` excludes the file of SUBs only;
`HydraCompletes` loses no INITACK. `HydraSessions` has no late answers. Zmodem's `Completes` lets a
transfer end as in `ZmodemWindowEnd` (`EndsInFrame`) and leaves out those that begin with a ZSINIT, of
which `StuckAtZsinit` says that they always fail; `Stops` lets a receiver stay in
ZDATA, where it has no timeout, or in INIT, where its user has not begun, and leaves out
headers broken off, over which timers stand still. Slow lines are not combined with
two sessions, nor garbled headers with another's smaller file, for the reasons below.
Kermit's `NothingLost` is about one fault, until the receiver ends; `NothingMissing` leaves out streams with two early timers
(`OneTimer`) and those with losses whose files have as many packets as there are sequence numbers (`OneRound`), `NoFalseSuccess`
skipped files, `Stops` losses in a stream (whose receiver then waits for its user), and `OnDiskOnceIfKept` existing files where packets
may be sent twice or, in a stream, files skipped; damage and early timers are not combined with another fault in windows.

Met on the way and not made a run of. In Xmodem and Hydra: the test for a duplicate
(`xmodem.c:1312`) comes after the test for the expected number and cannot succeed, so a
block resent because its ACK was lost is a BAD BLOCK NUMBER, and NAKs go on until a limit; noise before an EOT stays in `current_block`, so
no later EOT stands alone there; so does a shortened 1K block, and every resend
overruns; the -G receiver's assertion depends on how reads are cut (1574); a file of
SUBs only is cut for ever; if the first file of a Hydra batch cannot be opened, the
session begins with a FINFO before any handshake and fails, where `HYDRA.H:80` has
"Skip this file but continue xfer"; a short `dos_write()` on a full disk goes unnoticed
(`HYDRA.C:1663`); two first bytes in one read are noise in a
BLOCK state that has no block yet (2497), so PURGE_INPUT resends nothing, no ACK
ever comes to have the first block constructed, and the transfer dies of errors;
the padding loop decrements
`bytes_total` in each round but cuts a byte only in every second one (1699), so
the size displayed is too small.

Of Hydra, two things that `HydraCompletes` and `HydraSessions` leave out: a FINFOACK names no file, so the second answer to a
FINFO that was repeated is taken for the answer to the next one, and XFER_OK is
returned for a file that was never sent (`HYDRA.C:1564`; this is why `OkIsTrue` below assumes `OnTime`); and HTX_RINIT waits for
`rxstate = HRX_FINFO`, which is over when an INIT is repeated whose INITACK was lost, so both
sides wait until the braindead timer (`HYDRA.C:1927`).

In Zmodem, a transfer in which the sender alone asks for control characters to be escaped (`zmodem_escape_ctrl`, with
`Z_CRC32`, which `protocols.c:1033` always asks for) fails between two qodems, whatever the line does. The header of the ZSINIT is a
CRC-32 binary header (`zmodem.c:1692`, where the comment explains that "rz" is met half-way: "it doesn't bother checking to see if
ZSINIT is CRC32 or not"; `docs/worklog.md:2825` has the story). The comment at 4034 says "Make sure we continue to use
the right CRC", and the next line has the subpacket written with a CRC-16. A qodem that receives decodes it by the
header (2069), waits for a CRC-32 (1194), and gets one byte more when the sender's timer repeats the ZSINIT: "CRC ERROR", a
ZNAK, and the sender repeats it again, until it has counted too many timeouts or errors. No ZACK is ever sent, nor a ZFILE.
`options.c:793` says of that option "may be necessary for Zmodem to work at all over the link". `StuckAtZsinit` states the failure, as
what the code does; the theorem `ZsinitFails` proves it for all constants and circumstances. With a subpacket that
the receiver could read (`SendZsinitReadable`, the mutant of that property) files do arrive.

Also in Zmodem: a ZNAK while a file is being sent leads to a state for which the sender calls
`abort()` (4675, 5377); a garbled header after data is parsed again and again without being
thrown away (3002); a sender that gives up in ZFILE_WAIT overwrites its state ABORT (4389), and its name is NULL by
then; a timer that expires early in ZFILE_WAIT makes the second answer count for what the
sender does next, and over two sessions what is left of it can append to a complete file; a
repeated ZFILE in ZCRC_WAIT goes on with a file that has not been compared, as the message at 2692
admits; where a header breaks off, no timer runs until more bytes come (1886); a
receiver in ZDATA has no timeout (3323) and reads nothing more once `packet_buffer` is full
(3697); if both users begin at once and a second ZRINIT arrives in ZFILE_WAIT, the sender aborts.

In Kermit, with windows: a NAK of the packet after the last clears the output window (`kermit.c:5757`), so two damaged packets, or a lost
one and an early timer, can lose packets for good, and as the sender in SB takes any ACK for that of its BREAK it
may even report success without the last file having been closed; a lost FILE header or a lost last DATA packet ends the whole
transfer (the receiver NAKs 0 when its count is 0, 3646; an EOF that is saved behind a gap is never
handled, 5899); an ERROR, or DATA of a file that was skipped, makes the receiver write to a file that is closed
(`CRASH`); NAKs without a window are not numbered modulo 64 (3641) and are refused by a sender after 63 packets. Streaming: a sender whose
Send-Init was answered twice takes each later ACK for that of the packet before, sends data before it knows the
position and, with two early timers, takes the position in one file for that in the next, which is closed
empty; so does the second answer when the receiver's user skips a file, and the next one, if it exists, gets its beginning
twice. The receiver of a stream has a window of one slot: once the packet in it has the last number, `find_input_slot()`
(5575–5595) takes only the packet with the number 0 and asks for nothing, so if that one is lost a whole round of 64 packets
vanishes, the next 0 is appended and both sides report success (with 4 numbers, a file of 9 units and one loss 1, 2, 3, 4, 9 is on
disk). The bound is tight: with one packet more than `OneRound` allows an EOF can be taken for the packet that was lost. With windows a
receiver that gives up closes its file, and then the NAK of its last timeout rolls a packet off a full window into it (1014, 3707). A receiver appends to a file that has the name, where README.md:295 of qodem says that collisions are saved under
a new name.

Fairness: `Fairness` asks that each program keeps being called
(`process_incoming_data()` runs after every `select()`, which returns at input or
after a short wait), that its timers are looked at (every handler calls
`check_timeout()` when it has no input) and that the console takes what comes
after a transfer. It is weak fairness of each program and of each timer; faults, ESC and the
choice of how much is read in one call are not fair.

Hydra's `Fairness` asks the same of `hydra()`'s loop: it goes round for ever, so a
program that can send does (`WF` of `Transmit`) and one that has a packet looks at it
(`WF` of `Receive`); each timer is looked at whenever nothing has arrived, which comes
and goes, hence `SF` of `StillHere`, `Retry` and `DevRetry`. Users, faults and the length of
data packets are not fair.

Zmodem's `Fairness` is weak fairness of the sender's handlers, of the receiver's, of the
joining of headers (which is `parse_packet()` being called with more input) and of the
timers of each, which are only enabled when all is quiet and then stay so until one of them
fires. Damage, loss, users and block sizes are not fair.

Kermit's `Fairness` is weak fairness of the two programs together, their starting included: as long as one of them has
something to do (`HasWork`, which is `ENABLED` of `Works` written out), something is done. It is weaker than fairness of each
program, and enough because each step uses up a packet, a piece of a file or a timeout.

## 5. Proofs

For every set of files, every number of faults, every line room, every limit and
every modulus (only what `XmodemAssumption` and `TrimAssumption` say):

| Theorem | States |
|---|---|
| `TypeCorrect` | `Spec => []TypeOK`, for all flavors |
| `Agreement` | `Spec => []FlavorsAgree`, for all flavors and all damage |
| `InductiveInvariant` | `Spec => []IInv` |
| `PrefixSafety` | `Spec => []FileIsPrefix` |
| `SuccessSafety` | `Spec => []NoFalseSuccess` |
| `LockStepSafety` | `Spec => []LockStep` |
| `Refinement` | `Spec => RefinesFileTransfer` |
| `TrimInvariant`, `TrimmedSafety`, `DataSafety` | `[]TrimInv`, `[]CompleteIsTrimmed`, `[]KeepsData` |

All but `TypeCorrect` and `Agreement` of the first seven (module `XmodemProofs`) assume `NoStream` (nobody picks X_1K_G) and `NoHalves` (the
line does not produce damage that shows in one CRC byte only). Both are needed:
`XmodemStreamRace` and `XmodemHalfCrc` are the counterexamples without them.

The argument. `FileIsPrefix` is not inductive: to know that a block with the
right number *modulo SeqCount* is the right block, one has to know that only the
expected block and its predecessor can be on the line (`DataInv`), in this order. That holds because
the sender is at most one block ahead (`CountInv`), which holds because every ACK
on the line answers the sender's latest block (`ReplyInv`: there is never more than one), which
holds because a receiver ACKs only what it takes. The EOT is on the line only
when everything has been taken. The last block's state, and EOT_ACK, are tied to
the counts in `SenderInv`; `ReceiverInv` ties the file to the count and keeps
half-damaged pieces out of `current_block`. Steps are proved one by one in
`XmodemProofs`: sender, receiver, timeouts, line.

`Agreement` has an invariant of its own, `AgreeInv`: every piece of a block on the line or in `current_block` is
of the kind the sender's flavor makes; the sender changes its flavor only before it
has made one, the receiver only before it has taken one; and `verify_block()` takes only the kind
of the receiver's flavor. That the first byte, the NAK and the first ACK may each be lost or doubled does not matter for it.

`TrimInv`: the position that `ftruncate()` uses is the size of the file or one
more, and the file is never shorter than its data.

For every two batches, all windows, packet lengths, retry limits, one-way options,
numbers of faults, device packets and sessions (`HydraAssumption`):

| Theorem | States | Assumes |
|---|---|---|
| `HydraTypes!TypeCorrect` | `Spec => []TypeOK` | – |
| `Talk` | `Spec => []TalkInv` | – |
| `HeardInOrder` | `Spec => []HeardOnce` | – |
| `OkIsTrue` | `Spec => []NoFalseOk` | `OnTime`, `FirstReadable` |
| `FilesAreWhole` | `Spec => []SavedIsWhole` | `OnTime`, `FirstReadable` |
| `PartsArePrefixes` | `Spec => []PartIsPrefix` | `OnTime`, `FirstReadable` |
| `EndTogether` | `Spec => []EndsTogether` | `OnTime`, `FirstReadable` |
| `Refinement` | `Spec => RefinesBatchTransfer` | `OnTime`, `FirstReadable` |
| `Rewinding` | `Spec => RewindsOnce` | `OnTime`, `FirstReadable` |

`OnTime`: no timer expires before an answer that is still on its way. `FirstReadable`: the first
file of each batch can be opened. Without the first a late second answer to a FINFO makes
`XFER_OK` false, as said above; without the second there is no handshake.

The argument for the files. That a part is a prefix of the file of *its* name needs that transmitter
and receiver always mean the same file, although DATA, RPOS, EOF, EOFACK and FINFOACK
name none. `SafeInv` gets this from the order of packets (`Files`): a FINFO on the line
is the last thing its transmitter has sent and is not answered (`Offers`); a FINFOACK is
the last thing the receiver has said (`Answered`), and says rightly whether the receiver has begun to write. So a receiver
that writes has the transmitter's file, as many units of it as `rxpos` says, and only pieces
of that file ahead of it (`Copies`); an open file whose receiver is back in HRX_FINFO has
been saved (`Streams`), hence XFER_OK on EOFACK is true; and no FINFO comes before the
INIT (`Greets`). `BatchesProceed` ties `result` to the place in the batch and keeps a receiver from
believing that the batch is over before it is. The steps are in `HydraSafety`, one
lemma per action; how each way of changing a line or a machine keeps `Files` is stated
once, without variables, in its first half.

The argument for device packets (`ChatHolds`). `HeardOnce` says that what was heard is numbered 1, 2, 3, …;
the code only compares a packet's id with the last one heard, so a duplicate must never
come *before* a packet it follows, and never after its successor was heard. `Hears` says why it cannot: the ids of the
device packets on the line never decrease, lie between the last one heard and the last one
sent, and the sender takes up a new packet only when the last one has been acknowledged, which is to say
heard. This holds whatever is lost, sent again or late, and needs no assumption.

The argument for the end (`AllConclude`). A program whose transmitter has reached END, or that has one on
the line, or has left with `XFER_OK`, is `Over`: its own receiver and its own chat are done. A program leaves with
`XFER_OK` only on an END while it is itself leaving, so both are `Over`. A receiver is
done only when the other's batch is at its end (`BatchesProceed`); hence both batches are through.

The refinement. As seen by the two users, a step of `p` leaves all four shown variables
alone, or closes a file under its BAD-XFER name or removes it (`Shuts`), writes a piece
(`Grows`), saves (`Keeps`), leaves (`Quits`) or reports a file (`Reports`); each is an action of `BatchTransfer`,
and whether its guard holds is what `SafeInv` and `TalkInv` say: that the piece
written is the next one of the file, that what is saved is whole, that what is reported
sent is saved, and that XFER_OK comes when both batches are reported.

The argument for rewinds (`RequestsHold`). That a transmitter goes back only for a request of the file it is
sending, one it has not obeyed, and never behind what it was told has arrived, is a statement about the
packets on their way back to it. An RPOS carries only a number, so while the two are in the same file the
numbers on the line lie between the last one the transmitter obeyed and the last one its receiver
asked with, and never decrease (`Ordered`). Acknowledged positions are at most what the receiver has, and no request that follows
is below them. Nothing is asked after an EOFACK, and no request is on the line before the
file has begun; hence none outlives its file, whose successor counts from zero again.

For every batch, every disk, all block sizes, windows, limits, numbers of faults and of sessions
(`ZmodemAssumption`; module `ZmodemProofs`), of behaviours whose scenario is `Calm`:

| Theorem | States |
|---|---|
| `ZmodemProofs!TypeCorrect` | `Spec /\ Calm(scenario) => []TypeOK` |
| `WholeFiles` | `Spec /\ Calm(scenario) => []CompleteIsWhole` |
| `OthersKept` | `Spec /\ Calm(scenario) => OwnFilesKept` |
| `RefinesBatch` | `Spec /\ Calm(scenario) => RefinesBatchTransfer` |
| `ZsinitFails` | `Spec => []StuckAtZsinit` |

`ZsinitFails` needs no `Calm`: early timers, broken headers, downloads begun by hand and others' files
are all allowed. Its invariant (`Stuck`) is small. While the sender is no further than ZSINIT_WAIT, only ZRQINIT, ZACK (to a challenge), ZNAK
and ZSINIT headers with their `SHORT` subpackets are on their way down, and of these nothing makes a receiver answer
ZACK, or leave ZRINIT_WAIT but to collect data for a ZSINIT that it can only answer with a ZNAK; so only ZRINIT, ZCHALLENGE and ZNAK come up, and
the sender gets no further.

For the other four, `Calm` is a condition on the circumstances, not on the constants, and 13 of the 18 scenarios of
`ZmodemTransfers` meet it. Data damaged or turned to junk, headers garbled or lost, files that cannot be created,
ESC at either side, every option and any number of sessions are allowed. It excludes four things. TLC has counterexamples
with the first, the second and the last once there may be more faults than the run allows; of the third it has
none, but the argument below does not cover it:

* Downloads begun by hand (`autostart` false). A receiver that is started before the sender's ZRQINIT sends
  its ZRINIT or ZCHALLENGE unasked; with three or four garbled headers behind it a header is answered twice, and
  `OwnFilesKept` fails.
* Early timers (`late`). ZDATA and ZEOF name no file, so an old one is taken for the next file's, and
  `CompleteIsWhole` fails.
* Headers that break off (`cut`): the line may then hold what is left of one header and the next one.
* Somebody else's file that is not longer than ours, together with headers that are garbled or lost: when the ZCRC
  is lost the sender repeats its ZFILE, which the receiver takes for "Sender does not understand
  ZCRC!" and goes on with that file unread.

The argument. Not even `TypeOK` is inductive: that a position lies within its file and that there is a file to
append to depends on both programs meaning the same one, which nothing on the line says. `IInv`
gets it from turns. Without early timers a program speaks only when it is spoken to or all is quiet, so
there is at most one header on its way to the receiver and one answer to the sender, and where there is an
answer the receiver has nothing left that could make it say more (`Turns`, `Mute`); even a receiver that meets junk
behind a header, or a sender that clears its buffers, leaves it so. Hence the state of the one bounds
that of the other (`Stage`), every header belongs to the state its sender is still in (`Pending`, `Answer`),
and what follows a ZDATA is the file from the receiver's position to the sender's, damaged here and there
(`Track`), with at most the last subpacket asking for a ZACK (`AsksLast`). So what is appended is the next piece
(`HasPart`); what is closed at a ZEOF has the sender's size and is whole; and `Logged` ties `result` to what
was closed. `Comparing` and `OursKept` say why a file is not gone on with unread, or why that does no harm. Each
handler has its lemma, over an invariant (`Conv`) that takes programs, lines and disk as parameters.

The refinement. A step of Zmodem opens a file at what is there of it, appends to it, saves it, logs a result or ends a
program; each is an action of `BatchTransfer` of the one user or the other, and `IInv` is its guard: a
file is logged as sent after it was saved, and `XFER_OK` comes when all are logged. A step that begins a new session
is the abstract one's.

For every batch, all windows, sequence numbers, limits, scenarios and numbers of faults (`KermitAssumption`):

| Theorem | States |
|---|---|
| `KermitProofs!TypeCorrect` | `Spec => []TypeOK` |
| `StreamSuccess` | `Spec /\ Straight(scenario) => []NoFalseSuccess` |
| `StreamComplete` | `Spec /\ Straight(scenario) /\ Ours(scenario) => []OnDiskOnceIfKept` |
| `StreamWhole` | `Spec /\ Straight(scenario) /\ Ours(scenario) /\ (\A f \in Files : Distinct(Batch[f])) => []NothingMissing` |

`Straight`: both programs stream, what has come in when a program starts is thrown away, no timer is early and no user
skips a file; packets may be lost or damaged, any number of them. `Ours`: what the receiver already has under a name of the batch
is a beginning of that file, which is what its RESEND supposes. `Distinct`: the units of a file differ, so
that "nothing is missing" can be told from the disk. 9 of the 68 scenarios of `KermitTransfers` are such streams:
with existing files that are begun, whole or empty, over lines that are clean, lose a packet, or damage one.

`TypeCorrect` says among other things that neither window outgrows its array, that the receiver's ring begins at a slot of it,
and that the timeout counters stop at their limit. `TypeOK` is not inductive: `Typed` adds what packets of
each type carry, how the ring and the count fit each other, that both programs stream or
neither does, and that a program that has not ended may time out once more (`Patient`). The slots a NAK
or a timeout picks are the first, the second, … of a set, which the lemmas on finite sets of naturals
(`LeastExists`, `RankExists`) are for.

The argument for streams. The receiver of a stream has a ring of one slot and answers every packet but data, and the sender
waits for the answer to every packet but data. So while no data flow there is at most one packet or one answer on
the line, and the two programs go through the phases of `Course` together: `NotBegun` and `Opening`, until the SINIT is answered;
`Asked`, where the receiver has not got what the sender waits for the answer to; `Got`, where it has; `Flowing`, data and then the
EOF; `Shut`, where the receiver has closed the file; and `Alone`, where it has ended before the sender. `InStep` also has the sender
whose SINIT was answered by nothing but a NAK of the next packet (mode `bare`): it gets no further than its first packet of data,
or the end of an empty file. `Behind` says that every file before the sender's present one is closed, and with it `NoFalseSuccess`: what
takes the sender on from an EOF is either the ACK of a receiver that has closed the file or a NAK, which ends a stream.

For the disk, `Kept` says that closed files are complete and that those not yet opened are as they were; `Due`, that the
position in the ACK of the ATTRIBUTES is the length of what is there, and that then the units behind it flow (`Flow`): in their order,
perhaps with losses, each with the sequence number of its place. The slot holds the last unit taken (`Through`) or a gap, at which the
receiver has sent a NAK and at which it stays (`Stuck`). That a unit that comes after a loss is not taken for the one
that is missing needs their numbers to differ *modulo* `SeqCount`; hence `Short` (`OneRound`): files of fewer packets than there are numbers. On
a clean line they may be of any length. A sender that gives up leaves what it has sent on the line, which still goes to
the open file (`Whole`); behind it comes at most an ERROR, and an EOF only where all units went before.
Each action has a lemma for the phases and one for the disk, over records and sequences that are parameters.

tlapm 1.4.5 simplifies the intersection of two sets that are enumerated with variables as if
different names were different values; no proof here intersects such sets.

Only model-checked:

* `Termination`, `SucceedsIfClean`, `LoopEnds`, `Completes` and the other liveness properties: beyond the prover.
* Everything else about -G (-G/-G in `XmodemPrompt`, the mixed pairs in `XmodemNegotiation`), which the invariant of
  Xmodem excludes.
* Zmodem in the scenarios that `Calm` leaves out: its safety properties hold there for the faults the
  run allows, and not all of them for more, as said above.
* Kermit with windows, and streams with early timers, skipped files or input left from before the start: `NothingMissing`,
  `OnDiskOnceIfKept` and `NoFalseSuccess` there, `Consecutive` and `NothingLost` everywhere. With windows they need to
  know that no packet on the line is older than one round of sequence numbers and that the sender is at most one window ahead
  of the receiver's first gap. Packets sent again for long enough break the first, a NAK that clears the output
  window (`kermit.c:5757`) the second; the runs bound both, and for more faults the properties do not hold.

## 6. Not modelled

* Disk errors of the receiver (short `fwrite()`, unchecked `fflush()`), read
  errors of the sender.
* The output buffer of `qodem.c` (partial writes, 8-bit translation): the sender
  is called when the line has room for a block.
* Line damage that the checksum cannot see, or that changes a block number
  into another valid one with its complement.
* CAN from the receiver in the middle of a chunk (the code looks at the first
  byte only; so does the model), and noise that happens to be a control byte.
* Of Hydra: packet encodings, escapes and CRCs, link options, the chat timer,
  the braindead timer where the other side still runs, short writes and seek errors, single-file
  mode (`single_file`), deletion of files marked `^`.
* Of Zmodem: escaping and the CRCs (but for the one a ZSINIT is sent with), the case that the two
  users ask for different CRCs, which `Z_CRC32` rules out, CAN sequences that cancel,
  ZCOMMAND and other headers that qodem does not send, `block_size_down()` ending a
  transfer, `fopen()` and `fread()` failing at the sender, disk errors at the receiver but for a file that cannot be
  created, data found without a header, files of no bytes, damage that a CRC does not see.
* Of Kermit: encodings, checks, long packets, text mode, 7-bit lines, locking of names, file attributes but for RESEND, programs of which only
  one streams or has windows, attributes refused, ESC and ^C, disk errors, existing files of 256 packets or more.
* Ymodem, and the components marked `not_modelled` in `PROJECT.json`.
