# Duta: verification of the device firmware

Duta is a hardware bridge: a small board that gives a host the console, reset
lines, outputs and radio of a target. One protocol core,
`platforms/common/skrit_device.h`, is compiled into every firmware (ESP32 with
Arduino and with ESP-IDF, nRF52 with Zephyr, Pico, Flipper, and a host
simulator; the CH55x has a small one of its own); around it each platform has
its own tasks, drivers and transports. This directory holds TLA+ models of the
core and of the parts around it that are concurrent or keep state, TLC
configurations that check them on small instances, and TLAPS proofs, for
instances of any size, of every safety property that the passing runs check.

Paths below are relative to `src/`; `common/`, `espressif/`, `zephyr/`,
`ch55xduino/`, `flipper/` and `host/` stand for `platforms/common/`,
`platforms/espressif/src/`, `platforms/zephyr/src/`, `platforms/ch55xduino/`,
`platforms/flipper/` and `platforms/host/src/`.

## 1. The system

| Part | State | Operations | Works with |
|---|---|---|---|
| Framing (`common/skrit_device.h`, `protocol/protocol.h`) | mode (idle, ASCII, frame), rx buffer | `skrit_dev_rx` for each byte | dispatch; host over a lossy link |
| Dispatch and session | authed, forward, output levels (HAL), stored password | one case of `skrit__dispatch` per command | every link has a `skrit_dev` of its own; outputs, password and UART are shared |
| Console tee | UART queue, one read buffer | `skrit_dev_feed_data` per link, `skrit_dev_poll` inside waits | loop or `bridge_task`; the EXPECT matcher |
| Macro VM | pc, outcome, EXPECT pattern, position and hit | `skrit__run_program`, `skrit__wait` | console, clock, outputs |
| Macro upload | scratch memory, length, announced total | WRITE_BEGIN / DATA / END, RUN | host that retries |
| Output table (`common/duta_io_arduino.h`) | active table, latches, pins, PWM resolution, stored table | OUT/PWM/RGB/CONFIG commands, boot | NVS, host |
| Radio sniffer (`zephyr/duta_sniffer_multi.c`, its backends) | backend in use, capture flags, channel, data kind | virtual outputs, CFG_SET 0x14, `take` | nRF RADIO, cmd and sniff threads |
| ESP sniffers (`espressif/duta_154_sniff_esp.c`, `duta_ble_sniff_esp.cpp`) | capture ring, channel, pin, transmit buffer | driver callbacks, `take`, `set_channel`, `tx` | driver task, `sniff_task`, `usb_rx_task` |
| Zephyr threads (`zephyr/main.c`) | `dev_mtx`, command ring and semaphore, framing buffer, BLE rings | ISR, three threads, GATT callbacks, drain | core; USB port or BLE controller |
| BLE link (`espressif/duta_ble.h`) | two rings, connection | callbacks of the stack's task, `duta_ble::loop` | core; central |
| WiFi (`espressif/duta_wifi_idf.h`) | wifi_state, got_ip, credentials, portal sockets | driver events, loop, CFG_SET, portal | three tasks without a lock |
| WebSocket session (same file; `duta_wifi.h`, `host/main.c`) | active and pending descriptor, handshake flag, buffer | `ws_pump`, `serve` | clients, the `skrit_dev` of the link |
| CH55x (`ch55xduino/`) | endpoint counters and registers, control transfer, command buffer, outputs, UART rate | USB interrupt, `loop` | USB host, target UART |
| Flipper (`flipper/duta_flipper.c`) | view, three queues, rates and lamp kept twice | CDC, UART and key callbacks, `duta_app` loop | host, target, user, SD card |

What is hard here: two tasks, threads or an interrupt on the same data, mostly
without a lock; a command that waits inside the core while everything else goes
on; flags that outlive the event they stand for (`exp_hit`, `wifi_got_ip`,
`authed`); bytes lost on the link; requests retried after a lost answer;
takeovers of the one WebSocket session; streams cut anywhere; a 32-bit clock;
rings, buffers, pools and sockets at their limit. `PROJECT.json` lists these
hazards line by line with the properties that cover them.

What makes each part correct:

- framing: frames no fault touched arrive once and in order, and a fault is
  answered at most once;
- session: a gated command is executed only in a session that gave the
  password; takeovers and reconnects never inherit one;
- outputs: each is what the last command made it, pulses excepted;
- macro VM: EXPECT reports only what came in; every command ends;
- upload: what runs is one whole program, and the host is told so truthfully;
- table: only roles the board offers are driven, an accepted table is there
  after a restart, the pins follow the latches;
- sniffers: one backend owns the radio and Sniffing captures; frames are handed
  over once and whole; a pinned channel is the tuned one;
- transports: what the core writes leaves once, in order, and in whole frames;
  what was queued is sent and what was received is served;
- WiFi: the reported state is real and the device comes back into reach;
- WebSocket: probes do not disturb a session, the newest real client wins, and
  payload comes out exact however it was cut;
- CH55x: bytes cross once and in order, the loop never hangs on a host that does
  not read;
- Flipper: host, target and user are all served and leaving the bridge restores
  the node.

## 2. Modules

| Module | Models | State and actions against the code |
|---|---|---|
| `FrameChannel` | what framing promises, without bytes | abstract specification: `Send`, `Deliver`, `Break` |
| `SkritLink` | `skrit_dev_rx`, `skrit__frame_complete`, `skrit__on_frame` on a dual or mux endpoint | `mode`, `rx` are the fields; `DevRx` is one call with one byte, split by mode. The host writes delimited frames, lines and flushes; the link loses, injects and cuts. Implements `FrameChannel` |
| `SkritDevice` | `skrit__dispatch`, session, tee; Arduino loop and IDF tasks | one action per command or group of commands; `pulse` is a command inside `skrit__wait`; `held` is what `bridge_task` or the loop has read and not yet teed; `Threaded` selects the build |
| `MacroVM` | `skrit__run_program`, `skrit_dev_feed_data`, `skrit__wait` | one action per opcode; `Turn` is one turn of the loop in `skrit__wait`; `Tick` the clock, modulo `Period` |
| `MacroUpload` | MACRO_* commands and the uploading host | `mem`, `len`, `total` are `scratch`, `scratch_len`, `scratch_total`; requests and replies are queues that lose |
| `IoTable` | the output driver, CONFIG_SET/RESET, store and loader | `tbl`, `io`, `res` are the active table, latches with pins, and resolution; `IoReboot` runs the loader |
| `RadioSniffer` | `duta_sniffer_multi.c`, both backends, the control routes of `main.c` | `radio` is the vtable pointer, the backends' flags and the RADIO; each handler is one step |
| `EspSniffer` | the two ESP32 sniffers with the tasks around them | `Capture` and `Publish` are the callback up to and at the move of `r_head`; `SetChan`/`SetArm` and the hop of `sniff_task` are two steps each, for they share no lock; `queued` is the frame the driver may still send, which another one or a `receive()` can take away |
| `ZephyrIO` | the threads of `zephyr/main.c` on USB or BLE | `at` says where each thread is, `lock` who has `dev_mtx`; a send is two writes to the port out of `scratch`; `Drain`, `Notify` are `txq_drain` between its spin locks |
| `BleLink` | `duta_ble.h` | a push and a drain are cut wherever the other task can come in between |
| `WifiJoin` | `wifi_evt`, `wifi_join`, `portal_start`, `portal_pump`, `duta_wifi_cfg_set`, `duta_wifi_loop` | shared variables of three tasks; operations that call the driver and then write state are two steps, and so is a turn of the loop: `Sees` is what it looks at, `LoopJoined` and its like what it writes, whatever a CFG_SET wrote in between |
| `WsSession` | `ws_pump` and `ws_drop_client` | `ws` holds the descriptors and flags; clients connect, send and leave |
| `WsStream` | `ws_frame_decode` and the loops around it on host, ESP-IDF and Arduino, down to `skrit_dev_rx` | bytes are counted, not stored; `Recv` is one `recv` of any portion, `Decode` the inner loop |
| `CdcEndpoint` | `USBCDC.c`: bulk endpoints 2 and 3 | the interrupt is one step, a call of the loop is cut between a load and its store |
| `UsbControl` | `USBhandler.c`: endpoint 0 over `CdcEndpoint` | one transaction, one run of the handler |
| `Ch55x` | `ch55xduino.ino` over `UsbControl` | `pc` walks through `loop()`; `cmd` is the CMD port's receiver and its answer; `stream` says who sends on the DATA port without end |
| `Flipper` | `duta_flipper.c` with its copy of the core | `at` walks through the loop of `duta_app`; the callbacks are actions of their own |
| `SkritLink_proofs`, `Ch55x_proofs`, `Flipper_proofs` | theorems about the module of the name | section 5 |
| `Device_proofs`, `Macros_proofs` | theorems about `SkritDevice` and `IoTable`; about `MacroVM` and `MacroUpload` | section 5 |
| `Sniffers_proofs`, `Links_proofs`, `Wifi_proofs` | theorems about the two modules that `MCSniffers` and `MCLinks` put side by side; about those of `MCWebSocket`, and `WifiJoin` | section 5 |
| `MCCh55x`, `MCFlipper` | values for TLC | the remaining modules take plain values from their `.cfg` |
| `MCDevice`, `MCMacros`, `MCSniffers`, `MCLinks`, `MCWebSocket` | modules side by side, one run; `MCDevice` and `MCMacros` also give values to `IoTable` and `MacroVM` | below |

How they meet. `SkritLink` says which frames `skrit__dispatch` sees,
`SkritDevice` what they do. `WsSession` says for whom the bytes of a session are
executed, `WsStream` that they are the client's bytes, `SkritDevice` what the
password gate makes of that. `MacroVM` refines the waits that `SkritDevice` has
as one step begun and one step ended. `Ch55x` extends `UsbControl`, which
extends `CdcEndpoint`: the interrupt of the lower two falls between any two
steps of the first. `ZephyrIO` and `BleLink` take a command as one byte with one
answer; what it does is `SkritDevice`'s.

`MCSniffers` (nRF52 or ESP32), `MCLinks` (Zephyr or Arduino), `MCWebSocket`
(descriptors or bytes), `MCMacros` (`MacroVM` or `MacroUpload`) and `MCDevice`
(`SkritDevice`, `IoTable` or `WifiJoin`) put alternatives under one run. A
variable chosen at the start and never changed (`chip`, `os`, `view`, `part`)
says which of the modules moves, and the others stay in an initial state, so the
runs check each module as its own specification would. They do not interleave
the modules: those share no state but what "How they meet" says.

A module of proofs extends the components it speaks of, so these have no name in
common: `IoTable`, `MacroUpload` and `WifiJoin` prefix theirs (`IoNext`,
`UploadNext`, `JoinNext`). Each theorem is about the specification of one of them.

Abstractions. COBS and CRC-8 are replaced by their effect: a segment is a frame
exactly when it is the unchanged bytes of one, and any non-zero byte of a frame
may belong to any class of byte the receiver tells apart. Console bytes, macro
chunks, passwords and WebSocket messages are members of small sets or numbers
in the order they were made. Handlers that only call a HAL hook are one action
with both outcomes.

Definitions introduced by a comment `Mutant` are altered forms of the definition
that follows; no specification uses them. They record that each property fails
when the code is changed in that way.

## 3. Runs

All bounds are constants of the modules, marked `bound:` there, or come from the
`.cfg`.

| Run | Asks | Bounds and why they are enough |
|---|---|---|
| `link` | Do untouched frames arrive, once and in order? Is a fault answered at most once? Are ASCII lines and frames kept apart? Is `FrameChannel` implemented, delivery included? | 2 frames of 2 bytes, buffer of 3, 2 faults, 1 line, 1 flush: two faults can combine on one frame or on two, the buffer overflows by merging, and a flush ends every phase |
| `device` | `SkritDevice`: do the gate, outputs and order of the console hold on the super-loop? | 2 links (one open, one networked), 2 outputs, 2 passwords, 2 console bytes, 3 commands, 2 sessions per link: a takeover, a password change and a pulse fit with another link's commands in between |
| | `IoTable`: roles, pins, promises and pulses over sequences of commands | 11 tables, one for each check of the validator and loader, 5 commands including restarts |
| | `WifiJoin`: do state 2 and 3 mean what they say? Does the device come back? | 2 CFG_SETs, 1 outage, 1 restart: a turn of the loop, a command that cuts it, and one after it |
| `device_idf` | Does a command run inside another's wait on the ESP-IDF build? It does | as `SkritDevice` in `device`, with a task for each link |
| `wifi_forget` | Is a forgotten network left? Not if an event of the driver connects again | `WifiJoin` alone, as in `device` |
| `macro` | `MacroVM`: EXPECT, waits and termination | 7 programs with every kind of operation, 2 byte values, clock of 16 starting at 9 so that it wraps during waits, 2 commands |
| | `MacroUpload`: is only a whole program run, are the answers true, does every upload end? | three uploads (3, 2 and 4 cells; capacity 3): long before short shows stale cells, 4 does not fit; 2 losses, 1 reset, queues of 2 |
| `sniffer` | nRF: one owner, Sniffing is true. ESP: records exact, pin obeyed, the search goes on after every injection | nRF: the whole state space. ESP: ring of 3 (two usable slots), 3 channels, 4 frames, so that the ring wraps and overflows; 2 PROTO_SETs (pin and unpin), 2 injections |
| `sniffer_tx` | Is every frame for injection sent? Not one that another frame or a hop overtakes | as `sniffer` |
| `ws` | Whose commands run, are descriptors lost, do probes disturb, who wins; do streams come out exact? | 3 clients (active, pending and a newcomer), 4 messages, 1 loss of WiFi, backlog of 2. Streams: 2 sessions of up to 3 frames, payloads of 1 and 4, of 5 (more than the simulator takes and, with its header, than a device buffers), a ping; accumulator of 8, the least that leaves one `recv` behind the longest partial frame, as in the code |
| `links` | Does output leave exact, is every command served and every queued byte notified? | rings of 3 (2 for commands), packets of 2, so that rings wrap, overflow and take more than one notification; 3 commands, 2 connections, 2 refusals, 2 console bytes and records |
| `ch55x` | Bytes exact, commands in phase, loop alive, rate followed, with the interrupt anywhere | 8 plans of what the host does, each aimed at one hazard (`MCCh55x`), in two of them a stream that may or may not end; packets of 2, buffers of 2, counters modulo 4, 1 bus reset, 2 control requests |
| `ch55x_stream` | Is the CMD port served during a stream on the DATA port? It is not | as `ch55x` |
| `flipper` | Rate and lamp restored, both directions exact, everyone served | 2 frames, 2 target bytes, 3 keys (enter, change, leave), rings of 4 that hold one frame and a piece of the next, a macro on the card and a program in the core |

Some properties carry the limits of what the code gives, and say so; what lies
beyond a limit that a document contradicts is in section 6.

- `OwedDelivered`: after a delimiter is lost, frames are owed again from the
  next burst longer than the receive buffer.
- `SimpleExpectComplete` speaks of patterns whose first byte does not come again
  in them, for the matcher misses overlapping occurrences otherwise.
- `StateIsReal` and `Reachable` leave out the second portal of one boot, whose
  sockets cannot be bound because the first ones stay open. `StateIsReal` leaves out
  a `CFG_SET` that begins while another task is in a join, a forget, a portal start
  or a turn that is about to write the state, and a turn that begins so
  (`crossed`); `Reachable` only a request to the driver inside another one
  (`overlap`): whatever a turn overwrites, the device comes back.
- `PromiseKept` leaves out tables whose names exceed the pool. `PulseRestores`
  leaves out outputs that are not at a rail, which a pulse restores to one, and
  pins shared by two rows.
- `SniffingIsTrue`: until CFG_SET 0x14 is used (`byCfg`).
- `PinnedIsTuned`: unless the PROTO_SET came in the middle of a hop (`raced`).
- `StreamExact`: commands of a client whose session began between two mux frames
  (`clean`).
- `OutputExact` and `AllNotified` on Arduino: a ring that no disconnect reset
  during a drain (`raced`) and that two tasks never pushed to at once
  (`shared`). On Zephyr there is no exception.
- `BytesExact`: but for a bus reset that falls between a load and its store, and
  a halt cleared over unread or unsent bytes (`torn`, for each direction of a port
  by itself). `InPhase`: until something cuts a frame (`whole`).
- `LoopTurns` and `BaudFollows`: unless the host or the target streams on the DATA
  port for ever. `BaudFollows` ignores a rate of zero, as the code does.
- `BothWaysExact`: unless a ring overflowed (`lost`), the host turned forwarding
  off (`muted`), or the view changed inside a frame, of the core or of the bridge
  (`split`).

Each of these history variables is set by the step that causes it and not by its
consequence, and the mutants show that the properties still tell broken code
from this code.

`CHECK_DEADLOCK FALSE` stands where the counters of bounded commands run out;
`RadioSniffer` alone never stops, and is checked together with `EspSniffer`,
which does.

## 4. Fairness

Each liveness property rests on what the code schedules by itself, and on
nothing the environment might withhold:

- `SkritLink`: weak fairness of `DevRx`; the loop (`espressif/main.cpp:492`)
  reads for as long as there are bytes.
- `MacroVM`: weak fairness of the VM and of the clock; `skrit__wait` polls and
  reads `millis` in each turn.
- `MacroUpload`: the device handles requests, the host resends after its timer
  and reads answers. Losses are bounded, which stands for a link that does not
  lose every frame for ever.
- `RadioSniffer`: the sniff thread wakes at least every 100 ms
  (`zephyr/main.c:908`). No fairness for the frames on the air.
- `EspSniffer`: `sniff_task` wakes every 100 ms (`espressif/main_idf.c:290`), a
  PROTO_SET that began ends, and the driver transmits what it accepted, starts
  the scan it was given parameters for, and publishes a frame it stored.
- `ZephyrIO`: each of the three threads runs. A thread that waits for `dev_mtx`
  gets it when it is released: `k_mutex_unlock` hands the mutex to a waiter,
  which the model does in `Unlock`. A controller refuses at most `MaxFails`
  notifications, for one that refuses for ever notifies nothing.
- `BleLink`: the loop drains, and a callback that began ends. None for the
  central or the target.
- `WifiJoin`: every task runs and the driver ends what it began, by success or
  failure. No fairness for the network.
- `WsSession`: `bridge_task` pumps (`espressif/main_idf.c:315`). `WsStream`: the
  server receives what is there and decodes. No fairness for clients.
- `Ch55x`: `loop()` goes on; none for the USB host, whose silence the write
  timeout must outlast.
- `Flipper`: the thread runs and a wait has a deadline. No fairness for keys,
  host or target.

In `MCSniffers`, `MCLinks`, `MCWebSocket` and `MCMacros` one weak fairness
condition covers an action of each module. The choice between the modules never
changes, so in every behaviour one of the two disjuncts is never enabled, and the
condition says of the other what its own module assumes. Of the parts of
`MCDevice` only `WifiJoin` has conditions.

The safety-only components, `SkritDevice` and `IoTable`, have no fairness in
their specifications.

## 5. Proofs

TLAPS checks these for every value of the constants allowed by the `ASSUME` of
the module; TLC evaluates those assumptions in each run. (`BleLink` and
`WsSession`, which runs only instantiate, name theirs as definitions, and
`MCLinks` and `MCWebSocket` assume them.) The assumptions say
that bounds are numbers, names differ, programs and tables are well formed and a
buffer has room for one element. Four say more: `RoomAssumption`, that the sizes in
`host/main.c` leave room for one `recv` behind a partial frame;
`UploadAssumption`, that there is something to upload; `BoardAssumption`, that in
the compiled table a pin has one role and the pixels are at their pin
(`common/duta_board_io.h:38`); and `PlanAssumption`, that the CH55x's host sends
packets that fit the endpoint and, to the CMD port, whole frames and lines, in
any packets. A host that breaks off a frame is outside the last one, since nothing
then says what its next delimiter means.

Every proof has the same shape: an inductive invariant, which TLC checked as an
invariant of the run first; one lemma per action, or per group of actions that
touch the same state, that the step keeps it; lemmas about the operators the
model is built from; and a last temporal step. What follows says for each
theorem what it is about and what had to be added to make it inductive.

`SkritLink_proofs` (assumes `LinkAssumption`). The largest one: frames are of any
length, buffers of any size that holds one, and faults of any number.

- `BufferHolds`: `[]TypeOK`, with the buffer bound in it.
- `FramingIsChannel`: `Spec => Channel!Spec`, the refinement of `FrameChannel`
  step by step: a dispatch is a `Deliver` of a newer frame, and of the next one as
  long as there was no fault. `OrderInv` gives "newer": all bytes of frames,
  those in the buffer before those on the link, stand in the order in which they
  were written. `PhaseInv` gives "next": the stream that the receiver reads, the
  delimiter and bytes it already holds included, is either frames at known places
  with lines and bursts between them (`Synced`), or whatever else followed by a
  burst that no buffer holds (`Flushing`).
- `OwedAreDelivered`: `[]OwedDelivered`, from `PhaseInv` and, for the ASCII lines,
  `LineInv`, which says where on the link the lines that are not answered end.
- `OneRefusalPerFault`: `[]OneNakPerFault`. Faults are counted when they happen
  and refusals when the damage is read, so the invariant must count the refusals
  still to come: `NakInv` bounds, over every phase the receiver may be in, the
  segments of the stream that it can refuse (`Spoils`), where no two count that
  share a delimiter (`Lone`). Reading a refused segment takes one away
  (`RefuseAtMost`); each fault, and each line, adds at most one (`LoseAtMost`,
  `InjectAtMost`, `EndAtMost`), a whole frame none (`SendAtMost`). `Transfer` is
  the argument they share, an injection from the new segments to the old ones.

`Device_proofs`, on `SkritDevice` (assumes `DeviceAssumption`: networked links are
links, the default password is one, bounds are naturals):

- `TypeCorrect`: `Spec => []TypeOK`, one step per action of `Next`.
- `AuthGate`: `Spec => []OnlyAuthenticated`. The property speaks of what has been
  served so far, and is not inductive: it needs to know that the flag tells the
  truth now. `AuthInv` adds that `authed[l]` implies that the present session is
  among those that gave the password. It holds whether or not the core is
  entered by two tasks.
- `LoopOutputs` and `LoopTeesInOrder`, for `~Threaded`: outputs are as commanded,
  and every link gets the console in order. `LoopInv` strengthens the first: at
  most one link is inside a wait (`OneWaits`), and only the pulsed output differs
  from what was commanded, by the value it will be restored to (`PulseInv`).
  `ConsoleInv` is the second: what is unread is newer than what the loop holds,
  that is newer than what was teed, and nothing is held while a pulse polls. For
  the threaded build the first is false: two links wait at once (`device_idf`), and
  a pulse writes back a level that the other has replaced.

The same module on `IoTable` (assumes `TableAssumption` and `BoardAssumption`), for
any board, menu of roles, set of tables and order of commands and restarts:

- `TableInvariant`: the inductive invariant `TableInv`. The active table and the
  stored one have only rows that the board offers or that are as compiled
  (`TableFine`): the validator refuses others, and the loader checks what it finds
  again. What is stored is what was promised, unless a reset failed unreported
  (`StoreInv`). And the pins show the latches, row by row (`Shows`): a row shows
  its own latch after any command (`DigitalShows` and its like for PWM), and a write
  to one row leaves what the others show. Starting a table, and setting all PWM
  rows again, are folds over rows, which the proofs follow as chains.
- `PinsFollow`, `ConfigIsKept`, `PulseIsRestored`: `[]PinsFollowLatches`, and the
  action properties `PromiseKept` and `PulseRestores`. The last needs `Shows`: the
  level a pulse reads back is the latch's, and only if the pin showed the latch
  does writing it again restore the pin (`PulseIsNeutral`).

`Macros_proofs`, on `MacroVM` (assumes `VMAssumption`, patterns over the console's
symbols):

- `ExpectIsSound`, `SimpleExpectIsComplete`. The lemma
  `AdvanceTracks` shows that one byte keeps "the console ends with the first
  `expPos` bytes of the pattern"; `AdvanceLongest` shows, for a pattern whose
  first byte does not come again in it, that the position stays the longest such
  prefix; `NoOverlap` is the fact about such patterns it rests on. `MatchInv` is
  the inductive invariant: the matcher is armed exactly in an EXPECT wait, its
  position is tracked, and verdicts given are right.
- `PausesLast`: `[]ShortOnlyAfterHit`, on a clock that wraps around.

The same module on `MacroUpload` (assumes `UploadAssumption`):

- `WholePrograms`: `[]RunsWholeProgram`, whatever is lost, repeated, given up or
  cut by a restart. `QueuesInv` orders requests and replies by their place in the
  upload (`Near`): a retry repeats the newest request, so what is under way never
  lags more than a step behind it, but for an upload that was given up.
  `DeviceInv` says that at each request under way the device holds the cells
  before it, or, after a restart, no beginning.

`Sniffers_proofs` (`EspSniffer`, `RadioSniffer` and their composition `MCSniffers`):

- `RingIsExact`: `[]RecordsExact` for rings of any size, without a lock. `RingInv`
  says which slots hold which frames, the one being filled included.
- `PinHolds`: `[]PinnedIsTuned`; `PinInv` adds that no hop is under way on a
  pinned channel. `EspPart` carries both over to the composition.
- `BackendsTakeTurns`, `SniffingHolds`: `[]OneBackend` and `[]SniffingIsTrue`. The
  second needs that a capturing radio receives or has a frame for `take()`
  (`Hears`), and that control, backend and announced kind agree until CFG_SET is
  used.

`Links_proofs` (`ZephyrIO`, `BleLink`, and `MCLinks`):

- `ZephyrExact`: over USB every frame leaves whole, since who is in the core or
  writing has the mutex (`MutexInv`) and the frame half written is the one in the
  buffer (`FrameInv`); over BLE each ring is a queue (`Queue`), of which the drain
  holds a beginning.
- `LinksExact`: `[]OutputExact`, of both platforms. The rings of `duta_ble.h`
  keep `RingInv` as long as they are `Undisturbed`; a push that has stored its
  byte and not moved the head is part of it.

`Wifi_proofs`, on `WifiJoin`:

- `ReportsAreReal`: `[]StateIsReal`. The property speaks of tasks at rest; the
  invariant `JoinInv` says what each task may be in the middle of, that events
  still queued explain any difference between `gotIp` and the station
  (`AddressInv`), and, as long as no turn and no CFG_SET cut each other
  (`~crossed`), what a turn in the middle saw, which network the driver has and
  whether the portal can be used. What happens after such a cut is not in the
  theorem: the report can be wrong (section 6), and `Reachable`, which the run
  `device` checks without that exception, says that the device comes back from it.

The same module on `MCWebSocket` (assumes what that does):

- `CommandsAreOwned`, `DescriptorsKept`: `[]SessionOwned`, `[]NoDescriptorLost`,
  for any number of clients. `Placed`: each client that came is closed or in
  exactly one of backlog, pending slot and session. `Earned`: the flags of the
  session were earned by the client that has it.
- `ProbesEndNothing`: the action property `ProbesHarmless`.
- `StreamIsExact`: `[]StreamExact` on all three servers and for any cut of the
  stream. `FitInv` says that decoding stands at the end of a frame, that what was
  fed is the payload up to there, and (`DevAt`) where `skrit_dev_rx` is after any
  number of payload bytes. The inner loop is a fold; `FoldIsChain` and
  `FedState` follow it byte by byte.

`Ch55x_proofs` (assumes the sizes of `CdcEndpoint`, `UsbControl` and `Ch55x`, and
`PlanAssumption`), for packets, buffers and counters of any size and with the
interrupt between any two steps of the loop:

- `PortsAreExact`: `[]BytesExact`. For each direction of a port the invariant says
  which registers the loop and which the interrupt may move. `OutInv`: while
  bytes are unread the endpoint refuses packets, the count is what is left of the
  packet, and a read that is cut holds the byte the count has not yet given up.
  `InInv`: while the endpoint may send the loop does not write; what is owed is
  the part of the buffer that was armed or, between flushes, the part written.
  `CtlInv`: the pieces of a descriptor add up to what was asked for.
- `ReceiverStaysInPhase`: `[]InPhase`. `PhaseInv`: what is unread and what is to
  come lead the receiver back to the start of a message (`Completes`), where a
  packet that the device has taken and whose acknowledgement the host has not seen
  does not count twice (`Coming`).

`Flipper_proofs` (assumes `FlipperAssumption`), for rings, batches, rates, programs
and keys of any number:

- `RateAndLampFollow`: `[]BaudAndLamp`, with the loop's position (`Places`): what
  sets rate or colour runs in the core or a program, and those never run in the
  bridge.
- `BridgeIsExact`: `[]BothWaysExact`. `HostSide`: what was handled, what the core
  holds of a frame, its batch, the ring, and what the host has still to send of its
  frame are, one behind the other, the stream of all frames sent. `TargetSide`:
  what was told and the ring are the count of the target's bytes.

The prover has no induction rule that takes a predicate, but `WFMin` and
`NatLessThanWellFounded` are about sets, and the lemmas about folds and numbers use
induction in that form (`SetInduction`).

Only model-checked: all liveness (`CommandsEnd`, `EveryUploadEnds`, `EspSearches`,
`Reachable`, `NewestWins`, `Arrives`, `CommandsServed`,
`AllNotified`, `LoopTurns`, `BaudFollows`, `EveryoneServed`, and the delivery in
`ImplementsChannel`, whose safety part is proved): fairness and ENABLED are outside
the prover.

## 6. Where code and documents disagree

With a run that shows it:

- `bridge_task` runs WebSocket commands without the lock that "serializes all
  access" (`espressif/main_idf.c:79`; `device_idf`). A WebSocket OUTPUT_SET that
  was answered OK is then undone by the end of a pulse that the USB link began
  ("restore after `ms`", `protocol/PROTOCOL.md:107`).
- "Setting an empty SSID forgets the network" (`protocol/PROTOCOL.md:499`): a
  driver event handled during or after it joins the network again. The start
  event connects whatever the state is, the disconnect event, of the forget
  itself, while the state still reads connected (`wifi_forget`).
- "a host write to the DATA channel is a MAC frame to transmit"
  (`protocol/PROTOCOL.md:463`): on the ESP32 a second write overwrites the buffer
  of a frame not yet sent, and a hop or PROTO_SET cancels it, as the comment at
  `espressif/duta_154_sniff_esp.c:120` says an immediate receive did
  (`sniffer_tx`).
- "stream serial on DATA while toggling a relay on CMD at the same time"
  (`ch55xduino/README.md:14`): the loop leaves a port only when it is empty, so a
  stream faster than the UART, or a target that keeps sending to a host that does
  not read, keeps it from the CMD port (`ch55x_stream`).

Met while modelling and kept out of the properties above, each as the exception
section 3 names or as a step the model contains:

- `duta_wifi_loop` looks at the state and writes it without a lock, in a task that
  the USB task preempts (`espressif/duta_wifi_idf.h:518-537`): its CONNECTED may
  replace the OFF of a forget, and CFG_GET 0x12 reports "2 connected"
  (`protocol/PROTOCOL.md:498`) on a device without a network; the disconnect event
  that comes late then sees CONNECTED and joins the network that was forgotten.
  The model has these steps, and `StateIsReal` is violated there when `~crossed`
  is taken out of it.
- CFG_SET 0x14 "PRESERVES capture on/off" (`zephyr/main.c:782`): from the UART
  bridge back to the PHY in use, with Sniffing on, it initialises the radio again
  and leaves it deaf, with Sniffing still reading on. The model has this step, and
  `SniffingIsTrue` is violated by it when `byCfg` is taken out.
- A glitch that swallows one delimiter exchanges the roles of all later ones;
  the link does not resynchronise ("can always resync", `protocol/PROTOCOL.md:42`)
  while the host sends the frames of `protocol/PROTOCOL.md:37`. A burst longer
  than the receive buffer, the `HostFlush` of the model, ends it.
- After an EXPECT that matched, DELAY ("pause", `protocol/PROTOCOL.md:184`) and
  OUTPUT_PULSE end at once: `exp_hit` is cleared only by the next EXPECT or
  program.
- A second portal in one boot has no page: its sockets cannot be bound, for
  `portal_start` never closes the first ones (`espressif/duta_wifi_idf.h:193`),
  while CFG_GET 0x12 reports state 3 (`protocol/PROTOCOL.md:503`).
- "Junk probes / dead backlog entries never kick anyone" (`espressif/duta_wifi.h:240`,
  which `espressif/duta_wifi_idf.h:379` mirrors): they do not kick a session, but
  a pending client is closed for the next connection in the backlog (395) before
  anybody looks whether it has spoken.
- A WebSocket takeover leaves the receive machine where the client before left
  it; the newcomer's first frame then ends that one's.
- The rings of `espressif/duta_ble.h` have no lock ("never a partial head",
  line 55): a macro polls the console, and pushes, in the Bluetooth task while
  the loop does, and `onDisconnect` resets a ring under a drain, which then moves
  the tail past the head, and stale bytes are sent.
- A PROTO_SET in the middle of a hop leaves the sniffer reporting one channel
  and listening on another.
- On the CH55x a bus reset between the load and the store of a byte count leaves
  a count of 255, and CLEAR_FEATURE makes an endpoint ready whose bytes have not
  been read.

## 7. Not modelled

- Sensor, LED and display drivers (register sequences to external chips), board
  tables, build files and boot loaders, the HTML of the portal, SHA-1, base64 and
  the WebSocket encoder: data without state of its own.
- The Pico: the super-loop with one link, which `SkritDevice` speaks for.
- Joining and the portal in the Arduino WiFi variant: `WifiJoin` on a polled
  driver. Its WebSocket server is in `WsStream`.
- Of the CH55x the OLED, port B's line coding and the activity LEDs; of the
  Flipper its GPIO outputs, drawing and the parser of macro files; of the output
  driver the inputs and the ADC.
- `stop()` of the ESP sniffers: no build calls it. Their `set_channel` and
  `receive` of one `rx_arm` are one step.
- The cast of an upload's offset to 16 bits (`common/skrit_device.h:896`), which the
  modelled host does not reach; and the header check of MACRO_RUN (422), which is
  in `MacroUpload` and not again in `MacroVM`.
- On the CH55x an endpoint's response codes and toggles share one register
  (`USBCDC.c:154`, 230), which the loop changes with the interrupt on. The model
  takes each change as one step, which it is when the compiler makes one
  instruction of it.
- The copy of the data kind that the WebSocket device of `main_idf.c` makes at
  start and CFG_SET does not update (`espressif/main_idf.c:199`).
- `zephyr/main.c` tests `ble_conn` and reads it again while the stack's thread
  may clear it (301, 308): a call with a NULL connection is the library's to
  answer.
