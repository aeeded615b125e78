# PiTrainController: verification project

TLA+ models of the PiTrainController software (a Raspberry Pi HAT that reads S88
feedback modules, publishes their contacts as Märklin CAN events, relays CAN and LAN
for CS2/CS3 clients, and shows its health on three LEDs), the TLC runs that check
them and the theorems TLAPS proves about them. The repository also keeps the C++
program this one replaced (PiCanS88, 2016), whose pin sequence and decoder the Python
code says it follows; it is modelled too. Paths below are relative to
`src/python/pitraincontroller/`, those of the archived program to
`src/docs/reference/legacy-picans88-2016/PiCanS88/`, unless they start with `src/`.

## The system

Four long-running Python processes, started and restarted by systemd
(`Restart=on-failure`, `RestartSec=2`), share the hardware and the kernel interface
`can0`:

```
 track contacts -> S88 modules -> [s88.service] --S88 events--> can0 <--> [gateway.service] <--UDP--> LAN clients
                                       |                          ^
                                       | activity pulse           | traffic, interface state
                                       v                          |
                                  [leds.service] <----------------+
                       [gateway.webconfig] <--HTTP-- LAN clients;  reads Rocrail's plan.xml
```

| Component | State it keeps | Operations | Interacts through | What makes it correct |
|---|---|---|---|---|
| S88 bus driver (`s88/driver.py`) | last vector, levels of three output lines | one scan: LOAD, CLOCK, RESET, release, N x (read, CLOCK) | GPIO lines, the module chain | a scan returns what the modules held at its load edge, each bit at its index; momentary contacts survive until the next scan; lines change only when the modules may see it |
| S88 service (`s88/service.py`, `s88/debounce.py`) | filter (`_stable`, `_last_on`), `last_change_time` | scan, filter, report each change, pulse, sleep | `can0`, the activity socket | occupied only if sampled on; free only after the hold time; changes alternate; every change is reported; lasting states get through |
| LAN gateway (`gateway/service.py`, `gateway/protocol.py`) | `EchoDedup._recent` | magic start, relay one frame each way per pass | `can0`, UDP 15731/15730 | no reflection or duplication, order kept, bounded memory, no starvation, drops only what it recently relayed |
| LED service (`leds/service.py`, `leds/state.py`) | heartbeat state, three stamps, sockets | drain, decide, write LEDs | activity socket, `can0`, sysfs | faults shown in bounded time, cleared when healed, patterns visible |
| Web config server (`gateway/webconfig.py`) | none between requests; each request reads `plan.xml` | GET, HEAD in threads | HTTP, files that Rocrail rewrites | precedence of file, generated, default; consistent answers to a client that fetches several files |
| Plan conversion (`gateway/rocrail_plan.py`, `gateway/rocrail_layout.py`) | pure | parse, choose pieces, name pages | called by the web server | every level reachable, pieces fit |
| Märklin codec and decoder (`common/marklin_can.py`, `common/marklin_decode.py`, `common/can_errors.py`) | pure | build/parse ids, encode events, decode frames | called by the services and the monitor | round trips, no field outside the frame |
| Archived feedback thread (`S88UDP.cpp`) | `m_iarSensors`, loop indices | one pass: the pins, then per sensor read, compare, send, store | GPIO lines, UDP broadcasts | after a pass the listeners know the sample of its load edge; a failed send ends the program before the table takes the value |
| Archived gateway (`CAN2LAN.cpp`) | `m_iaTcp_client`, `m_iMax_tcp`, `m_allfds`, `m_CanFrame`, `g_cNetframe` | `HandleEvents`: bus, LAN, two TCP ports, clients; `send_ping_frame` in another thread | `can0`, UDP, TCP | every client served and told, no stale descriptor, files arrive whole |
| Archived start-up (`PiCanS88.c`, `LinuxConApp.cpp`) | the options | options, fork, sockets, search for a locomotive, threads | the other two objects | a refused option ends the program; nothing runs before its sockets are open |
| Tools (`s88/dump.py`, `gateway/monitor.py`) | last line printed | print | GPIO lines (exclusive with the service), `can0` | |

The behaviours that make it hard: contacts that change at any moment of a scan;
several stamps compared with `time.monotonic()` at moments the scheduler chooses;
sends that fail with the state already updated; processes that die and come back with
empty memory while the outside world keeps its own; own broadcasts returning late;
two traffic directions in one loop; and periodic sampling of periodic patterns. In the
archived program: two threads that assemble frames in one buffer without a lock, a table
of clients with an index that only grows, two countdowns that may end a loop early, and
sends to clients that have gone.

## Modules

| Module | Models | Notes |
|---|---|---|
| `Occupancy` | abstract: what a client may be told about a contact | three variables, no loop, no queue |
| `S88Service` | `s88/service.py` + `s88/debounce.py` + the sampling and clearing instants of a scan | implements `Occupancy` |
| `S88Scan` | `s88/driver.py` pin by pin, with a chain of 4044/4014 or 74HC165 modules | justifies the two-instant scan of `S88Service` |
| `S88Scan_proofs` | theorems about `S88Scan` | TLAPS |
| `Relay` | abstract: two lossy FIFO pipes | |
| `Gateway` | `gateway/service.py`, the outcomes of `gateway/protocol.py` | implements `Relay` |
| `Gateway_proofs` | theorems about `Gateway` | TLAPS |
| `MCGateway` | names of frames for TLC | |
| `LedService` | `leds/service.py`, `leds/state.py`, and the pulses of the S88 service | composes the two processes through the activity socket |
| `Services_proofs` | theorems about `S88Service` and `LedService` | TLAPS; the names of the two modules are disjoint for it |
| `WebConfig` | `gateway/webconfig.py`, page names and numbers of `gateway/rocrail_layout.py` | one request against files that others change |
| `RocrailLayout` | `_resolve`, `_resolve_switch`, `_element` of `gateway/rocrail_layout.py` | |
| `MCRocrailLayout` | small layouts for TLC | |
| `WebServer_proofs` | theorems about `WebConfig` and `RocrailLayout` | TLAPS |
| `PiCanS88Feedback` | `S88UDP.cpp` pin by pin, with the chain of `S88Scan` | implements `S88Scan` |
| `PiCanS88Feedback_proofs` | theorems about `PiCanS88Feedback` | TLAPS |
| `PiCanS88Start` | `PiCanS88.c`, `LinuxConApp.cpp`, `FindLokAddress` | what `PiCanS88Lan` details is one step of it |
| `PiCanS88Config` | requests for configuration data in `CAN2LAN.cpp`: track file, `check_data`, the stream of `send_tcp_config_data` | operators, no state |
| `PiCanS88Lan` | both threads of `CAN2LAN.cpp` | extends `PiCanS88Start` and `PiCanS88Config`, implements `StartSpec` |
| `PiCanS88Lan_proofs` | theorems about `PiCanS88Lan`, `PiCanS88Start` and `PiCanS88Config` | TLAPS |
| `FoldTheory` | what `FoldLeft` computes, for an operator that is a parameter of the module | instantiated by `PiCanS88Lan_proofs`, TLAPS |
| `MCPiCanS88Lan` | frames, files and a track file for TLC | |
| `PiCanS88Frames` | `DecodeFrameData` and `frame_to_net` of `CAN2LAN.cpp` | operators, no state |
| `MarklinPort` | nothing of its own: the two decoders side by side | composes `MarklinFrames` and `PiCanS88Frames` |
| `MarklinFrames` | `common/marklin_can.py`, `gateway/protocol.py`, `common/marklin_decode.py`, the loop of `gateway/monitor.py` | one frame's bytes from its sender to the monitor |
| `MarklinPort_proofs` | theorems about `MarklinFrames` and `MarklinPort` | TLAPS |

How state and actions correspond to the code:

* **S88Service.** `pc` is the position in the loop of `main()`. A bit vector is the set
  of contacts whose bit is 1. `Load` and `Reset` are the two instants of `scan()` at
  which the modules react; `Filter` is one call of `OffDelayFilter.update` (all bits
  against one `now`); `Report`/`SendFails` is one call of `on_change`, lowest index
  first, with the two outcomes of `bus.send`; `Sleep` stands for the pulse and the
  poll interval; `Restart` loses all of the process's memory. A death and the systemd
  delay are one action, because everything that may happen during the delay (contacts,
  time) may also happen before the new process's first `Load`.
* **S88Scan.** One action per `gpio.write`/`gpio.read`. The chain reacts to lines, not
  to the driver's position. `sampled` is what the modules held at the instant they
  take over their inputs.
* **Gateway.** One action per call that can block, fail or be overtaken. A datagram is
  a client's frame, an own broadcast coming back, a wrong length, or a DLC above 8
  (for which `unpack_udp_frame` raises and the process ends). `_prune` pops from the
  front only, as in the code.
* **LedService.** One action per pass of the loop. `_drain_and_check_activity` empties
  the queue and stamps the time of draining, not of sending.
* **WebConfig.** `pc` is the position in `do_GET`. The test for a real file, the read of
  the plan, the read of its modification time, the parsing and the opening of a real file
  are steps of their own, and Rocrail, the user and the clock act between any two. The
  handlers of concurrent requests share nothing but files they never write, so one
  request at a time, against files that change at any moment, shows each of them. A plan
  that Rocrail is writing reads as `Partial`, which does not parse.
* **RocrailLayout.** `track` is the layout as it lies; the code sees the kinds of its
  pieces, the direction of straights and the hand of switches. An action resolves one
  piece, in any order within each of the two loops, as the order is the plan file's. What
  Rocrail's `ori` says of curves and buffers is any direction.
* **MarklinFrames.** A decoder is a set of forms: the DLCs and response flags it answers to,
  and the fields (offset, width) it shows. A field's value is the sequence of its bytes,
  which is what its hexadecimal form shows; a slice past the end is filled with zeros in
  front, a single byte past the end is the `IndexError` that `decode_frame` catches.
* **PiCanS88Feedback.** One action per pin write or read, and one each for the comparison, the
  send that succeeds or ends the program, and the store. `Fresh`, `NewState` and `ScanStage`
  are the refinement mapping: the part of the table this pass has been over is the new vector
  of the Python driver, the table before the pass its old one.
* **PiCanS88Start.** `phase` is the position in `main()`. The options that are only passed on
  are left out; each of their errors is the one step to `exit`.
* **PiCanS88Lan.** `cpc` is the position in `HandleEvents`, `ppc` that of the ping thread.
  `g_cNetframe` is a sequence of frames of which the ping thread uses the first. The three steps
  that fill or read it (`frame_to_net`, `sendto`, `write`) are atomic when the ping thread is
  elsewhere; while it is inside the buffer, whatever is put there or taken from there may be
  `Torn` as well as whole. A client's bytes come in halves of frames, so a read can end in the
  middle of one. `conn` follows the kernel: a peer that closed takes one more send, answers it
  with a reset, and the next send raises SIGPIPE, which ends the program (`RelayKills`,
  `CheckKills`, `StreamKills`). The loop index that a connection on the second port puts into
  `m_iMax_tcp` was never assigned when nobody came to the first (`CAN2LAN.cpp:1486`): it is any value
  of `Garbage`. Both loops over the clients run on past the table as far as `m_iMax_tcp`. The first
  word there is the identifier of `m_CanFrame`; after it come the frame's length and data, the
  program's own sockets (`CAN2LAN.h:93-101`), and whatever follows the object. A word that is no
  descriptor is passed over (`NoRecipient`, `ClientIdle`); any other may be taken for one, and the
  program goes `astray` (`BeyondTable`): it may crash, close or read a client's connection out of
  turn, read the UDP or CAN socket as a client's, or do nothing wrong at all.
* **PiCanS88Config.** A request names a file or a page; a stream has its bytes. The number of a page
  is not checked, neither where the track file sets a name (`CAN2LAN.cpp:231`) nor where a request
  asks for one (`:1333-1337`): the name is written, or looked for, past the array. The program then
  goes astray, or goes on, in the second case with any file there is (`OverrunsPages`, `CheckAstray`,
  `AskedFiles`). `Pages` stands for the array's length, and what is below 0 (`gbs- -1`) for what is
  above it. `CRCCCITT` looks
  up the program's table; `Remainder`, what a client computes, divides bit by bit.
* **PiCanS88Frames.** A form is the sequence of numbers the old decoder prints, each the indices of
  its bytes in the 13-byte buffer.

**Time.** The modules of the services use discrete ticks. The code keeps absolute stamps and compares
`now - stamp` with constants only, so a stamp is modelled by its age, and an age stops
at the first value that no comparison can tell from a larger one. This keeps the state
space finite without a cap on time, which the liveness properties need. Time may pass
between any two actions, except where an assumption below says otherwise.

## Assumptions

* `Gateway`: an own broadcast is handled at most `EchoDelay <= Window` after the
  `note_sent` that precedes it (200 ms by default), and `EchoDelay < RestartSec` (2 s).
  The first is what the code's heuristic relies on; the second makes the empty echo
  memory of a restarted process harmless. Both are in `GatewayAssumption`.
* `LedService`: the loop runs at least every `MaxLag` ticks, a living S88 service pulses
  at least every `PulseGap` ticks, `MaxLag + PulseGap < FaultTimeout` (50 ms and
  about 100 ms against 2 s by default) and `PulseGap < BootDuration`: the first pulse
  comes while the LEDs still show the boot pattern.
* `WebConfig`: Rocrail saves the plan at most once per second, because the session id is
  the modification time in whole seconds; a truncated or half-written plan does not parse.
* `RocrailLayout`: the layout is well laid (a piece connects where, and only where, its
  neighbour connects back) and lies on one level, one piece per cell.
* `MarklinFrames`: other devices and clients use 29-bit ids.
* `PiCanS88Lan`: a client's descriptor is none of the four listening sockets. At most `MaxRead` bytes come out of a read, an odd number of half frames, as
  4096 is no multiple of 13; clients send frames with the response bit clear. Frames of the bus,
  datagrams and new connections come between two passes (a later one is first seen by the next
  `select()` anyway); what clients send, and their ends, meet a pass anywhere.
* `PiCanS88Config`: the size of a file fits 32 bits (`uint32_t nbytes`, `CAN2LAN.cpp:1146`), the
  buffer for its compressed form is no longer than an `int` says (`CHUNK`), a write takes at least one
  packet; the compressed form is bytes (`ConfigAssumption`).
* Fairness: weak fairness of each process's loop (the scheduler runs it, no call of
  the loop blocks: all sockets are non-blocking and `bus.recv` has timeout 0), of time,
  and of systemd's restart. `Gateway` needs strong fairness of `RecvUdp`: a socket that
  holds a packet does not answer every `recvfrom` with an error.

## Runs

| Run | Bounds | Shows |
|---|---|---|
| `s88_faults` | 2 contacts, hold 2, time field up to 2, 1 failed send, 1 restart | the refinement of `Occupancy`, `ClientCurrent` and `TimeFieldHonest` through every interleaving of contacts, time and faults |
| `s88_live` | 2 contacts, hold 2, no faults, fair | every change reported; lasting states shown |
| `scan` | 3 bits, 4044/4014 and 74HC165 | the sample arrives bit for bit; momentary contacts survive; line discipline |
| `gateway_echo` | 2 frames, window 1, echo delay 1, restart 2, fair | the refinement of `Relay`, echo memory (`DropsOnlyRecent`, `EchoRemembered`) of bounded size; neither direction starves (`BothServed`) |
| `gateway_errors` | 1 frame, 1 error frame | **violation**: an error frame is broadcast |
| `led_status` | boot 2, timeout 4, lag 2, periods 4, fair | bounded fault display and recovery; patterns stay visible |
| `led_dead_chain` | as above, chain invalid | **violation**: a dead chain never shows |
| `web_requests` | 2 levels, 3 titles of which 2 collide and 1 vanishes, 1 save, 2 seconds | where an answer comes from and how current it is; pages found as listed |
| `layout_resolve` | all well-laid layouts of 2 rows of 3 cells whose pieces have their neighbours, and of 1 row of 2 cells without that condition | pieces come out as they lie; tiles connect as resolved |
| `frames` | every command, DLC, sub-command and response flag, 2 ways to fill the data, boundary ids and times, 2 crossings | frames are carried unchanged; own frames are recognised; fields cover the frame and nothing else; the decoder shows what the one it was ported from prints (`PortAgrees`) |
| `picans88_feedback` | 2 modules of 2 sensors, of which the two in the middle move, both kinds of chain, offset 1 | the refinement of `S88Scan`; the listeners know the sample |
| `picans88_gateway` | 3 clients, 2 slots, 4 arrivals or pings, reads of 5 and sockets of 4 half frames, 7 client frames, 4 files, 2 values of the unassigned index, pages past the array in the track file and in a request | table of clients and its limits (`WithinTable`), relay, passes, mirrored frames, streams |

Why the bounds are enough: contacts do not interact except through the order of
reports, so two show every interaction; a hold of two ticks separates "just sampled",
"within" and "over"; one failed send and one restart, at every point, are the
single faults whose combination with each other is explored too. Three bits are needed
to tell a shift by one from a reversal. Two frames tell order and identity apart; the
caps on sockets are the kernel's buffers, and a full output makes the send fail. In
`LedService` every pair of stamps can be in every order. In `WebConfig` one save gives an
old, a partial and a new plan, and removal none at all, at every step of a request.
Two rows of three cells hold curves, buffers, and switches along a row with everything
around them; switches across the rows, and every larger layout, are left to the theorems.
`frames` enumerates all lengths and commands. In `picans88_feedback` the two moving sensors are
the last of one module and the first of the next, where an index can go wrong. In
`picans88_gateway` a third client finds no slot, or a freed one; four arrivals are enough to
connect, end and reconnect with a frame in between, or to break a connection and send to it
twice; five half frames make a read of two frames, of a torn one and of one short of a half. The
files fill one write, several, exactly a packet, and too much. The unassigned index is negative or
past the word that follows the table. Deadlock is not checked there:
the program may exit, die or go astray, and a behaviour ends when its arrivals are used up. Clients are
symmetric, because no order or choice among them is anywhere in the model. `layout_resolve`
stops when everything is resolved. Type invariants are proved for every module that has one; `gateway_echo` and `picans88_gateway`, whose
states are the largest, check them as well.

The two violations are disagreements between the documentation and the code, listed
under `findings` in `PROJECT.json` with the quoted lines. `gateway_echo` runs with an empty set
of error frames only because they are relayed like any other frame. Two more
disagreements need no run, because a property that holds draws the line: `ClientCurrent` says exactly
how far a client can be wrong after a failed send, whose change is never reported again
(`src/docs/ROCRAIL.md:136` knows no such loss), and `MomentaryKept` names the window between load
edge and RESET in which a short contact is lost (`src/docs/S88.md:58-59` promises that the latch
keeps it).

Some properties state a limit of the code in their own text, because the code keeps it
everywhere else:

* `NothingMadeUp` excludes MFX Bind (`common/marklin_decode.py:111-112`) and the system
  sub-commands 6, 7 and 9 (`:52-55`, `:61-62`): these show words of a frame too short to
  hold them, although the docstring (`:10-13`) says an unrecognized DLC "returns a
  description instead of silently printing garbage".
* `SessionTells` requires the session id to be that of the list only for a plan left alone:
  the text is read before the modification time (`gateway/webconfig.py:101-103`), so a save
  in between gives an old list a new id, which lasts until the next save.
* `ListedPageFound` gives the first of several levels with one cleaned title; the others
  cannot be fetched.
* `Reconstructed` holds for `Recoverable` layouts. In others a curve, buffer or switch may
  be drawn as Rocrail's `ori`, or the assumed west toe, has it; `DrawnAsResolved` holds there too.
* `PortAgrees` leaves out what the docstring of `common/marklin_decode.py` sets apart (the CRC of a
  data stream), the command 0x1B that the old program does not know, and the forms named under
  `NothingMadeUp`.
* In a pass during which the ping thread was in the shared buffer, nothing in the program prevents a
  mixture. `BusReachesEveryone` says what can happen to a frame of the bus then: everyone is told
  something, the frame, a blank frame, a ping or a mixture. `MirrorFaithful` excepts such a pass, and it
  speaks of a frame that came alone: of several that came together, the LAN is told the first, once for
  each.
* `WithinTable` holds as long as every client that is watched has a slot. A client too many, or one on
  the second port, is the end of it for good. Every property of `PiCanS88Lan` speaks of the program
  until it goes astray: after that, no place in it can be relied on, a slot may hold a descriptor that
  was closed, and a client may be told anything. Nor does any property say that the program lives: a send
  to a connection that was reset, and a page without a name, kill it.
* `StreamWhole` is about streams that ended; one cut off by a lost connection is nobody's.

## Proofs

`Services_proofs` proves of `S88Service`, for every `N`, `OffDelay`, `MaxTicks`, number of failed
sends and restarts, from `ServiceAssumption` only:

* `TypeCorrect`: `Spec => []TypeOK`.
* `ClientStaysCurrent`: `Spec => []ClientCurrent`. The invariant is not inductive by
  itself: a second `update()` could overwrite changes that are still pending. It
  becomes so with `PendingOnlyInReport`.
* `ServiceImplementsOccupancy`: `Spec => Promise!Spec`. The argument: a held contact's
  stamp is never older than its last sample (`StampBounds`), except between the scan
  and the filter for contacts the scan has on; so what the filter releases was quiet
  for the hold time, and stays so until it is reported (`ReleasedWasQuiet`), because
  the loop does not sample again before it has reported.
* `TimesAreHonest`: `Spec => TimeFieldHonest`. The stamp a report is measured from is
  never older than the last report of that contact (`StampYounger`).

`S88Scan_proofs` proves, for every number of bits, both polarities of LOAD and RESET and
both kinds of module, from `ScanAssumption` only:

* `ScanTypeCorrect`: `Spec => []TypeOK`, with the levels of the lines at each operation
  (`LinesFollowPc`) as the strengthening that `LinesAreDisciplined` (`LineDiscipline`) also needs.
* `ScanCorrect`: `Spec => []ScanReturnsSample`. The invariant (`SampleInv`) is that the chain is
  the sample shifted by the read loop's index (`Shifted`), and that the bits read so far
  are the sample's; a driver that clocked first would be off by one.
* `MomentaryContactsKept`: `Spec => []MomentaryKept`, from `LatchInv`.

`WebServer_proofs` proves, for layouts of every size, from `LayoutAssumption` only:

* `LayoutTypeCorrect`: `Spec => []TypeOK`.
* `LayoutReconstructed`: `Spec => []Reconstructed`. The argument: in a recoverable layout a
  piece accepts exactly the sides it connects on (`AcceptsItsSides`), because such a
  side's neighbour accepts everything until it is resolved and connects back afterwards,
  and whatever lies on another side is already resolved and does not connect. For switches
  this takes `SwitchesLast`: no switch has ports before all curves and buffers have theirs.
* `SwitchesDirected`: `Spec => []SwitchDirected`, from the curve on the branch
  (`SwitchChoice`, `SwitchDirection`).
* `TilesDrawnAsResolved`: `Spec => []DrawnAsResolved`, from the shape of resolved cells
  (`ShapeInv`) and one lemma per tile.

And it proves, for any levels, titles and numbers of saves, from `WebAssumption` only (the specification
of a request is `RequestsSpec`):

* The five properties of the run: `AnswersAreCurrent`, `SessionsTell`,
  `StationsRecognised`, `RealFilesWin` and `ListedPagesFound`. `WebInv` says at each place of a request
  what its earlier reads are worth by now: the plan's history is dated (`PlanDated`) and watched since
  the request began (`PlanWatched`), a text or session read was the plan's at that moment (`TextRead`,
  `SessionRead`), a real file that was seen may have gone since (`FileSeen`).

`PiCanS88Feedback_proofs` proves, for every number of modules and sensors per module and either kind of
chain, from `FeedbackAssumption` only:

* `FeedbackTypeCorrect`: `Spec => []TypeOK`. The two loop indices make the sensor's number, whose
  products the prover needs help with (`IndexInBits`, `IndexAdvances`).
* `FeedbackTold`: `Spec => []ListenerFollows`, from the fact that two sensors never share the two
  bytes of an address (`AddressesDiffer`).
* `PassIsAScan`: `Spec => ImplementsScan`, action by action through the refinement mapping.
* `ListenersKnowTheSample`: `Spec => []PassTellsSample`. Nothing of the chain is proved again:
  `S88Scan_proofs!ScanCorrect` is carried through the refinement.

`Gateway_proofs` proves, for any frames, window, delays and bounds, from `GatewayAssumption` only:

* `TypeCorrect`, `EchoesRemembered` and `OnlyRecentDropped`: `Spec => []TypeOK`,
  `Spec => []EchoRemembered` and `Spec => DropsOnlyRecent`. `EchoRemembered` alone is not
  inductive: `GatewayInv` adds what the process holds at each place of its loop (`Hands`), that every
  broadcast on its way back has a note young enough to recognise it (`EchoesKnown`), the length of the
  memory (`MemoryFits`) and the order of its ages (`NotesDated`), without which popping from the front
  could leave an old note behind a young one.
* `GatewayImplementsRelay`: `Spec => ImplementsRelay`. The frames of clients that are on their way,
  which the mapping picks out of the socket, are characterised by induction over the sequence
  (`ClientFrames`), so that appending and removing a datagram become pipe steps or none.

`Services_proofs` proves of `LedService`, for any periods and timeouts, from `LedAssumption` only:

* `FaultAlwaysShown` and `NeverFalseAlarm`: `LedSpec => []FaultIsShown` and
  `LedSpec => []NoFalseAlarm`. `LedInv` relates the service's stamps to the true ages: a pulse that was sent is
  in the queue or was seen at most a lag later (`SeenInTime`, `PulseNotMissed`), what is in the
  queue is no older than the last pass (`PulsesAreNew`), a healthy sender's pulses never leave a gap
  (`HealthyPulses`), and what the LEDs show was decided from stamps of the last pass (`LastDecision`).

`PiCanS88Lan_proofs` proves, for any number of clients and slots, any values of the unassigned index and
any frames, files and track file, from `LanAssumption` and `StartAssumption` only:

* `TableIsRight`: `Spec => []TableTracksClients`. The invariant (`TableInv`) adds where the loop
  index may be at each place. Most steps only move the index and the place and disconnect nobody
  (`Moves`), one lemma for them all; accepting and ending are lemmas of their own. That the
  search finds the first free slot takes the well-foundedness of the numbers (`LeastNumber`).
* `StaysInTable`: `Spec => []WithinTable`, from the same invariant: a client that was watched without a
  slot is never read, so it is watched for ever, and the premise cannot become true again; the clients
  that leave had a slot. This takes that every watched client is connected, so that a new one is none of them.
* `BusRelayed`: `Spec => []BusReachesEveryone`. `RelayInv` says what the loop over the recipients has
  told those below its index, and that a buffer the ping thread is in makes the pass a disturbed one, so
  that what it puts there is among what may be told (`MixedTold`); `BufferInv`, that the buffer always
  holds a frame.
* `LanTypeCorrect`: `Spec => []TypeOK`, from the invariants of the table, the buffer, the passes and the
  sockets together (`LanInv`): the loops over the clients go no further than `m_iMax_tcp`, whatever it
  has become, and whoever is served has a slot (`IndexInv`).
* `PassesServeAll`: `Spec => []PassServesAll`. The loop over the clients stops when `nready` is used up,
  wherever it is. `PassInv` says that the reported clients it has not served yet are all ahead of
  its index (`WatchInv`) and never more than `nready` (`CountInv`), so none is left when it stops; each
  served client lowers both sides by one, by the cardinality of the set without it.
* `MirrorsFaithfully`: `Spec => []MirrorFaithful`, from `MirrorInv`, what the buffer holds between the
  reading of a client's frame and the datagram that shows it, and `RelayInv`.
* `ChecksumIsRemainder`: `CRCCCITT` looks up `crc_table` byte by byte, a client divides bit by bit, and
  for bytes of any number and any seed both find the same word. `Xor` is taken apart into the digits
  and bits of its words, which gives its algebra (`XorAlgebra`) and that a shift distributes over it
  (`XorDouble`); so eight steps of the division treat the two bytes of a word apart (`EightTimes`). Of
  the table only three facts are computed: its range, and that an entry with an even or odd index is
  the one with half of it, or the one before, after a step (`TableEven`, `TableOdd`). The first entry
  that were no remainder would contradict one of them (`TableEntry`).
  Both sides are folds over sequences of any length. `FoldTheory` shows once, for an operator that is a
  constant of it, that the recursion `FoldLeft` stands for has a solution (`AlwaysSolvable`) and that the
  fold is the last of a series of values, each made of the one before (`FoldSteps`); the proofs
  instantiate it with each operator the model folds with, and argue about two series by induction over
  their index (`SetInduction`).
* `StreamsAreWhole`: `Spec => []StreamWhole`, from `ConfigAssumption` as well. `StreamInv` says that what
  was written and what is left are the two parts of one file's writes, until a write fails.
  `WritesJoin` puts the packets of the writes together again, `PacketsJoined` the bytes of the packets,
  and `StreamIsWhole` reads length, checksum, size and compressed form out of them as the client does.
* `StartsAsDescribed`: `Spec => StartSpec`.

`MarklinPort_proofs` proves, for any device ids, contacts, times, fillers and crossings and for any
frames of others, from `FramesAssumption` only:

* `FramesRelayed`: `Spec => []RelayedUnchanged`. `FrameInv` says where a frame is, in every form it
  takes: on the bus and on the screen its identifier and data are those meant, and a packet gives them
  back, whatever fills the packet's rest (`PacketCarries`: the four bytes of an identifier make it
  again, and the data is cut out where it was put).
* `NoFieldMadeUp`, `BytesShown`: `Spec => []NothingMadeUp`, `Spec => []EveryByteShown`. One lemma per
  command says of its forms, for every response flag and length, that the fields meet every byte once
  (`Tiles`) and lie inside the frame (`Inside`); MFX Bind and the system sub-commands, which read
  before they look at the length, are bounded only where the two properties say so (`Exempt`).
* `PortMatches`: `Spec => []PortAgrees`. The same lemmas say that the fields, in their order, are the
  places the archived decoder prints (`Prints`), and `EveryCommand` collects them for all commands; two
  more that a number printed from those places of its 13-byte buffer is the field read from the data
  (`NumberIsField`, `ReadInside`), and that both split the identifier alike (`SameHeader`). `Verdicts`
  turns an answer of `decode_frame` into what it says of the frame.
* `OwnFramesShown`: `Spec => []OwnFramesRecognised`. The fields of an identifier do not overlap
  (`BitFields`), a word that was cut to 16 bits has the bytes of the whole (`Words`), and a report's
  form has five fields of different names (`EventFieldParts`).

The identifiers and lengths that `frames` enumerates are boundary values; these theorems are about
every identifier of 29 bits that is built, and every byte.

Model-checked only: the liveness properties `BothServed`, `PatternsVisible`,
`OccupiedIsReported` and `FreedIsReported`, because fairness and
ENABLED are out of the prover's reach. Every safety property of a passing run is stated by a theorem.

## What could come next

1. (done) S88 service with its promise and proofs; driver with proofs; gateway; LED service;
   web server; layout with proofs; frames; the archived program, its proofs, and what the Python code
   took over from it (`ImplementsScan`, `PortAgrees`).
2. (done) Proofs of every safety property that a passing run checks.
3. The names in SocketCAN error frames (`common/can_errors.py`); the reading of the
   plan's items, blocks included, into the grid, and the lists of `gateway/rocrail_plan.py`.
4. Composition of S88 service and gateway: a contact's way to a LAN client.

## Not modelled

* Shell scripts, overlays and the static site; `s88/dump.py` (it prints what `S88Bus.scan`
  returns); reading the XML attributes of a plan; the formats of the generated lists; logging.
* The archived `CCAN2UDP` (`CAN2UDP.cpp`): `main` has it commented out (`PiCanS88.c:54-64`), so no
  state of it is reachable.
* Of the archived gateway: zlib; the wording and device names of its decoder; `select()` failing; a
  send that blocks on a client that does not read; broadcasts of its own that come back when
  `-p` and `-l` name one port; the feedback thread's `exit(1)` as an end of the gateway (it ends
  the feedback thread in `PiCanS88Feedback`); whatever it does once it went astray.
* Parsing of the archived program's strings, and what the feedback thread makes of a negative offset
  (`Accepts` lets it pass, as `LinuxConApp.cpp:158-163` does; `PiCanS88Feedback` takes any). A limit it shows all the same: `-e 255`, which the usage
  text allows (`LinuxConApp.cpp:75-76`), is rejected (`:175`), as `Accepts` has it.
