# A TLA+ model of esp32-dap-proxy

The repository turns an ESP32 into a wireless CMSIS-DAP probe. A host program
(`esp-daplink-host`) pretends to be a USB device over USB/IP and forwards each
DAP command over TCP; the firmware (`esp-daplink-target`) runs the command on a
bit-banged SWD port and sends the response back. This directory models both
programs and the connection between them, checks the models with TLC on small
instances and proves what can be proved with TLAPS.

## The system and its parts

| Part | Source | State it keeps | Operations | What must be right |
|---|---|---|---|---|
| USB/IP session | host `usbip.rs` | one task per client: phase, the URB in hand | DEVLIST, IMPORT, the URB loop, RET_SUBMIT, RET_UNLINK | each URB is answered once, in order, also when the link fails |
| Control endpoint, descriptors | host `usbip.rs`, `descriptors.rs` | tables | `ep0_control`, `string_descriptor` | the kernel's enumeration succeeds; no answer is longer than asked for |
| DAP bridge | host `bridge.rs` | `pending`, the rest of the last response | `bulk_out`, `bulk_in` | an IN never returns bytes of an older response, none is lost |
| Link | host `link.rs` | `stream`, a local state per await | `request`, `try_request`, `connect`, `read_frame` | every request returns; at most two runs; the response is that of the last run |
| Framing | `link.rs`, target `channel/frame.rs` | `Deframer`: state, fill, buffer, rejects | encode, `feed`, `is_garbage` | exactly the frames written come out |
| Channel | target `channel/mod.rs`, `channel/tcp.rs`, `cmd/dap.rs` `serve` | one socket, the decoder, the command and response buffers | accept, `recv_frame`, `handle`, `send_frame`, `finish` | commands are run as sent; the socket is freed when the host has gone |
| DAP commands | target `cmd/dap.rs` | `wait_retry`; locals of a command | `handle` and what it calls | the response says what was done; buffers suffice; `handle` ends |
| SWD | target `probe/transport/swd.rs`, `probe/io/*` | `driving`, `last_pins`, the pin's direction and level | `transfer`, `read_ap`, `init`, `swj_sequence`, `swj_pins` | the line is never driven from both ends; the chip performs what was asked and nothing else |
| Metrics | host `metrics.rs`, `web.rs` `status` | atomic counters, round-trip statistics | `bump`, `add`, `note_link_error`, `note_rtt` | the counters agree with what happened, whoever writes them at the same time |
| Log hub, console | host `logs.rs`, `web.rs`, `dashboard.html` | sequence number, ring, broadcast channel, the page's `lastSeq` | `publish`, `history`, `subscribe`, `addLog` | no event is shown twice, and one is hidden only for a reason |
| Wi-Fi | target `main.rs` | where `connection()` and `main()` wait | connect, wait for the disconnect, pause, poll for an address | the probe comes back after any outage, and disturbs no working association |
| Start-up, build script | `main.rs` (both), `build.rs` | none | | |

How they interact: the session calls the bridge and waits for it, the bridge
calls the link and waits for it, so one session has one command under way. The
sessions share the firmware's single socket (whoever is connected keeps the
others out) and the counters. The firmware runs one command at a time and never
yields while it does. Only the link knows timeouts. The console is written to by
every thread that logs and read by pages that keep state of their own.

What is hard here: retrying a command that is not idempotent; late answers;
connections cut at any byte; a decoder that outlives connections; several
sessions contending for one socket; hosts that vanish; URBs queued behind a slow
command; a WAIT half way through an AP read; a line whose two ends must agree who
drives it after every kind of failure; threads that overtake each other between
the three steps of `publish`. `PROJECT.json` lists each hazard at its line.

## Modules

| Module | Models | Used by |
|---|---|---|
| `Frame` | the encoder and `Deframer<N>` as pure operators | all link modules |
| `FrameProofs` | lemmas about them: one byte more of a frame, the length there and back | `FrameStreamProofs`, `LinkProofs` |
| `FrameStream` | one uninterrupted stream from encoder to decoder | `FrameStreamProofs`, `MCFrameStream` |
| `Tcp` | the connections between host sessions and the firmware (external stacks, as the code uses them) | `DapLink`, `TcpChannel` |
| `DapLink` | `link.rs`, one action per await, and the link counters | `LinkPeer`, `LinkSystem` |
| `LinkPeer` | `DapLink` against a peer that sends anything | `MCLinkPeer` |
| `TcpChannel` | `channel::run`, `TcpChannel`, `dap::serve`, with hosts that vanish | `LinkSystem` |
| `LinkSystem` | both ends together, plus history variables | `MCLinkSystem`, `LinkProofs` |
| `DapRpc` | the abstract specification of the link | `LinkSystem` (refinement) |
| `Ep0` | the control endpoint and the descriptor tables, as operators | `UsbipSession` |
| `UsbipSession` | `usbip.rs` and `bridge.rs` under the kernel's enumeration and any URBs, the link abstracted to response or error | `MCUsbipSession`, `UsbipProofs` |
| `DapCmd` | `Dap::handle` and the accesses it makes, the chip external | `MCDapCmd`, `DapCmdProofs` |
| `SwdChip` | the debugged chip's serial wire port (external) | `Swd` |
| `Swd` | `swd.rs` over `probe/io`, one step per clock cycle | `MCSwd`, `SwdProofs` |
| `RttMetrics` | `note_rtt` and the status page, one step per relaxed access, those to different statics in any order | `RttMetricsProofs` |
| `LogHub` | `publish` step by step, the log routes, the page's script, event by event | `LogHubProofs` |
| `Wifi` | `connection()` and `main()` of the firmware | |
| `*Proofs` | the theorems about the module they are named for | |
| `MC*` | the instances | |

**State and code.** `lpc[h]` is the await in which session `h`'s `request()` is
suspended, `tpc` the same for the firmware's task, `upc` for a USB/IP session,
`cpc` and `mpc` for the two Wi-Fi tasks; `dpc` is the next register access of a
DAP command, `pc` the next access of `note_rtt` to each static, `at` a thread's step in
`publish`, `todo` the clock cycles an SWD operation has still to make. Other
variables carry the names of the code's fields and statics. `up` and `inbox` are
the bytes under way in the two directions; when a timer fires they may be
delivered or still travelling, so `ReadFails` is enabled whether or not bytes are
there. The variables marked as history exist for the properties; the only guards
that read one are the bounds.

**The environment's constants.** With `MidFrameLoss` FALSE, a connection is lost
only between frames: before anything of a frame is written, or when the firmware
is at rest, though a complete frame may be lost and responses may be cut
anywhere. With TRUE it is lost at any byte. The firmware keeps its decoder across
connections, so what the link guarantees differs between the two, and both are
checked. With `HostLoss` TRUE a host may vanish without FIN or RST reaching the
firmware (`HostVanishes`); `silent` says that the firmware's connection is of
that kind.

**Abstractions.** A response is any member of `Responses(command)`; in `DapCmd` a
data word is the number of the transfer it was read by, in `UsbipSession` a byte
of a response is the pair (OUT that obtained it, position), in `LogHub` an event
is the pair (run of the host, number). The page goes through a history one event
per step, so that threads log in between, but takes no live event meanwhile: its
script is a single thread and `list.forEach(addLog)` does not wait. Descriptors are kept byte by byte, of the
strings only the lengths. Logging and message texts are left out. A request over
`MAX_FRAME` is refused before it touches anything, so that action changes no
variable. `LinkError`'s variants are one `Err`, since nothing in the code
distinguishes them. A write to a stream whose other end is gone is accepted and
lost. The inbox of a dead stream can still be read. In `Swd` the delays between
edges are left out, the line is pulled up, and the reset pin is not attached (the
code is built without one), so `swj_pins` only notes its level.

**Memory order.** Every atomic of the host is accessed with `Ordering::Relaxed`:
accesses to one static have one order that all threads agree on, those to
different statics have none. `RttMetrics`, whose properties relate three statics,
therefore lets the three parts of a call and the three loads of the page take
effect independently of each other, the loads as late as they like: one that
returns an old value is one that took effect before newer stores. The page may
show a last sample or an average above the maximum while calls go on, and some
time after; `PageSettles` says what it shows in the end. The other counters are
modelled as the number of bumps made: `CountersAddUp` and `CountersMatchReplies`
relate what was counted, not what the page reads of different counters meanwhile.
In `LogHub` the one relaxed access (`SEQ`) takes a number and nothing else depends
on when; ring and channel are behind locks.

**What the models take from outside the code.** `Tcp`, the kernel's enumeration
(`Enumeration`, `Accepted`), the chip (`SwdChip`, and the acknowledgements in `DapCmd`), the
radio driver and DHCP are external and marked so in the map. The USB core waits
for each answer of the enumeration and gives up at one it cannot use; the chip
acknowledges as it likes, loses its place after a protocol error and finds it
after a line reset; the driver's wait for a disconnect is taken at its word.

## Runs

| Run | Instance | Shows |
|---|---|---|
| `frame_stream` | buffer 2, payloads of 0 to 3 bytes with magic bytes in them, stray bytes | exact delivery; the garbage count |
| `link_peer` | one session, MAX_FRAME 2, any bytes of {0, 1, 218} | a response is exactly the first frame of the stream after at most MAX_FRAME other bytes; every request returns |
| `link_cuts` | one session, two requests, cuts at every byte, fairness | commands on a connection accepted with the decoder at rest are run as sent; the host never loses its place and has no stale bytes; an abandoned connection frees the socket |
| `link_rpc` | two sessions, two requests between them, loss between frames, hosts that vanish | the link implements `DapRpc` under contention; types; the counters of both sessions agree |
| `usbip` | the enumeration, then every sequence of four URBs | replies, response bytes, answers that fit, counters, enumeration; each URB is answered unless the session closes |
| `dap_cmd` | transfers of up to 3, blocks of up to 4 with room for 3, retry values 0, 1, 3 under a cap of 2, 2 polls | order and number of accesses, truth of the response, buffer bound, retry limit, power, `handle` ends |
| `swd` | every four operations, words of 5 bits, one flipped sample, a chip in any state | who drives the line, the two ends in step, only the request performed, reads and refusals true |
| `rtt` | two sessions, three calls, samples 0, 6, 12 in a `u32` that ends at 9 | the maximum is reached and never falls, the average stays in range, and when calls cease the page comes to show a true maximum and nothing above it |
| `log_hub` | two threads, two events per run, ring and channel of 1, one broken stream or restart | each event shown once, hidden only for a reason, nothing missing when nothing went wrong, everything heard is dealt with |
| `wifi` | three outages, two driver errors | a working association is kept; the probe is associated, addressed and serving again in the end |
| `link_errors`, `link_retry` | one session, two requests | the two findings below |

**Why the bounds are enough.** The decoder's behaviour depends on a payload being
empty, fitting or not fitting the buffer, and containing the magic: a buffer of
two and payloads of 0, 1 and 4 bytes have all of these, and the last one holds a
whole frame inside it. `CHUNK` is smaller than a frame, so that frames are split,
and larger than a header, so that a chunk holds more than one state of the
decoder. A request has two attempts, so a second request already meets all that
the first can leave behind. `MaxReq` counts the requests of all sessions:
`link_rpc` has both in one session and one in each. `MaxUrbs` counts URBs after
the ten of the enumeration; four let a response of three bytes be fetched in two
pieces with something between them. In `DapCmd` the cap is above one and below
the largest configured value of retries. `Swd` keeps the order of the code's
numbers, not their size: idle cycles (8) are fewer than a data phase (33), that
is shorter than a line reset (50), and the code sends more ones (60) than that;
`IDLE < W + 1 < ResetOnes < LINE_ONES` are 2, 6, 17, 26. The line reset is longer
than the switch sequence (16), which must not contain one, and `LINE_ONES` is
`W + 21`, the least that `SwdAssumption` allows (53 in the code). Four operations are an
initialisation, a failure, what follows it, and one more. In `LogHub` a ring and
a channel of one already overflow with two events, and a restart gives a second
run of as many. Bounds: `MaxReq`, `MaxSent`, `MaxStray`, `MaxBytes`, `MaxUrbs`,
`MaxOps`, `MaxNoise`, `MaxNotes`, `MaxEvents`, `MaxFaults`, `MaxOutages`; each is
a guard of the action that would otherwise go on for ever.

**Deadlock** is checked except in `frame_stream` and `log_hub`, whose models are
done when everything was sent and read. Where an instance runs out of requests,
an oversized request, which is always refused, remains possible; a closed USB/IP
session whose client has left stutters through `Done`, and `main()` through
`MainSleeps`.

**Fairness.** `HostStep(h)` is weakly fair: every await of `request()` is under a
timeout. `Serve` is weakly fair: embassy polls the task, and a send ends because
the peer reads or resets. The failures of the firmware's socket (`ServeFails`)
are possible and never required. `ListenStep` is strongly fair: accept may fail,
but not every time. In `UsbipSession` the session is weakly fair, which includes
the link answering; `RequestReturns` is what justifies that. In `DapCmd` only the
handler's own steps are fair. In `RttMetrics` a call that has begun goes on to its
end, the weak exchange does not fail for ever while nobody else changes the
maximum, and the page, which asks every two seconds, does not get one old value
for ever: stores become visible in finite time; nobody has to call. In `LogHub` a thread finishes a `publish` it has
begun, the server answers and the browser reconnects; nobody has to log. In
`Wifi` timers fire, the driver answers and the access point comes back; outages
are never required. The FIN of a dropped connection arrives in `link_cuts`, where
`SocketReleased` is checked; where it need not (`HostLoss`), the firmware's
socket, which has no timeout, is kept for ever, and the property says so
(`silent`).

**Restrictions in the properties.** The properties of `Swd` hold up to one flipped
sample since `init`, and not after a sample was flipped while the chip waited for
a start bit (`misled`): a flipped bit may then begin a request that nobody sent.
After an unreadable acknowledgement they say nothing of the chip until `init` has
run (`trusted`): the firmware takes the line back at once (`swd.rs:79`) while the
chip may be in a data phase and drive it, and the two do meet there. After a wrong
parity they go on to hold, although the next request follows without idle cycles.
An `Ok` of a write says that the chip acknowledged the request, which is before it has seen the data: a write whose data was garbled on
the way is reported as done. `Complete` in `LogHub` lists the six things after
which an event may be missing on a page; each of them does happen in the run.
`HiddenForAReason` does the same for an event that a page drops. The code prevents
none of these; the properties say that there are no others.

## The abstract specification

`DapRpc` has clients that call, a firmware that runs commands, and replies. It
allows what the retry makes unavoidable and nothing more: a command runs at most
twice; it may run after its call has failed; it never runs after its response was
returned nor behind a later command of the same client; the response returned is
that of the last run; the command run is the payload, cut to the decoder's
buffer. `LinkSystem` implements it through the mapping in `Rpc`, when connections
are not lost inside frames.

## Findings

* `link_errors`: `metrics.rs:45` says that each final failure of the link is
  recorded, but when the reconnect fails `request()` returns past
  `note_link_error` (`link.rs:134`).
* `link_retry`: `link.rs:131` announces a retry of the request, but the firmware's
  decoder is not reset between connections, and after a cut inside a frame it
  completes the cut frame with the first bytes of the retried one and runs that.

Seen while modelling, modelled as the code has it, without a run of their own:

* `cmd/dap.rs:268` retries a WAIT by running the whole transfer again; a WAIT on
  the RDBUFF half of an AP read repeats the AP read, which the chip has performed
  (`PerformedInOrder` allows exactly this repetition).
* `metrics.rs:58-59` loads and stores the average in two steps, so that concurrent
  sessions lose samples; `AverageInRange` is what remains.
* `usbip.rs:247` answers GET_INTERFACE only for request type 0x80, while the
  request goes to an interface (0x81) and is stalled.
* `usbip.rs:25` sends statuses as positive numbers, where the kernel's are
  negative.
* A `DAP_SWJ_Sequence` of count 0, which CMSIS-DAP reads as 256, sends nothing
  (`dap.rs:348`).
* The help text of the host's default target (`main.rs:29`) and the default
  itself (`main.rs:40`) differ.

## Proofs

All proofs are for every value of the constants that meets the named assumptions
of the modules, and cite no others, but for `AnswersFit` below.

**`FrameStreamProofs`** (`FrameAssumption`, `StreamAssumption`: any buffer size
`N >= 1`, any `MAX_REJECTS`, payloads shorter than 65536 bytes, stray bytes other
than the magic): `TypeOK`, `ExactDelivery`, `GarbageIsStray`. `ExactDelivery` is
not inductive: it says nothing of the decoder half way through a frame. `InStep`
adds that the number of bytes of the current frame already fed determines the
decoder (`FedUpTo` in `FrameProofs`): its state, the low length byte it holds, how
many bytes are left, and that its buffer is the prefix of the payload, cut at
`N`. `Write` and `Stray` keep this at once; `Deliver` is `FeedNext`, which rests on
`LengthRoundTrip` for the arithmetic and on `PrefixGrows` and `KeptIsPrefix` for
the sequences.

**`LinkProofs`** (the assumptions of `Frame`, `Tcp`, `DapLink`, `TcpChannel` and
`LinkSystem`): `TypeOK`, `CleanRuns`, `HostInStep`, for any number of sessions,
requests and responses, any buffer, chunk and frame limit, with cuts at every
byte and hosts that vanish. The theorems have `AnswersFit` as a hypothesis: the
handler answers something, and not more than `MAX_FRAME` bytes. It is no ASSUME
because it ranges over all commands, which TLC cannot enumerate; the instances
satisfy it. The inductive invariant `LinkInv` has five parts:

* `TypeOK`;
* `Connected`: at most one host end is live, and it is the firmware's peer;
* `AtLastRequest`: the payload of a busy session is what it was last asked to
  send;
* `FramesOnly`: what a host has of its stream, counting the header bytes it has
  already taken (`View`), is a sequence of whole frames, except that the last one
  may be incomplete; on a live stream it lacks exactly the bytes the firmware has
  still to send (`Unsent`). Where the frames start is an existentially quantified
  set of places, which spares the proof any recursion over the stream;
* `Turns`: on a connection accepted with the decoder at rest, either a request is
  arriving, the decoder having had a certain number of its bytes and the rest
  being on the way (all of it, while the host's end is live), or nothing is coming
  and the firmware waits, or it is answering; and the host holds at most the
  answer it waits for.

`HostInStep` says nothing of a response half read, nor `CleanRuns` of a request
half arrived; `FramesOnly` and `Turns` are what is true of them at every byte.
`FramesOnly` needs no clean connection: the firmware writes whole frames or drops
the connection, while what the decoder has left over matters only to `Turns`.

The same module proves the refinement: `ImplementsRpc`, that is, every step of
host and firmware is a step of `DapRpc` or leaves it alone, for any number of
sessions, requests and connections. The hypotheses are `AnswersFit` and
`~MidFrameLoss`. The second is not for convenience: with connections cut inside a
frame the refinement is false, which is what `link_retry` shows, and `link_cuts`
shows what is left then. The invariant adds `RpcInv` to `LinkInv`:

* `DecoderRests`: every connection begins and ends with the decoder at rest, and
  the garbage verdict never falls;
* `RunsLeft`: a request not written yet has not run and is not on its way; one
  written once has run at most once, and if it has, it is not on its way again;
* `MayRun`: what is on its way may still run: nothing behind it has, it has not
  run twice, and it was not answered already; while the host's end is live it is
  the host's last request;
* `ReadsItsAnswer`: what a session has read of a response, or may read, is the
  start of the response of its request's last run.

That `DapRpc` forbids a third run and a run behind a later command rests on these
together: the firmware has one connection, a host end that is given up is never
written to again, and a retry is written only once.

`CountersAddUp` is proved there too, with cuts at every byte and vanishing hosts.
The counters are global and a session's attempt is local, so `CountInv` counts
sessions: retries exceed the failures by at least the number of sessions in their
second attempt, requests exceed the retries by at least those in their first.

**`RttMetricsProofs`** (`RttAssumption`: any set of sessions, any samples):
`TypeOK`, `MaxIsReached`, `AverageInRange`, `MaxNeverFalls`, and `RttQuietPeak`, the
safety half of `PageSettles`: when every call has had its effect, the maximum is
above all samples, the last one and the average. The
invariant says of each session what its loaded copy of the maximum can be: not
above the static, since that never falls. The compare-and-swap succeeds only on
an unchanged value, which is below the sample.

**`DapCmdProofs`** (`DapAssumption`: requests of any length whose counts fit the
buffer, any retry limit and cap, any number of polls): `TypeOK`, `ResponseFits`,
`WaitIsLastResort`, `PerformedInOrder`, `ResponseIsTrue`, `ConnectMeansPowered`.
`CmdInv` gives the command under way and the number of transfers done, from which
the bytes written follow; `WaitInv` counts the WAITs of the current access;
`PerfInv` chains each access to the one before and says which transfer the last
one belongs to; `WordInv` says that the words collected are those of the reads
done so far; `PowerInv` that the chip reports power only when asked for it.

**`UsbipProofs`** (any number of URBs, any lengths, any setup packets):
`RepliesInOrder`, `InReturnsLatestResponse`, `AnswerFits`, `CountersMatchReplies`.
`Numbered` says that the messages on the wire carry the numbers after those read;
`UsbipInv` adds which URB is in hand in each phase and that the reply being sent is
for it. The properties of the data are about sums: how much of a response the INs
before this one have returned, how many bytes all INs together. The models state
them as cardinalities of sets of pairs (URB, position), which needs no recursion,
and `OneMoreLayer` says how such a set grows by one URB. `DataInv` says what the
next URB will find in `pending`: of the response of the last OUT before it the part
behind what was returned since (`Holds`), less the bytes the reply under way takes
(`Leaving`); while a command is forwarded nothing, and behind a failed OUT nothing
either. `CountInv` has the four endpoint counters run ahead of the replies by
exactly the one that is counted and not yet sent.

**`LogHubProofs`** (`LogAssumption`: any threads, any number of events, restarts and
broken streams, any capacities): `ShownOnce`, `HiddenForAReason`, `Complete`.
`ShownOnce` follows from `Growing`. `HiddenForAReason` needs to know of an event
*before* the page refuses it that there will be a reason. `Behind`: a thread with a
number below one that has left a thread is overtaken. `Turned`: ring, channel and
history are in order but for overtaken events. `BehindShown` and `BehindList`: a
live event with a larger number shown before it, or before it in the history, is
excused already, or is itself earlier in that history; this holds because the
channel carries only what the ring holds or has dropped, which is the order of the
three steps of `publish`. `OfHistory`: while a history is shown, either all of it
came behind a live event, or all that is shown is of it. `Complete` has an
invariant of its own, under the condition that nothing has gone wrong: threads then
publish one after the other (`InTurn`), ring and channel hold consecutive numbers
(`InOrder`), and the page has them up to the first that waits for it or to the end
of its history (`NoHole`).

**`SwdProofs`** (`ChipAssumption`, `SwdAssumption`: words of any width, any number
of idle cycles from two on, any line reset longer than the switch sequence, any
accesses and sequences, any number of operations and of flips): `InStep`,
`NoFight`, `OnlyTheRequest`, `ReadIsTrue`, `RefusalIsTrue`. The bound
`LINE_ONES >= W + 21` is what the proof needs of the code's 60 ones: when `init`
begins, the chip may be about to hear the last bit of a request that it then
answers, and after the answer and a word there must be ones enough for a line
reset, or none at all of which it is in the middle. The invariant `Inv` has four
parts:

* `Host`: in every phase, what the firmware has still to do as a function of how
  many cycles are left (`AckTo`, `DataTo`, `WriteTo`, `FailTo`, `InitTo`), who
  drives the line there, and how many bits have been read;
* `ChipOK`: what the chip may be in the middle of, kept by every edge whatever is
  on the line;
* `Settling`: where the chip is after each cycle of `init`. While the ones of the
  first line reset pass, whatever it was doing comes to an end (`Shaken` bounds
  how long that takes, state by state); then it has heard a reset or waits for
  one, hears the switch, hears the second reset, and waits for a request;
* `Lockstep`: from then on, as long as every acknowledgement was readable and no
  second sample flipped, chip and firmware are at the same cycle of the same transfer,
  and what either has heard of the other differs in one bit at most (`Near`), in
  none as long as nothing was flipped. Or the chip has not understood the request
  (`Garbled`): it stays silent, and the three ones the firmware then reads are no
  acknowledgement.

What one bit can do is a matter of three lemmas: a flipped bit changes the parity
of a word (`NearWord`) and makes a request ill formed (`NearRequest`), and two
acknowledgements differ in two bits (`NearAck`). `InStep` and `NoFight` follow
from both ends being at the same cycle, the other three from what `Lockstep` says
of the chip's history of accesses.

Only model-checked: the release of the socket, the link against a peer that sends
anything (`LinkPeer`), Wi-Fi, and all liveness, since the prover has no rules for
fairness and ENABLED. `EnumerationSucceeds` is about fixed tables and a fixed
sequence of requests, which one run covers.

## Not modelled, and why

Boot code (clocks, heap, radio, pins) and the host's start-up run once from top
to bottom and keep no state. `build.rs` prints linker hints. Of `dap.rs` the texts
of DAP_Info are left out, of `dashboard.html` the limit of 2000 lines, the buttons
and the layout, of `web.rs` the text of its answers. `DapCmd` is not composed with
the link: that a silent reconnect resets `wait_retry` behind the host's back
(`dap.rs:374`) is listed as a hazard and covered by no property.

## Plan

What is left, in the order in which it matters:

1. `LinkPeer`: a proof of `ReturnsFirstFrame`, from the same `View` of the stream
   as in `LinkProofs`.
2. Several USB/IP sessions over `LinkSystem`.
