# A TLA+ model of the spook streaming server

The repository is a collection of C programs around a network camera. Its core
is **spook** (`src/spook/`), an RTSP/RTP streaming server: capture threads for
video and audio hand frames to one event loop, which encodes audio, packs
frames into RTP and sends them to the clients of RTSP sessions. Beside it
stands an MP4 recorder and player (`src/Mp4v2/CMp4Encoder.c`) over a copy of
the third-party library mp4v2 (`src/Mp4v2/mp4v2-2.0.0`), which makes up five
sixths of the repository's lines. The rest are small clients and
demonstrations of system calls. This project models spook, the recorder, and
of the library the sample tables the recorder depends on.

## 1. Inventory

| component | state it keeps | operations | talks to |
|---|---|---|---|
| soft queue (`event.c` 141-330) | two lists of cells, a pipe, a list of listeners, a mutex | `soft_queue_add`, `sq_run`, `add_softqueue_event` | audio thread -> event loop |
| event loop (`event.c` 23-140, 330-460) | lists of fd, timed and always events with flags | `add_*_event`, `remove_event`, `set_event_*`, one pass of `event_loop` | calls every other component |
| frame heap (`frame.c` 23-155) | ring of slots, reference count per frame | `new_frame`, `ref_frame`, `unref_frame` | all threads |
| frame exchanger (`frame.c` 156-290) | ring of slots with `pending` flags, three positions, a pipe | `exchange_frame`, `exchanger_read` (master), `get_next_frame`, `deliver_frame` (slave) | event loop <-> video thread |
| streams (`stream.c`) | destinations with `waiting` flags | `deliver_frame_to_stream`, `set_waiting` | inputs -> encoders -> live |
| inputs and encoder (`input-v4l2.c`, `input-oss.c`, `audio.c`, `encoder-alaw.c`) | capture threads, audio ring | `capture_loop`, `audio_ring_input`, `get_back_frame`, `alaw_encode` | heap, exchanger, soft queue, streams |
| live source (`live.c`, `session.c`) | sessions with one endpoint per track, `playing`, tracks with `ready` | `live_open`, `live_setup`, `live_play`, `live_teardown`, `next_live_frame` | rtsp, rtp, streams |
| RTSP (`rtsp.c`, `rtp.c`, `tcp.c`) | connections with interleave channels, session ids, endpoints | DESCRIBE, SETUP, PLAY, TEARDOWN, lost connections, RTCP | clients, live source |
| connections (`tcp.c`, `pmsg.c`) | request buffer, send ring, HTTP tunnel | `do_read`, `conn_write`, `send_data`, `drop_conn` | RTSP, HTTP |
| packetizers (`rtp.c`, `rtp-h263.c`, `rtp-rawaudio.c`) | frame being cut, sequence numbers, timestamps | `h263_send`, `rawaudio_send`, `send_rtp_packet` | live source |
| UDP endpoints (`rtp.c`) | a pair of sockets and ports, a timer, events | port search, `send_rtp_packet`, `rtcp_send`, `udp_rtp_read` | clients, event loop |
| MP4 recorder (`CMp4Encoder.c`) | track ids, time of the last frame, next samples to read | `OpenMp4Encoder`, `Mp4VEncode`, `Mp4AEncode`, `CloseMp4Encoder`, `OpenMp4Reader`, `Mp4Read*`, `Mp4SeekMedia` | mp4v2 |
| MP4 tracks (`mp4track.cpp`) | chunk buffer, tables of sizes, times, chunks and sync samples, a cached search | `WriteSample`, `WriteChunkBuffer`, `ReadSample`, `GetSampleTimes`, `IsSyncSample` | recorder |
| HTTP, authentication, control, configuration | realms, locations, parse tables | request handlers, parser | connections |

**What is hard here.** Three threads share the frame heap, the soft queue and
the exchanger under four kinds of mutex, one of the exchanger's functions
takes none, and two pipes must stay in step with the rings they announce.
Errors are handled by dropping, by leaving a mutex locked or not at all, so a
good part of correctness is that the error paths are unreachable. The heap is
one fixed pool used by paths that do not know each other. On the network side
everything runs in callbacks, but endpoints end in many ways (TEARDOWN of a
track or a session, a refused SETUP, a lost connection, a socket error while
sending to others) and each must clean up exactly what belongs to it while
other sessions share its connection or its tracks. Audio frames are not
copied out of the ring they were recorded into, requests are cut anywhere by
TCP, and a recording can only be read if five run-length tables agree with
where two interleaved tracks were written. `PROJECT.json` lists the
hazards one by one, each at its line.

## 2. Modules and the code they model

`SoftQueue` (`event.c`). One step per critical section of `sq->mutex`; the two
system calls made *inside* a critical section, `write` in `soft_queue_add` and
`read` in `sq_run`, are steps of their own so that they may block. Cells are
numbers, lists are sequences (`add_to_list` appends, removal is always of the
head), the pipe is a number of bytes. A listener is called with the mutex
released and may add listeners then. `PipeFaults` lets `pipe()` and `read()`
fail. `BoundedFifo` is its abstract specification: a bounded FIFO whose
consumer handles one item at a time.

`FrameBuffers` declares the frame buffers (`Frames`, `NULL`) that the two
modules about `frame.c` share.

`FrameHeap` (`frame.c`). `heap` is the ring of slots, `take` and `put` its two
positions. The last `unref_frame` is two steps, because it releases the
frame's mutex before it takes the heap's (`dying` holds the frames between the
two). `stuck` is the early return that leaves `frame_heap_mutex` locked.

`Exchanger` (`frame.c`, `input-v4l2.c`). Master (event loop) and slave (capture
thread) with their program counters. `deliver_frame`, which takes no mutex, is
three steps. `exchange_frame` has its "full" branch, which forgets the frame;
`get_back_frame` passes `new_frame`'s NULL on as the code does. The pipe's
error paths are left out: both ends belong to the process and stay open.

`MediaPipeline` composes the heap and the exchanger (it EXTENDS the modules
above, so that their actions are its building blocks and their lemmas can be
cited) and the soft queue (INSTANCE of `BoundedFifo`, which `SoftQueue` is
shown to implement) with `stream.c`, both `get_back_frame`s, `audio_ring_input` and
`alaw_encode`. The event loop's program counter `mpc` moves one mutex
operation at a time, so capture threads interleave inside a delivery. A failed
`new_frame` in `alaw_encode` leads to the place `crashed` (the code writes
through the NULL). To `Exchanger` the master has only the places it passes with
a video frame (`master_pc`), the audio path is the others that hold frames, and
`ImplementsExchanger` says that with this mapping every behaviour of the
pipeline is one of `Exchanger`.

`RtspLive` (`rtsp.c`, `live.c`, `session.c`, `rtp.c`, parts of `tcp.c` and
`stream.c`). One step per callback of the event loop. An endpoint is named by
its session and track, with the way it sends: UDP, or a connection and a
channel. `waiting` is the demand flag of the track's stream destination,
`ready` whether its first frame has come. `armed` and `early` are history
variables used by properties only. Request parsing is abstracted to the choice
of parameters; a refused DESCRIBE leaks its session as the code does.

`EventLoop` (`event.c`). The descriptor events and one pass of `event_loop`:
`select` marks the enabled events whose descriptor is reported, `call` calls
one of them, `strip_events` ends the pass. `change_events` is what a callback
does through `add_fd_event`, `set_event_enabled` and `remove_event`. The order
within a pass is left open. Timed events are in `UdpEndpoints`, always events
have no user.

`TcpConn` (`tcp.c`) puts connections on that loop: `do_accept`, the ways
`do_read` goes on or ends, `conn_write`, `drop_conn`, and the RTSP-over-HTTP
tunnel, whose POST hands its descriptor to the connection of the GET. Freed
addresses and closed descriptor numbers may be given out again at once, as by
`malloc` and the kernel; an event gets an address that is not on the list. The
send ring is abstracted to "has unsent bytes", RTSP requests to "is answered".
As built, the server registers no HTTP location (`http_init` has no caller), so
a plain HTTP request gets an error and ends the connection.

`SendRing` (`tcp.c`, `interleave_send` of `rtsp.c`) is the buffer that `TcpConn`
abstracts: two positions, messages sent as head and body, partial writes.
`ByteStream` is what it promises.

`H264Packets` (`rtp-h263.c`, `send_rtp_packet` of `rtp.c`): the search for start
codes, the split into NAL units, single packets and FU-A fragments, sequence
numbers and the marker, for one endpoint that may lose packets. `Receive` is
the client's side, from RFC 6184, and the frames are the encoder's; both are
outside the repository.

`AudioPath` (`audio.c`, `input-oss.c`, `encoder-alaw.c`, `rtp-rawaudio.c`)
follows single samples: the audio thread puts them into its ring, leaves one
out or doubles one as the rate meter asks, and queues a *pointer* for each
complete block; the event loop reads them there, sample by sample, while the
thread goes on writing. `alaw_encode` gives `g711a_encode` the block's length in
*bytes* where it wants a number of samples (`encoder-alaw.c` 284), so the
encoder reads and writes a second block's worth behind the block, for the last
block of the ring behind the buffer itself. Only the first half is sent, and
`EncodeSample` stops where that ends: no property sees the rest.
A sample is the number it has in the input, so that a
wrong one is recognized. The meter's arithmetic on wall-clock time is
abstracted to "any of `Rates`, at any call". A frame may be lost at `new_frame`
or at the queue (`MediaPipeline` says when).

`G711` (`encoder-alaw.c`): both conversions in both directions, as functions.

`UdpEndpoints` (`rtp.c`, timers of `event.c`): `connect_udp_endpoint` one system
call at a time, with ports that other processes bind and close in between;
sending, the timer of the sender reports, errors that come back from a client
that has gone, and `del_rtp_endpoint` in the middle of a pass. `due` counts
seconds to the timer's next time, which moves from the time it *was* due, so a
late timer catches up. Of `rtcp_send`'s time check nothing is left but its
comment: it only writes to the log.

`Requests` (`tcp.c` `do_read`, `unbase64`, `parse_client_data`; `pmsg.c`) is the
receiving side of a connection. A byte is its message's number and its place,
so that the buffer can be compared with what was sent; of the text the end of
the first line and the end of the request matter.

`Mp4Track` (`mp4track.cpp`, `atom_stsc.cpp`): a track as a record and its
operations as functions of it: the sample tables being written, and the
search for a sample's place, time and sync flag; what a loop adds up is `Total`,
and the search for a sync sample a table by the number of entries left.
`Mp4Recorder`
(`CMp4Encoder.c`) is the recorder and player over two such tracks that share
a file. 32- and 64-bit widths are the constants `U32` and `U64`. Times become
ticks by division and multiplication of doubles (`PTS2TIME_SCALE`), whose
fraction is cut off: products that are whole numbers come out as that number or
one less. `ShortTimes` are the differences for which it is one less (300, 600,
700000 microseconds and others). Products that are not whole are a
hundredth of a tick or more away from the next whole number, far more than the
error of a double for every difference under seven seconds, and longer ones are
replaced by the duration of a frame.

The modules `*Proofs` hold the theorems about the module of that name
(`MediaPipelineProofs` also those about `FrameHeap` and `Exchanger`, which the
pipeline is made of; `RtpMediaProofs` those about `AudioPath` and `H264Packets`;
`ConnBuffersProofs` those about `SendRing` and `Requests`), the modules `MC*`
the instances for TLC. Operators whose comment starts with "Slip:" are wrong
variants of the definition that follows them; no specification uses them, they
document that the properties notice the mistake.

## 3. Runs

| run | what it shows | instance |
|---|---|---|
| `soft_queue_safety` | cells conserved, one wake-up byte per item, no blocking call under the mutex, no NULL item, oneshot listeners called once (a feature of `event.c` no caller in spook uses for a soft queue) - with failing pipes | 3 cells, pipe of 3, 2 producers, 2 listeners (one oneshot), 2 items |
| `soft_queue_live` | every item is served; the queue implements `BoundedFifo`, fairness included | 2 cells, no faults |
| `exchanger` | no frame dropped, bytes announce delivered frames, the slave owns its slot without a lock, and starvation happens exactly through a NULL put into the ring | 3 slots, 5 frames |
| `pipeline_small_heap` | exact reference counts over three threads on a heap that runs out; every frame in exactly one place; the error path of `unref_frame` is unreachable; `new_frame` fails only on an empty heap, and how many queued audio frames that takes; the video path implements `Exchanger` | 4 frames, 2 slots, queue of 3 |
| `pipeline_live` | slots + queue length + 3 frames always suffice, and with them video keeps flowing | 5 frames, 1 slot, queue of 1 |
| `rtsp_sessions` | endpoints, channels, sessions and track demand stay consistent | 2 connections, 2 sessions, 2 tracks, 4 channels |
| `tcp_connections` | callbacks of a pass never meet a freed connection; every open descriptor has one owner and only open ones are watched; buffered bytes and last replies go out | 2 connections, 3 descriptors, 1 cookie |
| `conn_buffers` | the send ring is a byte stream that takes whole messages; requests and packets are found again however the stream is cut | ring of 6 with messages of 2 to 6 bytes; request buffer of 9 with messages of 4 to 8, 3 messages, with and without base64 |
| `rtp_media` | the client rebuilds the units it can, sees every loss, finds the end of frames; audio blocks are whole and in order, stale only behind a backlog, timestamps count samples; every sample survives the codec | packets of 2, slices of 1 to 5 bytes, 4 sequence numbers; audio blocks of 2 in a ring of 6, 9 samples; all 65536 samples |
| `udp_endpoints` | a free pair is found; sockets and ports have one owner; callbacks find their endpoint; endpoints of gone clients are removed | 2 endpoints, 2 pairs of ports, 5 descriptors |
| `mp4` | every sample of a recording is found again with its time and sync flag, in any order of reads and seeks, and only samples before the first sync sample make the lookup of the flag throw; video frames keep their time | 3 video frames of up to 2 slices each, 2 audio frames |
| `mp4_long` | expects a violation: behind a run of equal durations that is longer than 32 bits of ticks, `GetSampleTimes` answers a start that is too early | 4 video frames, `U32` scaled down to less than two of them |

**Bounds.** Three cells or slots are the fewest for which a ring has a first,
a middle and a last place, and with two or three the full and the empty state
are both reached. Two producers are needed for a contended mutex, a third
behaves like the second. `pipeline_small_heap` has 4 frames against a demand of
2 + 3 + 3, so every way of running out occurs; the heap of `pipeline_live` is
exactly at the bound `HeapSuffices` names. `MaxRef` caps reference counts (at most two
holders exist in the pipeline). In `rtsp_sessions` two of each kind let one
session end while another uses the same connection or track; 4 channels give
overlapping odd and even pairs; `MaxLeaked` bounds sessions a refused DESCRIBE
leaks. In `tcp_connections` two connections are what a tunnel needs, and the
third descriptor lets a number be free while both connections hold one; one
cookie and the empty one give tunnels that match and tunnels that do not;
`Names` bounds the addresses an event of a connection can have, and three are
enough for one on the list and two removed in the same pass. The
ring of 6 holds 5 bytes, so the longest message never fits, two short ones do
and every message wraps somewhere. Slices of 1 to 5 bytes in packets of 2 are
a single packet and two or three fragments with a full and a short last one;
`MaxLost` keeps losses in a row below the number of sequence numbers, as 65535
would. The audio ring of three blocks is the one the server has (16000 bytes
against 4608), 7 samples a second leave one to be cut off, and 9 samples fill
it one and a half times. The request buffer of 9 takes all messages but the
longest, and the next shorter only without base64; 3 messages let one be lost
between two others. Two pairs of ports make every start wrap or not, and five
descriptors are one more than two endpoints need, so that leaked ones run out.
In `mp4` two audio samples fill a chunk and a video sample of a second does,
the times include 0, repetitions, steps back, a gap of more than seven
seconds and one of 0.7 seconds, which costs a tick (it is in
`ShortTimes`), and up to six video samples give `stts` several runs. Several
instances share a run where they share nothing else (`rtp_media`,
`conn_buffers`): a behaviour is of one of them from the start. Symmetry is used in
safety runs only. CHECK_DEADLOCK FALSE is given
where the system really can stop: after a pipe fault
(`soft_queue_safety`), after starvation (`exchanger` has only stuttering left),
after the crash in `alaw_encode` (`pipeline_small_heap`), and where the input
is bounded (`conn_buffers`, `rtp_media`).

**Fairness.** Threads are preemptively scheduled and the event loop's callbacks
end, so their steps are weakly fair. Mutexes: strong fairness for taking one
that is released again and again (`sq_run_lock`, `sq_run_relock`). The video
encoder may fail, not for ever (strong fairness of `encode`).
`event_loop` serves every ready descriptor in a pass, so a readable exchanger
is served although audio is ready too (strong fairness of `exchanger_ready`).
Producers and clients are under no obligation to act. In `udp_endpoints`
requests and frames are callbacks of the same passes, so however many come,
`select` is reached again and the timers and sockets it reports get their turn
(strong fairness of `select`, `udp_read`), and time passes. That the answer to
a report sent to a closed port is not lost every time is strong fairness of
the network, the one assumption that is not the server's.

## 4. What the models say about the code

* The two pipes are right: the blocking calls under `sq->mutex` never block as
  long as a queue is no longer than the pipe's capacity (16 against 65536).
* The unlocked `deliver_frame` is right: the master cannot reach its slot.
* The exhausted heap is the weak spot. Configured with 25 frames, 10 slots and
  a queue of 16, the heap is smaller than the 29 that always suffice; with 14
  audio frames queued behind a slow callback `get_back_frame` puts NULL into
  the exchanger, after which video stops for good, and with 13 `alaw_encode`
  writes through NULL. `OutOnlyBehindBacklog`, `StarvationIsPermanent` and
  `HeapSuffices` state exactly that.
* A track whose endpoint is torn down before its first frame never becomes
  ready (`UnreadyTracksWait` names the exception), and a session told to play
  before a track's first frame gets frames only after the next PLAY
  (`PlayedTracksFlow` promises frames to the others only).
* Removing events by flag and stripping them at the end of the pass is what
  makes it safe to free connections inside callbacks; `remove_event` must
  clear EVENT_F_RUNNING for that, and does.
* All writers check the room for a whole message first, so the refusals of the
  single `send_data` calls never happen and no message is torn.
* A packet that finds the send ring full uses up a sequence number although it
  is not sent (`rtp.c` 388): without that, giving up in the middle of a frame
  would be invisible to the client.
* The marker is put on every unit but parameter sets and SEI, and on the last
  fragment of any unit. It ends a frame only if the encoder makes one slice
  per frame and small parameter sets.
* Queued audio frames are pointers into a ring of three blocks: an event loop
  that is two blocks (0.6 s) late sends newer samples in place of older ones,
  long before the queue of sixteen is full (`StaleOnlyBehindBacklog`).
* The A-law encoder is within the precision of its segments except for the
  seven samples just below zero, which come out as -248: faint noise around
  silence is amplified (`SamplesSurvive`).
* The port search does try every pair. A search that finds none leaves its two
  sockets open; no other path does (`SocketsAccounted`).
* A UDP client is removed when its port answers "unreachable", never for being
  silent: the check for 20 seconds without RTCP only writes to the log.
* A request empties the request buffer with whatever follows it in the same
  read: a client that does not wait for replies loses messages
  (`RequestsSurviveCuts` promises the others all of theirs). In the tunnel a
  request may be refused as too long up to three bytes earlier.
* The recorder gives a frame the time since the frame *before* it, and the
  player hands out the start of the sample *after* the one it returns; the two
  shifts cancel but for rounding, at most one tick for each later frame
  (`FramesKeepTheirTime`). The player never returns the last
  sample of a track. Units with start codes of three bytes are ignored,
  although the comment above `Mp4VEncode` lists IDR slices among them. The
  tables are written by `CloseMp4Encoder` only, so a recording cut off by a
  crash cannot be read.
* Behind a run of evenly spaced video of more than 13 hours, samples start too
  early: `GetSampleTimes` (`mp4track.cpp` 1096) multiplies two 32-bit numbers
  before it adds the product to a 64-bit time. `mp4v2/sample.h` 436 promises
  "the start time of the specified sample"; `mp4_long` shows the difference, and
  `RunsFit` is the condition under which there is none.
* For a sample before the first sync sample of a track, `MP4GetSampleSync`
  answers -1, although `mp4v2/sample.h` 547 promises 1 or 0, and -1 only on an
  error: the binary search of `IsSyncSample` (`mp4track.cpp` 1366-1393) takes its
  unsigned right end below 0, the lookup with it throws, and `mp4.cpp` catches
  that. A recording begins so when its first frame is not an IDR frame.
  `SamplesReadBack` states the exact answer for every sample
  (`SyncAnswer`).
* `Mp4AEncode` takes any frame longer than nothing and cuts off 7 bytes of header
  (`CMp4Encoder.c` 479-482): with 1 to 6 bytes the length becomes negative. The
  model assumes ADTS frames, which have their header (`AacSizes`).

## 5. Proofs

`SoftQueueProofs` proves, for every number of cells, producers, listeners and
items, the type invariant and every safety property of `soft_queue_safety`,
and that every step refines `BoundedFifo` (the safety part of
`ImplementsFifo`). Assumptions: at least one cell, no more cells than the pipe
takes bytes, distinct thread names, NULL not queued. No property is inductive
alone. The invariant adds *who holds the mutex* (`Ownership`: a producer holds
it exactly between taking a cell and writing its byte, so at most one item is
without a byte), the balance of items and bytes in those terms (`Balance`; the
property counts writers with Cardinality, which the proof does only at the
end), what the places of the event loop imply (`Places`), that queued cells
carry items (`Filled`), that no cell is on two places (`NoSharing`), and that
called oneshot listeners are off the list before the next item (`Retired`).

`MediaPipelineProofs` proves, in its first part, all properties of
the frame heap, for every finite set of frames and callers that take, share and
return frames in any order (`HeapSpec`; the callers TLC runs are those of the
pipeline). The invariant adds `HeapRing`: the occupied slots are those from
`take` up to `put`, going round, and for `take = put` all or none. That a
returning frame finds room is then a counting argument: a full ring holds
every frame, so none is on its way.

It also proves the safety properties of `exchanger` for every number of slots
and frames. What makes them inductive is the geometry of the three positions
(`Cursors`): the master writes where it has read, and the slave is as many
slots ahead of `master_read` as there are bytes in the pipe. `Slotted` says
what lies in the slots on either side: delivered ones are out of the slave's
reach, all others are pending and hold a frame or the NULL of a drained heap.
`deliver_frame` without its mutex is sound because the slot it clears is on
the slave's side of that border. `StarvationIsPermanent` is an action property
proved from the same invariant: the NULL stays where the slave polls, and the
master never comes there.

Its last part proves all safety properties of the two pipeline runs for every
number of frames, slots and queue cells (`Slots < Count` as built: 10 and 25),
those of the heap once more, under the pipeline's own specification.
The invariants of heap and exchanger are kept by the lemmas of the parts before,
since a step of the pipeline that touches one of them is a step of it. New are
`Where` (which frame variables are in use at which place of the event loop and
the audio thread), `Returning` (a frame without references is in the hands of
the one thread that is about to put it back, so no two threads do) and the
exact reference counts themselves: a step of the pipeline adds, removes or
moves one holder (`Joins`, `Leaves`, `Moves`). `RefCountsExact` is these counts
(`Counted`) and the types. `PipelineIsExchanger` is the refinement
`Spec => ImplementsExchanger`, step by step; its point is `NewFrameUnused`, that
a frame `new_frame` hands out has no holder and so is neither in the ring nor
with the master, which `Exchanger` requires of its environment. What is proved
of `Exchanger` thereby holds in the pipeline. `OutOnlyBehindBacklog` and
`HeapSuffices` are then one count: when the heap is empty every frame has a
holder, slots and places hold at most so many, and the rest are in the queue.

`RtspLiveProofs` proves the four properties of `rtsp_sessions` for every number
of connections, sessions, tracks and channels. They are inductive together
with `Paired` (an endpoint's second channel is inside the table) and
`ArmedPlay` (who was told to play is an endpoint of a playing session). The
work is in `del_rtp_endpoint` and its callers, which remove several endpoints
in one step.

`TcpConnProofs` proves the three properties of `tcp_connections` for every
number of connections, descriptors and event addresses. The invariant adds
that the events of a connection carry its descriptors and its address
(`Wired`), that every event on the list that is not marked for removal belongs
to a live connection (`Known`), and that a marked one is neither enabled nor
running (`Removed`). The last is why a freed connection is not met by the rest
of the pass, also when its address and its descriptor are in use again.

`UdpEndpointsProofs` proves the three safety properties of `udp_endpoints` for
every range of ports, number of endpoints and descriptors, with any
interference by other processes. `Searching`, `Endpoints` and `PortsOfSearch`
describe what `connect_udp_endpoint` has at each of its system calls. For
`FreePairFound` the invariant measures how far ahead of the search a pair lies
(`Untried`): a pair that stayed free is less than the remaining tries ahead,
going round the range, so after `max_tries` none is left.

`RtpMediaProofs` proves the three audio properties of `rtp_media` for every
block length, ring, queue, correction and cut of the input. Assumption: the
ring holds at least two blocks (three as built); in a ring of one a doubled
sample would overwrite the block it completes. `RingInv` says that the
position of reading is a multiple of the block length and writing is `avail`
ahead of it, so a block never goes round the end of the ring, and that what
lies between is the newest part of the sample stream. `Good` describes a frame
on its way: a piece of the stream, and as long as fewer blocks, itself
included, have been completed than the ring holds, still where it was recorded,
with the thread that many blocks ahead. One round of the loop is packaged as
`Round(c)` (c copies of a sample); `Apart` is the arithmetic of why it misses
every such frame.

It also proves `LossIsVisible`, for every set of frames, packet length and
number of sequence numbers. The invariant says how far the client is behind:
the next number is one more than the last received plus the packets lost
since, on the circle of numbers. Assumption: fewer packets are lost in a row
than there are numbers (`MaxLost`): 65536 lost in a row bring the numbers
round to where they were, and no client could notice.

The same module proves `UnitsRebuilt`, for every frame an encoder may make and
every loss of packets. `UnitsInv` says of a frame being sent which of its units
are cut off already (`Searched`: the search for start codes has found the
units one by one, in order, with nothing between them), and what the packets
sent for the current one are, joined; a client that has missed none of them
has the beginning of that unit. What the search and the parser compute is
found by induction over the number of bytes looked at. `EncoderAssumption`
states what an encoder's frames are (ITU-T H.264, annex B): no start code and no
trailing zero inside a unit, slices behind the parameter sets, parameter sets
that fit a packet; without it the search could not find the units.

`ConnBuffersProofs` is about the two buffers of a connection. A send ring of
any size with any messages keeps its positions inside the buffer and
implements `ByteStream`, as one theorem `Spec => ImplementsByteStream` (no
fairness is involved). The invariant only adds that `conn_write` runs for an
existing connection; the work is in lemmas about going round (`EndMoves`,
`StartMoves`, `SeenFrom`), from which follow that `send_data` appends
(`SendAppends`), that head and body append as one message (`MessageAppends`) and
that a partial write takes a prefix (`WriteTakes`). Assumption: the buffer has
at least one byte and messages consist of bytes.

`RequestsSurviveCuts` holds for every sequence of messages, every way the
network cuts them and every size of the buffer. `ReqInv` says that the request
buffer, the unfinished group of four base64 characters and what is still on
the wire make up, in this order, one stretch of the client's stream without a
gap, which begins where the last message handed on ended. The work is in
`unbase64`, whose loop keeps that the characters it has taken are the codes of
the bytes it has written.

`Mp4RecorderProofs` proves `SamplesReadBack` and `FramesKeepTheirTime` for
every sequence of frames, sizes and times, every frame and sample rate and
every order of reads and seeks. Let L be the samples written to a track.
`RecorderInv` says, phase by phase, what its tables have to do with L:

* `Listed`: the sizes are those of L, one for all or one for each (`SizesOK`);
  the runs of `stts` cut L into stretches of one duration (`Timed`, with b[i]
  the first sample of run i); `stss` lists the sync samples in ascending order,
  or is absent (`SyncOK`).
* `Stored`: there are tables `fs`, the first sample of each chunk, and `off`,
  the offset of each sample in its chunk, such that every chunk of the file and
  the buffer hold their samples there byte for byte (`Placed`) and the runs of
  `stsc` count the samples of each chunk (`Counted`).
* while reading, `Ready`: `firstSample` of each run of chunks is right (`At`),
  and the cached run is one that the search from the first run would pass, with
  the time before it (`CacheOK`).

The two tracks meet in the file only, and a file that grows moves nothing
(`StoredStays`), so the invariant of a track survives what the other writes.
`SampleWritten` is `WriteSample` with its full or half-full buffer,
`BufferWritten` the flush, `TrackRead` the sums of `MP4StscAtom::Read`. Reading
is one lemma a loop: `ChunkFound` and `OffsetRead` (the run, the chunk by
division, the sizes before the sample), `TimesRead` and `StartFound`,
`SyncFound` (halving an ascending list finds what is in it and nothing else, and
leaves the list on its left, where the code throws, if and only if all of it
lies beyond). For the times, `Follows` says that a video sample lasts as long as
the time since the sample before it. The durations are rounded down one by one,
and `SteadyTimes` adds up that the k - 1 before sample k lose at most k - 1
ticks, those of `ShortTimes` included: such a difference is a whole number of
ticks and loses nothing else.

Assumptions (`RecorderAssumption`): rates are not zero, seven seconds of ticks
are less than 2^32, AAC frames have their 7 bytes of header, `ShortTimes` are whole
numbers of ticks and not 0, and a seek names a
length that is not zero (`Mp4SeekMedia` divides by it). The start of a sample
is promised on a condition the proof brought to light, `RunsFit`: no run of
equal durations lasts longer than 32 bits of ticks, 13 hours of video, because
`GetSampleTimes` multiplies count and duration in 32 bits. The recordings of
`mp4` are not that long; `mp4_long` shows what happens to one that is. The
invariant itself quantifies over tables of numbers, which TLC cannot enumerate;
TLC checks the two properties it implies.

All constants are arbitrary up to the assumptions named in the modules. Those
about `NULL` and the other marks (`NullAssumption`, parts of `TcpAssumption`,
`UdpAssumption`, `RtspAssumption`) only say that a mark is not confused with
the values it is a mark among; TLC gets that from model values.

Only model-checked:

* liveness and the fairness part of the refinements (`EveryItemServed`,
  `ImplementsFifo`, `CaptureNeverStarves`, `VideoKeepsFlowing`,
  `GoneClientRemoved`): outside the prover's reach;
* `SamplesSurvive`: `G711` uses Bitwise, which no module with a theorem may
  reach. It has no constants to generalise: TLC checks all 65536 samples, which
  is every case there is.

Induction over the natural numbers is used in the form of a lemma about a *set*
of numbers (`Induction`, from `NatLessThanWellFounded`), because the library's
rule takes an operator as a parameter, which the provers cannot instantiate.

## 6. Plan

All modules of the plan are written, and every invariant that has a parameter
is proved for all its values. What is left is liveness, which stays with TLC.

**Not modelled:**

* mp4v2 beyond the sample tables: third-party code (atoms, properties, hint
  tracks, iTunes metadata, command-line tools) that this repository only
  links. It is five sixths of the repository's lines, so a model of the
  repository's own logic covers a small share of all of them: well over a
  third of spook's C code and two thirds of the recorder, a fiftieth of mp4v2's
  `src/`.
* Drivers that call vendor libraries (`anyka_media.c`), which are not in the
  repository.
* Pixel arithmetic (`conversions.c`) and `sound_conv.c`, MD5, logging.
* Configuration (`conf_parse.c`, `conf_scan.c`): runs once, over a token list
  built into the program, before any thread starts; the models begin with the
  state it leaves.
* HTTP serving and control: compiled in, but `http_init` and `control_listen` have
  no caller. Authentication only as the choice "accepted or not".
* Wall-clock arithmetic of the rate meter and of RTCP reports.
* The demonstration programs and the one-shot message clients.
