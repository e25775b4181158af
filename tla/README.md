# SDR-RDMA over UDP: specifications, checks and proofs

This directory models the core of `sdr-udp/`: a software version of SDR (software-defined
RDMA) in which a sender transmits one message as UDP datagrams to a receiver that tracks
them in a packet bitmap, shows whole chunks in a chunk bitmap, and lets the application
decide when what has arrived is enough. Two reliability layers, Selective Repeat and
erasure coding, are built on that. A TCP connection carries control messages.

Paths below are relative to the repository root. File names without a directory are under
`sdr-udp/`.

## 1. The system

| Part | State | Operations | Talks to |
| --- | --- | --- | --- |
| UDP receiver (`sdr_receiver.h`) | one thread per channel, `should_stop_`, sockets | `start`, `stop`, `receiver_thread_func`, `process_packet`, `write_packet_to_buffer` | reads the slot of a message, writes the user's buffer and the packet bitmap |
| Packet bitmap (`sdr_backend.h`) | atomic words, one bit per packet | `set_packet_received`, `is_packet_received`, `is_chunk_complete` | written by workers, read by the poller |
| Chunk bitmap and poller (`sdr_frontend.h`) | atomic words, a thread, `should_stop_`, condition variable | `start_polling`, `stop_polling`, `update_chunk_bitmap` | read by the application and by both reliability layers |
| Message slots (`sdr_connection.h`) | `msg_table_`, `generation_counters_`, a null sink of one byte | `allocate_message_slot`, `get_message`, `complete_message` | the API allocates and completes, workers look up |
| API (`sdr_api.cpp`) | `next_msg_id`, `receiver_generation_counter`, handles | `sdr_recv_post`, `sdr_recv_complete`, `sdr_send_post`, `sdr_send_poll`, `sdr_disconnect`, stream calls | everything |
| Control channel (`tcp_control.cpp`) | two sockets with a 200 ms receive timeout | `send_message`, `receive_message` | API and reliability layers, single-threaded at each end |
| Selective Repeat (`reliability/sr.cpp`) | `chunk_acked_`, `ack_base_`, window, time stamps | `start_send`, `poll`; `pump` | SR_NACK, SR_ACK and COMPLETE_ACK over the control channel |
| Erasure coding (`reliability/ec.cpp`) | stripes, retry count, fallback flag | `encode_and_send`, `poll`; `try_decode` | EC_ACK, EC_NACK, EC_FALLBACK_SR |
| Receiver application (`examples/sdr_test_receiver.cpp`) | parameters, progress, limits | set parameters, the receive loop | `pump` or `try_decode`, then `sdr_recv_complete` |
| Sender application (`examples/sdr_test_sender.cpp`) | parameters, mode | set parameters, send, poll | `start_send`, `encode_and_send` or `sdr_send_post`, then `poll` |
| Configuration (`config_parser.cpp`) | key/value pairs | `load_from_file`, `get_uint32` | read by both programs before they set parameters |

What is hard here: worker threads, poller and application thread share a message slot
without a common lock; a receive may be completed early, while packets still come in;
threads are joined on flags set outside the lock; datagrams are lost, duplicated, reordered
and late; control messages are assembled from several reads of a changing bitmap and carry
no message id; completion, give-up, timeouts and the end of the connection race each other;
message ids wrap around and both ends count ids and generations on their own; sizes are
configured at both ends, narrowed, capped, defaulted and negotiated in several places, and
three loops cut the same message into packets.

The hazards, each at its line and with the properties aimed at it, are listed in
`PROJECT.json`.

## 2. Modules

| Module | Models |
| --- | --- |
| `PartialCompletion` | abstract specification of one receive: packets land, chunks are shown, the receive ends once with a true verdict |
| `ReceivePath` | the threads of one receive: application, workers, poller |
| `ReceivePath_proofs` | theorems about `ReceivePath`, for all constants |
| `ReliableTransfer` | abstract specification of one transfer with a reliability layer: a true verdict, and a result of `poll` that follows from it |
| `SelectiveRepeat` | `SRSender`, `SRReceiver::pump`, the receive loop, lossy data path, control queue |
| `SelectiveRepeat_proofs` | theorems about `SelectiveRepeat`, for all constants |
| `Rendezvous` | successive transfers: handshake, ids, generations, slots, verdicts; broken connections and restarts |
| `Rendezvous_proofs` | theorems about `Rendezvous`, for all constants |
| `ErasureCoding` | `ECSender`, `ECReceiver::try_decode`, the receive loop |
| `ErasureCoding_proofs` | theorems about `ErasureCoding`, for all constants |
| `MessageChannel` | abstract specification of one direction of the control connection: a queue of messages |
| `ControlChannel` | `send_message` and `receive_message` over a byte stream |
| `ControlChannel_proofs` | theorems about `ControlChannel`, for all constants |
| `Negotiation` | configuration, OFFER and CTS parameters, layout, packets, ports, places in the buffer |
| `MCNegotiation` | configuration files for both programs |
| `Negotiation_proofs` | theorems about `Negotiation`, for all constants |

`PROJECT.json` maps every definition that models code to its lines.

### ReceivePath

One posted receive, from the arrival of the OFFER to `sdr_disconnect`. `app` is where the
application thread is in the API; `wpc`, `pkt` and `ptr` are each worker's program counter,
packet and buffer pointer; `poller` and `scan` those of the poller. An action ends where a
thread touches something another thread uses: `process_packet` is `WRecv` (slot look-up,
generation, state), `WDup`, `WBounds` (pointer read), `WCopy`, `WMark`; `stop_polling` is
three steps because the flag is set without the mutex; `complete_message` is two steps,
state and then pointer. `buffer` is not atomic, so the copy may use the pointer read before
or a second read of it. `null_sink_` is one byte (`sdr_connection.h:105`) and a copy is bounded
by the size of the posted buffer only, so a late copy that finds the redirected pointer writes
behind the sink, on the heap, unless it is a first packet of one byte (`InSink`). What it
hits is not known: `RunPastSink` leaves the user's buffer as it is or changes any packet of it,
and the history variable `overrun` records that it happened. A bitmap is the set of its ones. `CheckChunkRange` looks at it as
`check_chunk_range` does, in words of `WordSize` bits, with a mask for the first and for the
last word of the range and all ones between. It is one step: the code loads the words one
after the other, but bits are only set, so it finds a range complete only if it is
complete at the last load, and a bit missed is found by the next scan. The header's
offset field keeps its width (`OffsetSpace`), and the limit of 2^18 packets per message
which the documentation states is an assumption here (`OffsetAssumption`); the code does not
check it, and `Negotiation` models what happens beyond it. `sdr_recv_complete` also takes a
slot in state COMPLETED for complete; only erasure coding sets that state, so that branch is
in `ErasureCoding` (`IsComplete`).

### SelectiveRepeat

Data is modelled a chunk at a time: a transmitted chunk arrives or is lost. `recent` are
chunks younger than the retransmission guard. One `pump` reads the bitmap again and again:
cumulative chunk, bitmap, first missing chunk, the run it starts (which reads that chunk a
second time), list of gaps, count. Each read may see more than the one before, and any of those
combinations may end up in one message. If the first missing chunk completes between its two
reads, `missing_len` is 0 although chunks may be missing; the count then decides between
COMPLETE_ACK and SR_ACK (`PumpType`). The limits of a control message and of the resend loops
are constants. `total_chunks`, `gap_start` and `gap_len` of a message and `max_inflight_` have
16 bits (`FieldSpace`): a gap longer than its field is cut and the chunk after the cut passed
over, and `total_chunks` wraps. The sender's 200 ms receive timeout may expire
whenever no control message is waiting and sends `poll` into `sdr_send_poll`; the history
variable `timedOut` records that it did.

### Rendezvous

A transfer's data is one datagram, which stays in the network for ever. The control
connection is two queues that a break cuts at any point. Either process may end and start
again, with the counters it keeps in memory starting over, and the two then reconnect. A
send post may fail after its ACCEPT (`SendDataFails`: no socket, or an address that does not
parse) and a receive post after its slot is allocated. Between transfers the sender may call
`sdr_send_stream_start` (`StreamStart`), which sends nothing and reads one control message: a
CTS starts a stream and takes a message id, anything else is consumed, and the end of the
connection is noticed. `Break` is an end of the connection that both sides notice sooner or
later; the code sets no keepalive, so a silent partition is noticed by neither, and every wait
then goes on for ever.

### ErasureCoding

The content of a chunk of memory is the number of the data chunk it is equal to. The
arithmetic over GF(256) is reduced to what the matrices in the code amount to: the parity
tables are made from the first `m` rows of the matrix, which are unit rows, so a parity
chunk is a copy of a data chunk; decoding uses the matrix `gf_invert_matrix` has reduced to
the unit matrix, so the i-th missing chunk becomes a copy of the i-th source. The build with
ISA-L is modelled; without it `try_decode` stops at `DecodeFails`. Start and length of a gap
are cut to the 16 bits of their fields (`FieldSpace`), and `NamedBy` is what the sender makes
of them. `ECAssumption` includes m <= k: the code does not check it, and with more parity than
data chunks in a stripe it would read behind the rows of its matrix.

### ControlChannel

Only positions in the byte stream are kept; `heads` are those where a message starts with its
magic. A send is whole, partial (`PartialSend` leaves part of a frame, perhaps not even all of
its magic, and later messages come behind it; `torn` records that) or fails (`SendFails`: the
client then sends no more, the server may be called again). `Segment` lets TCP cut the stream
anywhere. `Timeout` is the receive timeout, which may expire inside a message and then drops
what was read of it; `paused` records that. The reader gives the connection up at the end of
the stream (`ReadEnd`) or, at any point, when `recv` fails with anything but a timeout, a reset
or a signal (`RecvFails`, recorded in `failed`).

### Negotiation

A configuration file is a function from keys to numbers; `SenderParams` and
`ReceiverParams` are what the two programs make of theirs, narrowed to 16 bits where the code
casts. `Desired` is the OFFER, `Negotiated` the CTS: the receiver's MTU and chunk size win,
the sender's number of channels wins, ports are the receiver's. `initialize` overwrites the
parameters of the connection at both ends, so that what one transfer negotiated is where the
next one starts, unless the sender calls `sdr_set_params` again (`chosen`). A byte of the
message is its position in the sender's buffer, and a datagram says which bytes it carries,
its offset and its port, so that cutting, retransmitting, placing and truncating are all
visible in `buf`. The offset keeps the 18 bits of its field (`OffsetSpace`): the packets of a
longer message alias onto its first ones. The cap on the MTU is `MAX_PAYLOAD_SIZE`, 65496,
which with the header of 32 bytes is 65528 and so above UDP's limit of 65507; an MTU between
the two would make `sendto` fail for every full packet, which reads as loss. The UDP
receiver's ports are bound by the first receive only.

What is left to other modules: the handshake here strictly alternates and datagrams end
with their transfer; stale messages, lost connections and generations are in `Rendezvous`,
threads in `ReceivePath`, what is retransmitted and when in the reliability modules (here any
chunk the receiver lacks may be retransmitted at any time). The programs send one message
per run; later transfers of the model are those of an application that calls the same
functions again and computes its buffer from the parameters then in force. Both ends use one
`K` and one `M`; in the programs the sender has 4 and 2 built in
(`examples/sdr_test_sender.cpp:132-133`) and the receiver reads them from its configuration,
so a receiver configured otherwise disagrees from the start.

## 3. Runs

Runs expected to pass:

| Run | Instance | Shows |
| --- | --- | --- |
| `ReceivePathThreads` | 2 workers, 3 packets in 2 chunks over 3 bitmap words, last packet and last chunk short, sender's message one packet longer than the buffer, datagrams of another transfer | `ChunkSound`, `AckSound`, `TeardownSafe`, `CompletedBufferStable`, and `Implements`: the threads implement `PartialCompletion`; `CompleteReturns`, `DisconnectReturns`, `ChunksShown` |
| `SRTransfer` | 3 chunks, window 2, every message limit smaller than the message, 1 message in transit, timeouts at any point | `AcksSound`, `CompletionSound`, `LowestResent`, and `ImplementsTransfer`: it implements `ReliableTransfer`; `AllArrive` and `SenderReturns` while no timeout interferes |
| `RendezvousSafety` | 5 transfers, 3 message ids, 2 breaks or restarts | `NoCrossTalk`, `VerdictMatches`, `SlotsSuffice`, `NoStaleCts`, `NoMutualWait`, `OffersSettled` |
| `ECSafety` | 3 data chunks in 2 stripes (the second partial), 1 parity chunk each, 2 attempts, gaps of 3 chunks too long for their field | `CompletionSound`, `UndecodedSound`, `RowsInMatrix`, `SenderReturns`, and `ImplementsTransfer`: it implements `ReliableTransfer` |
| `ChannelFraming` | 6 bytes: up to 3 messages of 2 bytes, or parts of messages; timeouts, failed sends and failed reads at any point | `NothingSkipped`, `AllDelivered`, and `ImplementsQueue`: the byte stream implements `MessageChannel` |
| `NegotiationSafety` | 2 transfers of 3 or 5 bytes, payloads of at most 3, offsets for 4 packets, the three modes, all pairs of 4 configurations of each program | `CutOnce`, `Placed`, `CompleteIsWhole`, `PortsHeard`, `LayoutsFollowCts`, `BitmapMatchesLayout` |

Each module also has a type invariant. The applications may stop after the last call, so
deadlock is not checked: a program that has ended is not one that is stuck, and waiting for
ever is what the liveness properties are about.

Runs in which the code disagrees with what the repository says of it:

| Run | Property | What happens |
| --- | --- | --- |
| `ReceivePathLateWrite` | `NoLateWrite` | A worker that has passed the state check copies into the user's buffer after `sdr_recv_complete` has sent INCOMPLETE_NACK. After COMPLETE_ACK such a copy writes bytes that are there already (`CompletedBufferStable`). A copy that finds the redirected pointer instead writes behind the one-byte sink: see `overrun`. |
| `SRTimeout` | `TimeoutDrivesRto` | After one silent interval the sender is in `sdr_send_poll`, which discards SR_NACKs until a verdict comes; a lost chunk is never resent. |
| `RendezvousTransferId` | `TransferIdAgrees` | The CTS carries the process-wide generation, the slot stores its own counter: from the second receive of a process on they differ and all data is dropped. |
| `RendezvousStream` | `StreamsStart` | `sdr_send_stream_start` needs a CTS, and the receiver sends one only in answer to an OFFER, which a stream never sends. Called again and again, before and after a transfer, it times out or throws a leftover verdict away; the streaming example of `sdr-udp/README.md:286` never starts. |
| `ECDecode` | `DecodeRestores` | A decoded chunk is a copy of another chunk. |
| `NegotiationLayout` | `LayoutsAgree` | `encode_and_send` lays the message out with the sender's own parameters; the CTS that replaces them arrives in the `sdr_send_post` it calls afterwards. With another MTU or chunk size at the receiver the ends look for data and parity in different places. |

Some properties carry a condition because the code does not keep them without it:

- `ChunkSound`, `AckSound` and `CompletedBufferStable` end with the first copy that runs past the
  null sink; in `PartialCompletion` that is `Spoil`, possible only after the application has
  taken its buffer back. `NoLateWrite` has the same exception, so that its violation is the copy
  through the old pointer.
- Of Selective Repeat the success part of `CompletionSound`, and `ImplementsTransfer` as a
  theorem, need fewer chunks than the 16-bit `total_chunks` can count (`FieldsSuffice`). From
  65536 chunks on an SR_ACK sent after the first missing chunk completed between two reads has
  a `total_chunks` of 0 or a little more, `sr.cpp:193` takes it for the end, and `poll` returns
  0 on an incomplete transfer; with `FieldSpace` equal to `TotalChunks` TLC finds a trace of
  seven states when the condition is taken out.
- That an EC_NACK asks for the lowest missing chunk needs fewer data chunks than 2^16. Beyond
  that gaps name other chunks than the missing ones.
- `Placed` and `CompleteIsWhole` need a message of at most 2^18 packets (`FitsOffsets`), which
  nothing checks; the run contains longer ones.
- `NoCrossTalk` holds within a receiver process, up to one receive after message ids wrap
  around (on one connection) or up to the wraparound (across connections). Later receives
  have the message id and generation of earlier transfers' datagrams.
- `VerdictMatches` needs an unbroken connection, and `CompletionSound` a receiver that has
  not hung up: `sdr_send_poll` returns 0 when it finds no connection.
- `OffersSettled` and `NoMutualWait` except a receiver whose UDP start failed: its next `sdr_recv_post` waits
  for an OFFER while the sender waits for the CTS of the old one.
- `RowsInMatrix` needs one stripe, or at least k+m data chunks.
- `AllArrive` and `SenderReturns` of Selective Repeat need a sender that never timed out on
  the control channel: what happens after a timeout is the run `SRTimeout`.
- In `ReliableTransfer` a sender may also succeed when the receiver has `parted`. For Selective
  Repeat that takes a hang-up and an earlier timeout, after which `sdr_send_poll` takes the
  missing connection for success; for erasure coding a hang-up is enough, as `poll` has no
  case for INCOMPLETE_NACK.
- `NothingSkipped` and `AllDelivered` end when the framing is lost (`FramingLost`): with the
  first message that is sent in part, or with the first pause of 200 ms inside one.
  `receive_message` then returns false ("timeout, not fatal"), the part it had read is
  gone, and later frames do not start with the magic until another pause happens to realign
  the stream. What is left then is what `MessageChannel` says after `Break` or `SendPart`:
  messages are missing, but none comes twice or out of order. A failing `recv` ends
  `AllDelivered` too, as the connection is given up with messages outstanding (`Fail`).
- `PortsHeard` excepts transfers with more channels than the first one, whose extra ports
  nobody has bound, and retransmissions to a receiver whose `channel_base_port` is not its
  `udp_server_port`, as both reliability layers retransmit to the latter only.
- `BitmapMatchesLayout` needs a receiver with MTU and chunk size set: for unset ones
  `ECReceiver` and `sdr_recv_post` have different defaults (32 and 64 packets). The size
  check of `post_receive` mostly stops such a receive, but not when the message fills
  whole stripes.

Other differences met while modelling, which no run is about: the resend loops of
`SRSender` take chunks beyond the window; after EC_FALLBACK_SR nothing is requested again;
`total_bytes` in the CTS echoes the OFFER, so the warning about differing lengths in
`sdr_send_post` never appears, and a receiver with a shorter buffer reports completion.

### Bounds

Two workers are the least that race for one packet and for one chunk. Three packets in
chunks of two give a full and a short chunk, words of one bit make the first chunk span
two words; a fourth packet is past the buffer. The masks of words with several bits are
covered by the proof (`RangeCheck`). In
Selective Repeat three chunks with a window of two make the window move and reach past the
end, and limits of one or two are exceeded; the 16-bit fields hold just the three chunks. Three message ids and five transfers contain the wraparound and
the receive after it. Two stripes with a partial one contain the padding of a stripe and
sources of the wrong stripe; their gap of three chunks does not fit its field. Messages of two
bytes are the shortest that can be sent or read in part, and three of them leave whole messages
before and after the one that is torn. Messages of 3 and 5 bytes with packets of 2 or 3 give full and
short last packets and chunks and differing lengths at the two ends; the configurations
contain unset values, values that narrow to 0, MTUs above the payload limit, one to three
channels and base ports of their own, and two transfers let parameters of the first meet an
OFFER or a `sdr_set_params` of the second. Ports that wrap around to 0, where `bind` would
choose one itself, are not told apart. `QueueBound` limits messages in transit: a sender that
reads too slowly makes the receiver wait in `send`. What the bounds leave open for the
properties marked in section 4 the proofs close.

### Fairness

- Threads that can run do run: weak fairness of each worker's own steps, of the poller, and
  of the application thread inside an API call. Nothing is assumed of the network, and the
  application need never complete or disconnect.
- Selective Repeat: both programs keep running; the guard interval ends; the control
  interval of `pump` ends again and again (strong fairness of `PumpStarts`); a chunk that is
  transmitted again and again arrives (strong fairness of `Arrive`). Without the last one
  no protocol delivers anything.
- Erasure coding: the same, and the receive loop has an iteration limit, so it ends
  (strong fairness of `GiveUp`).
- Rendezvous: both programs keep running; a receive ends at the loop's iteration limit. For
  `StreamsStart` also (`StreamSpec`): the application keeps calling `sdr_send_stream_start`,
  which always returns within the receive timeout. The receiver keeps posting receives and the
  connection does not break.
- Control channel: TCP delivers until the connection fails, and the receiver calls `receive_message` in a loop, as all
  its callers do.

## 4. Proofs

Checked by TLAPS for every value of the constants, from the named assumption of each
module: that sizes are positive and, for the receive path, that the message fits the offset
field (`SizesAssumption`, `OffsetAssumption`); `SRAssumption` (widths and limits are
numbers); `RendezvousAssumption`;
`ECAssumption` (also at most as many parity as data chunks in a stripe);
`ChannelAssumption`; `NegotiationAssumption` (defaults and ports fit 16 bits, configured
values are numbers). Every invariant, action property and refinement that a passing run
checks is the statement of a theorem.

`ReceivePath_proofs`: `TypeCorrect`, `ChunksAreSound`, `AcksAreSound`, `TeardownIsSafe`,
`CompletedIsStable`, `Refinement`. `ChunkSound` is not inductive: the poller trusts the
packet bit, and the bit is set by a worker that may have copied long before. The
strengthening follows a packet through a worker. `HeldPackets`: a worker past the checks
holds a packet of this transfer. `ReadyToCopy`: it is inside the buffer, and until the
redirection its pointer is the user's buffer. `ReadyToMark` and `MarkedLanded`: when it is
about to set the bit, and when the bit is set, the payload is in place, unless the message
was redirected first, and then the poller has already been joined (`JoinedFirst`), so that
nobody trusts the bit. `OwnPlace`: what is in the buffer is in its own place, until a copy runs
past the sink, which takes a redirection (`OverrunLate`). `Decided`
carries the verdict from its computation to its sending, and `TornDown` the joins to the
freeing. That the word masks test exactly the packets of the chunk, and that the bits and
the bytes have the same bound, is arithmetic about division and rounding up; that
counting chunks decides completeness is a fact about cardinality (`CountChunks`). The
refinement maps a copy to `Land` or, past the sink, to `Spoil`, a shown chunk to `Show`, the
redirection to `TakeBack`, the reply to `End` and every other step to a stutter.

`SelectiveRepeat_proofs`: `TypeCorrect`, `AcksAreSound`, `CompletionIsSound`,
`SuccessIsDelivery`, `LowestIsResent`, `TransferRefinement`. `AcksSound` needs `QueueTrue`: what a message in transit acknowledges
is, and because chunks are never taken back remains, received; and that what `pump` saw
when it started is received. A COMPLETE_ACK is true because the count is the last of the reads
and counts every chunk (`CountIsAll`); an SR_ACK ends `poll` only when its cumulative chunk is
the last (`SrAckIsTrue`), which is where `FieldsSuffice` is needed. `SuccessIsDelivery` (`SuccessMeansComplete`: without a timeout,
0 means delivery) needs `VerdictPending`: a receiver that stopped short has left
INCOMPLETE_NACK as the last message of the queue. The refinement of `ReliableTransfer` also
needs the converse, `Told`: INCOMPLETE_NACK is in the queue only when the receive has ended
short, so that a failure is never reported before it is decided. The last chunk to arrive is
`Finish`, `sdr_recv_complete` is `Decide`, `sdr_disconnect` is `Part` if the sender has
timed out (the timeout cannot expire on a closed connection), and the returns of `poll` are `Succeed` and `Fail`.
`LowestIsResent` is about starvation: of the chunks that are unacknowledged and past their
guard interval, the lowest, which holds up `ack_base_`, is resent with every SR_NACK or SR_ACK that is
read, either as a listed gap or because it is the first that the second loop of the handler
meets (`LeastIsFirst`); it holds for every limit of that loop but 0.

`Rendezvous_proofs`: `TypeCorrect`, `BuffersAreTheirOwn`, `VerdictsAreTheirOwn`,
`SlotsAlwaysSuffice`, `NoCtsBetweenTransfers`, `NobodyWaitsInVain`, `ResultsAreFinal`. Nothing in a message says which transfer it
belongs to, so the invariant has to. `Base` is what holds whatever breaks: which messages the
two queues can contain where (towards the receiver at most one ACCEPT followed by the
current OFFER; towards the sender verdicts, with a CTS only at the end), who waits for whom,
and how the counters hang together (the process-wide generation counts receives, the next
message id is that count modulo the id space, the table's counters follow the ids).
`Matching` ties receives to transfers: an active slot is that of the receive in hand, or was
left by a failed post after which no OFFER can come (`Stuck`); the receive in hand is for
the transfer the sender has in hand; a success on its way to `sdr_send_poll` is of that
transfer. From it follow `VerdictMatches` and `SlotsSuffice`. `Separate` is about datagrams:
until ids wrap around every slot is used once with generation 1 (`FirstRound`), on an
unbroken connection both ends count alike (`Aligned`), the first receive of a process is
message 0 of its sender (`FirstMessage`), and so a datagram with a slot's generation is of
the slot's transfer (`Match`). The parts were also
model-checked with two ids, five transfers and two breaks (688,685 states) before they were
proved. `NoMutualWait` looks only at heads of queues and places in the code; `Pending` says
why it holds: what a waiting side waits for is on its way (OFFER, CTS, ACCEPT or a verdict) or
the other side is at the step that sends it, and an ACCEPT never waits behind anything
(`HeadOfS2r`). A stream start between transfers finds no CTS (`NoStaleCts`) and so only
consumes a verdict or nothing (`StreamFails`). `ResultsAreFinal` (`ResultsFinal`, stated in the proof module) rests on `Open`:
the transfer in hand and later ones have no result yet.

`ErasureCoding_proofs`: `TypeCorrect`, `CompletionIsSound`, `UndecodedIsSound`,
`RowsAreInMatrix`, `FailuresAreReal`, `LowestIsAsked`, `TransferRefinement`. `InPlace`: until chunks are decoded, what has arrived is
in its place. `Retrying`: attempts are left while the receiver may still ask.
`FewLost`: at most M chunks are missing where decoding starts, which bounds the source rows by
the ranks of the available chunks. `AckPending`: a receiver that completed the transfer leaves
COMPLETE_ACK as the last message for a sender that is still waiting; that is why a failure
is never reported for a completed transfer, though `sdr_send_poll` may have skipped the EC_ACK
(`FailureIsReal`), and why the layer implements `ReliableTransfer`. `LowestIsAsked`
(`LowestAsked`, stated in the proof module): the gap list of a request always contains the
lowest missing chunk, as its run is the first (`FirstGapListed`), if the data chunks fit the
fields of a gap (`FieldsSuffice` of that module).

`ControlChannel_proofs`: `TypeCorrect`, `FramingKept`, `QueueRefinement`. `Chain`: until a
message is written in part, messages lie end to end in the stream. `Aligned`: until the
framing is lost, the frame being read starts where a message starts or will start, and exactly
the messages before it are delivered. `Past` holds with or without framing: every message
delivered lies before the frame being read, which gives order and no duplicates. A frame that
starts where a message starts ends where the next one does (`FrameEnds`), a frame with the
magic delivers a message that was sent and is later than all delivered ones (`FrameDelivers`),
what is written comes behind all messages (`WrittenIsNext`), and at the end of an unbroken
stream everything sent has been delivered (`EndIsLast`). A partial send is `SendPart`, a pause
inside a message `Break`, a failing `recv` `Fail`, the end of the stream `End`.

`Negotiation_proofs`: `TypeCorrect`, `MessagesAreCutOnce`, `BytesArePlaced`,
`CompletionIsWhole`, `DatagramsAreHeard`, `LayoutsAreTheSame`, `BitmapFollowsLayout`,
`ParametersAreAgreed`.
`Handshake` gives both ends the same parameters from the CTS on, with an MTU that is
positive and fits a datagram, which is `ParametersAreAgreed` (`ParametersAgree`, stated in
the proof module); `Packets` says that only packets of the current message are in
transit, and `OffsetKept` that under `FitsOffsets` the header's offset is the packet's index; `Contents` that a marked packet's bytes are in the buffer; `Bound` that the ports are
a run from the base port, which no later negotiation moves; `LayoutInv` that a sender that
keeps the parameters of a CTS has the receiver's. Below these lie facts about division: a
byte is in packet b div mtu and no other, a packet in one chunk (`DivUnique`,
`OnePacketPerByte`, `FirstCutOnce`, `ChunksCutOnce`), and n channels are at most n ports
(`ChannelsCount`).

Only model-checked, as the proof system has no liveness under fairness: `CompleteReturns`,
`DisconnectReturns`, `ChunksShown`, `AllArrive`, `SenderReturns` of both layers,
`OffersSettled`, `AllDelivered`.

## 5. Not modelled

- `sdr_send_stream_continue` and `sdr_send_stream_end`: they need a handle that
  `sdr_send_stream_start` never returns (run `RendezvousStream`).
- `poll_once` of the chunk bitmap, which nothing calls, and the counting functions of the
  packet bitmap.
- The memory orders of the bitmaps; `sdr_recv_bitmap_get`'s byte copy.
- The characters of configuration files and arguments, IP addresses, progress display,
  statistics, the comparison of received files.
- The arithmetic of GF(256) itself (see ErasureCoding above).
- Benchmark and plotting scripts: they start the two programs and draw plots.

## 6. State of the plan

The receive path, Selective Repeat, the rendezvous, erasure coding, the control channel and
the negotiation are modelled, checked and proved; the receive, the two reliability layers and
the control channel are shown to implement abstract specifications. What could still be added: the control
channel's byte stream composed with the rendezvous, so that a pause inside a message is one
of its faults; erasure coding with the layouts of `Negotiation` in place of one shared
layout; and reading the words of a bitmap in separate steps.
