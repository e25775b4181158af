----------------------------- MODULE ReceivePath -----------------------------
(***************************************************************************)
(* One posted receive, the first of the receiving process: the application *)
(* thread inside sdr_recv_post, sdr_recv_complete and sdr_disconnect, one  *)
(* UDP worker thread per channel (UDPReceiver), and the frontend poller    *)
(* that turns the packet bitmap into the chunk bitmap (FrontendBitmap).    *)
(*                                                                         *)
(* An action ends where a thread touches state another thread uses.  The   *)
(* packet bitmap is a set of packet offsets and the chunk bitmap a set of  *)
(* chunk ids; bits are only ever set, so a range check that reads its      *)
(* words at one moment has the results of one that reads them in turn.     *)
(* A datagram is a pair <<generation, packet index>>: generation "this"    *)
(* carries the msg_id and transfer_id of this receive, "other" is a packet *)
(* of any other transfer that reaches the same port.                       *)
(***************************************************************************)
EXTENDS Integers, FiniteSets

CONSTANTS Workers,          \* the UDP worker threads, one per channel
          BufferSize,       \* length of the posted buffer, in bytes
          Mtu,              \* negotiated mtu_bytes
          PacketsPerChunk,  \* negotiated packets_per_chunk (P)
          SentPackets,      \* number of packets the sender's message has
          OffsetSpace,      \* values of the packet_offset header field (2^18)
          WordSize          \* bits in a word of the packet bitmap (64)

ASSUME SizesAssumption ==
    /\ BufferSize \in Nat \ {0}
    /\ Mtu \in Nat \ {0}
    /\ PacketsPerChunk \in Nat \ {0}
    /\ SentPackets \in Nat \ {0}
    /\ WordSize \in Nat \ {0}

\* The documented limit of the header: a message has at most 2^18 packets.
ASSUME OffsetAssumption == OffsetSpace \in Nat /\ SentPackets <= OffsetSpace

-----------------------------------------------------------------------------
(* Sizes *)

CeilDiv(a, b) == (a + b - 1) \div b

TotalPackets == CeilDiv(BufferSize, Mtu)

TotalChunks == CeilDiv(TotalPackets, PacketsPerChunk)

Packets == 0 .. TotalPackets - 1

Chunks == 0 .. TotalChunks - 1

ChunkEndOffByOne(c) ==
    LET end == c * PacketsPerChunk + PacketsPerChunk - 1
    IN  IF end > TotalPackets THEN TotalPackets ELSE end

\* The packet after the last one of chunk c; the last chunk may be short.
ChunkEnd(c) ==
    LET end == c * PacketsPerChunk + PacketsPerChunk
    IN  IF end > TotalPackets THEN TotalPackets ELSE end

PacketsOf(c) == c * PacketsPerChunk .. ChunkEnd(c) - 1

Datagrams == {"this", "other"} \X (0 .. SentPackets - 1)

Untouched == <<"untouched", 0>>

HeaderOffsetOneBitShort(d) == d[2] % (OffsetSpace \div 2)

\* The packet_offset the receiver unpacks from the header of datagram d.
HeaderOffset(d) == d[2] % OffsetSpace

\* write_packet_to_buffer's test of the byte offset against the buffer size.
InBuffer(offset) == offset * Mtu < BufferSize

\* null_sink_ is one byte long, and write_packet_to_buffer bounds a copy by the
\* size of the posted buffer only: just a first packet of one byte fits.
InSink(offset) == offset = 0 /\ (Mtu = 1 \/ BufferSize = 1)

-----------------------------------------------------------------------------

VARIABLES
    app,        \* where the application thread is in the API
    slot,       \* state of the message slot; "freed" once destroyed
    target,     \* what MessageContext::buffer points to
    backend,    \* packets whose bit is set in the backend bitmap
    frontend,   \* chunks whose bit is set in the frontend bitmap
    poller,     \* program counter of the poller thread
    scan,       \* next chunk the poller looks at
    stopPoll,   \* FrontendBitmap::should_stop_
    wpc,        \* program counter of each UDP worker
    pkt,        \* the datagram each worker is processing
    ptr,        \* the buffer pointer each worker has read
    stopUdp,    \* UDPReceiver::should_stop_
    cts,        \* CTS has been sent: the sender may transmit
    isComplete, \* is_complete of sdr_recv_complete
    outcome,    \* the completion message sent to the sender
    userbuf,    \* for each packet offset, the datagram last copied there
    overrun     \* history: a copy has run past the end of the null sink

workerVars == <<wpc, pkt, ptr>>
pollerVars == <<poller, scan>>
bufferVars == <<userbuf, overrun>>
vars == <<app, slot, target, backend, frontend, poller, scan, stopPoll, wpc,
          pkt, ptr, stopUdp, cts, isComplete, outcome, userbuf, overrun>>

Init ==
    /\ app = "offered"          \* the OFFER has arrived
    /\ slot = "NULL_STATE"
    /\ target = "null"
    /\ backend = {}
    /\ frontend = {}
    /\ poller = "off"
    /\ scan = 0
    /\ stopPoll = FALSE
    /\ wpc = [w \in Workers |-> "off"]
    /\ pkt = [w \in Workers |-> Untouched]
    /\ ptr = [w \in Workers |-> "null"]
    /\ stopUdp = FALSE
    /\ cts = FALSE
    /\ isComplete = FALSE
    /\ outcome = "none"
    /\ userbuf = [p \in Packets |-> Untouched]
    /\ overrun = FALSE

-----------------------------------------------------------------------------
(* The application thread in sdr_recv_post *)

\* allocate_message_slot, the fields of the context and both bitmaps.  No
\* other thread exists yet.
PostAllocate ==
    /\ app = "offered"
    /\ app' = "allocated"
    /\ slot' = "ACTIVE"
    /\ target' = "user"
    /\ UNCHANGED <<backend, frontend, pollerVars, stopPoll, workerVars,
                   stopUdp, cts, isComplete, outcome, bufferVars>>

PostStartPolling ==
    /\ app = "allocated"
    /\ app' = "polling"
    /\ poller' = "check"
    /\ stopPoll' = FALSE
    /\ UNCHANGED <<slot, target, backend, frontend, scan, workerVars,
                   stopUdp, cts, isComplete, outcome, bufferVars>>

PostStartUdp ==
    /\ app = "polling"
    /\ app' = "started"
    /\ wpc' = [w \in Workers |-> "loop"]
    /\ UNCHANGED <<slot, target, backend, frontend, pollerVars, stopPoll, pkt,
                   ptr, stopUdp, cts, isComplete, outcome, bufferVars>>

\* A socket or bind failure stops what was started and fails the post.
PostUdpFails ==
    /\ app = "polling"
    /\ app' = "failed"
    /\ stopUdp' = TRUE
    /\ UNCHANGED <<slot, target, backend, frontend, pollerVars, stopPoll,
                   workerVars, cts, isComplete, outcome, bufferVars>>

PostSendCts ==
    /\ app = "started"
    /\ app' \in {"accepting", "failed"}
    /\ cts' = (app' = "accepting")
    /\ UNCHANGED <<slot, target, backend, frontend, pollerVars, stopPoll,
                   workerVars, stopUdp, isComplete, outcome, bufferVars>>

\* ACCEPT arrives, or the connection closes first.
PostAwaitAccept ==
    /\ app = "accepting"
    /\ app' \in {"posted", "failed"}
    /\ UNCHANGED <<slot, target, backend, frontend, pollerVars, stopPoll,
                   workerVars, stopUdp, cts, isComplete, outcome, bufferVars>>

-----------------------------------------------------------------------------
(* FrontendBitmap::stop_polling, called from sdr_recv_complete and from the *)
(* destructor: set the flag (without the mutex), notify, join.              *)

Joinable == poller \notin {"off", "joined"}

StopFlag(here, next) ==
    /\ app = here
    /\ Joinable
    /\ app' = next
    /\ stopPoll' = TRUE
    /\ UNCHANGED <<slot, target, backend, frontend, pollerVars, workerVars,
                   stopUdp, cts, isComplete, outcome, bufferVars>>

\* notify_all reaches the poller only if it is already blocked.
StopNotify(here, next) ==
    /\ app = here
    /\ app' = next
    /\ poller' = IF poller = "asleep" THEN "check" ELSE poller
    /\ UNCHANGED <<slot, target, backend, frontend, scan, stopPoll, workerVars,
                   stopUdp, cts, isComplete, outcome, bufferVars>>

StopJoin(here, next) ==
    /\ app = here
    /\ poller = "done"
    /\ app' = next
    /\ poller' = "joined"
    /\ UNCHANGED <<slot, target, backend, frontend, scan, stopPoll, workerVars,
                   stopUdp, cts, isComplete, outcome, bufferVars>>

-----------------------------------------------------------------------------
(* The application thread in sdr_recv_complete, called whenever the         *)
(* application decides to settle for what has arrived.                      *)

CompleteStop == StopFlag("posted", "notifying")

CompleteNotify == StopNotify("notifying", "joining")

CompleteJoin == StopJoin("joining", "deciding")

AllChunksShown == TotalChunks > 0 /\ Cardinality(frontend) >= TotalChunks

\* is_complete is computed, then complete_message sets the state DEAD ...  The
\* state COMPLETED, which also counts as complete here, is set by the erasure
\* coding receiver alone: ErasureCoding models it.
CompleteDead ==
    /\ app = "deciding"
    /\ app' = "redirecting"
    /\ isComplete' = AllChunksShown
    /\ slot' = "DEAD"
    /\ UNCHANGED <<target, backend, frontend, pollerVars, stopPoll, workerVars,
                   stopUdp, cts, outcome, bufferVars>>

\* ... and then points the context at the null sink.
CompleteRedirect ==
    /\ app = "redirecting"
    /\ app' = "replying"
    /\ target' = "sink"
    /\ UNCHANGED <<slot, backend, frontend, pollerVars, stopPoll, workerVars,
                   stopUdp, cts, isComplete, outcome, bufferVars>>

CompleteReply ==
    /\ app = "replying"
    /\ app' = "completed"
    /\ outcome' \in {IF isComplete THEN "COMPLETE_ACK" ELSE "INCOMPLETE_NACK", "unsent"}
    /\ UNCHANGED <<slot, target, backend, frontend, pollerVars, stopPoll,
                   workerVars, stopUdp, cts, isComplete, bufferVars>>

-----------------------------------------------------------------------------
(* The application thread in sdr_disconnect *)

Disconnect ==
    /\ app \in {"posted", "failed", "completed"}
    /\ app' = "stopping"
    /\ stopUdp' = TRUE
    /\ UNCHANGED <<slot, target, backend, frontend, pollerVars, stopPoll,
                   workerVars, cts, isComplete, outcome, bufferVars>>

WorkersNotAwaited == TRUE

WorkersHaveReturned == \A w \in Workers : wpc[w] \in {"off", "done"}

JoinWorkers ==
    /\ app = "stopping"
    /\ WorkersHaveReturned
    /\ app' = "destroying"
    /\ UNCHANGED <<slot, target, backend, frontend, pollerVars, stopPoll,
                   workerVars, stopUdp, cts, isComplete, outcome, bufferVars>>

\* connection_ctx.reset() destroys the frontend bitmap, which stops polling ...
DestroyStop == StopFlag("destroying", "destroy_notifying")

DestroyNotify == StopNotify("destroy_notifying", "destroy_joining")

DestroyJoin == StopJoin("destroy_joining", "destroying")

\* ... and then frees the message contexts.
Destroy ==
    /\ app = "destroying"
    /\ ~Joinable
    /\ app' = "closed"
    /\ slot' = "freed"
    /\ UNCHANGED <<target, backend, frontend, pollerVars, stopPoll, workerVars,
                   stopUdp, cts, isComplete, outcome, bufferVars>>

AppCompleting == CompleteNotify \/ CompleteJoin \/ CompleteDead \/ CompleteRedirect \/ CompleteReply

AppClosing == JoinWorkers \/ DestroyStop \/ DestroyNotify \/ DestroyJoin \/ Destroy

AppPosting ==
    \/ PostAllocate \/ PostStartPolling \/ PostStartUdp \/ PostUdpFails
    \/ PostSendCts \/ PostAwaitAccept

-----------------------------------------------------------------------------
(* A UDP worker thread *)

WorkerOnly == UNCHANGED <<app, slot, target, frontend, pollerVars, stopPoll,
                          stopUdp, cts, isComplete, outcome>>

WorkerStopIgnored(w) == "recv"

\* The loop condition of receiver_thread_func.
WorkerAfterCheck(w) == IF stopUdp THEN "done" ELSE "recv"

WLoop(w) ==
    /\ wpc[w] = "loop"
    /\ wpc' = [wpc EXCEPT ![w] = WorkerAfterCheck(w)]
    /\ UNCHANGED <<pkt, ptr, backend, bufferVars>>
    /\ WorkerOnly

\* recvfrom times out (100 ms), is interrupted, or returns no SDR packet.
WIdle(w) ==
    /\ wpc[w] = "recv"
    /\ wpc' = [wpc EXCEPT ![w] = "loop"]
    /\ UNCHANGED <<pkt, ptr, backend, bufferVars>>
    /\ WorkerOnly

\* Any other recvfrom error ends the thread.
WError(w) ==
    /\ wpc[w] = "recv"
    /\ wpc' = [wpc EXCEPT ![w] = "done"]
    /\ UNCHANGED <<pkt, ptr, backend, bufferVars>>
    /\ WorkerOnly

\* get_message finds the slot, its generation matches and it is ACTIVE.
Accepts(d) == d[1] = "this" /\ slot = "ACTIVE"

\* A datagram arrives: datagrams may be lost, duplicated and reordered, and
\* those of this transfer exist once the sender has the CTS.  Receiving is
\* local to the thread, so it is one step with the checks of process_packet.
WRecv(w, d) ==
    /\ wpc[w] = "recv"
    /\ d[1] = "this" => cts
    /\ IF Accepts(d)
       THEN /\ wpc' = [wpc EXCEPT ![w] = "dup"]
            /\ pkt' = [pkt EXCEPT ![w] = d]
       ELSE /\ wpc' = [wpc EXCEPT ![w] = "loop"]
            /\ UNCHANGED pkt
    /\ UNCHANGED <<ptr, backend, bufferVars>>
    /\ WorkerOnly

\* process_packet returns and the worker holds no packet.
PacketDone(w) ==
    /\ wpc' = [wpc EXCEPT ![w] = "loop"]
    /\ pkt' = [pkt EXCEPT ![w] = Untouched]
    /\ ptr' = [ptr EXCEPT ![w] = "null"]

\* A test-and-set of the bit in place of the test: marked before copied.
WDupTestAndSet(w) ==
    /\ wpc[w] = "dup"
    /\ \/ HeaderOffset(pkt[w]) \in backend /\ PacketDone(w) /\ UNCHANGED backend
       \/ /\ HeaderOffset(pkt[w]) \notin backend
          /\ wpc' = [wpc EXCEPT ![w] = "bounds"]
          /\ backend' = backend \cup ({HeaderOffset(pkt[w])} \cap Packets)
          /\ UNCHANGED <<pkt, ptr>>
    /\ UNCHANGED bufferVars
    /\ WorkerOnly

\* is_packet_received: a duplicate is dropped.
WDup(w) ==
    /\ wpc[w] = "dup"
    /\ \/ HeaderOffset(pkt[w]) \in backend /\ PacketDone(w)
       \/ /\ HeaderOffset(pkt[w]) \notin backend
          /\ wpc' = [wpc EXCEPT ![w] = "bounds"]
          /\ UNCHANGED <<pkt, ptr>>
    /\ UNCHANGED <<backend, bufferVars>>
    /\ WorkerOnly

\* write_packet_to_buffer reads the buffer pointer and checks the offset;
\* returning early from it still leads to set_packet_received.
WBounds(w) ==
    /\ wpc[w] = "bounds"
    /\ IF InBuffer(HeaderOffset(pkt[w]))
       THEN /\ wpc' = [wpc EXCEPT ![w] = "copy"]
            /\ ptr' = [ptr EXCEPT ![w] = target]
       ELSE /\ wpc' = [wpc EXCEPT ![w] = "mark"]
            /\ UNCHANGED ptr
    /\ UNCHANGED <<pkt, backend, bufferVars>>
    /\ WorkerOnly

\* A copy past the sink is undefined: the bytes may land anywhere, also in the
\* user buffer at place p, or outside what is modelled.  No property claims
\* anything about the buffer afterwards.
RunPastSink(w) ==
    /\ overrun' = TRUE
    /\ \/ UNCHANGED userbuf
       \/ \E p \in Packets : userbuf' = [userbuf EXCEPT ![p] = pkt[w]]

CopyTo(dest, w) ==
    CASE dest = "user" -> /\ userbuf' = [userbuf EXCEPT ![HeaderOffset(pkt[w])] = pkt[w]]
                          /\ UNCHANGED overrun
      [] dest = "sink" /\ ~InSink(HeaderOffset(pkt[w])) -> RunPastSink(w)
      [] OTHER -> UNCHANGED bufferVars

\* memcpy, to the pointer read before or to the current one: buffer is not
\* atomic, so the build may reuse the first read or repeat it.
WCopy(w) ==
    /\ wpc[w] = "copy"
    /\ wpc' = [wpc EXCEPT ![w] = "mark"]
    /\ \E dest \in {ptr[w], target} : CopyTo(dest, w)
    /\ ptr' = [ptr EXCEPT ![w] = "null"]
    /\ UNCHANGED <<pkt, backend>>
    /\ WorkerOnly

BitUnchecked(offset) == {offset}

\* set_packet_received ignores an offset past the bitmap.
BitOf(offset) == {offset} \cap Packets

WMark(w) ==
    /\ wpc[w] = "mark"
    /\ PacketDone(w)
    /\ backend' = backend \cup BitOf(HeaderOffset(pkt[w]))
    /\ UNCHANGED bufferVars
    /\ WorkerOnly

\* What a worker does by itself, whatever the network does.
WorkerStep(w) == WLoop(w) \/ WIdle(w) \/ WDup(w) \/ WBounds(w) \/ WCopy(w) \/ WMark(w)

Worker(w) == WorkerStep(w) \/ WError(w) \/ \E d \in Datagrams : WRecv(w, d)

-----------------------------------------------------------------------------
(* The poller thread of FrontendBitmap *)

PollerOnly == UNCHANGED <<app, slot, target, backend, stopPoll, workerVars,
                          stopUdp, cts, isComplete, outcome, bufferVars>>

\* The loop condition of polling_thread_func.
PCheck ==
    /\ poller = "check"
    /\ poller' = IF stopPoll THEN "done" ELSE "scan"
    /\ scan' = 0
    /\ UNCHANGED frontend
    /\ PollerOnly

\* Word i of packet_bitmap_, as the positions of its set bits.
Word(i) == {b \in 0 .. WordSize - 1 : i * WordSize + b \in backend}

\* A range check that masks the last word one bit short.
CheckAllButLast(first, end) == \A p \in first .. end - 2 : p % WordSize \in Word(p \div WordSize)

\* check_chunk_range: masks for the first and the last word of the range, and
\* all ones in the words between them.
CheckChunkRange(first, end) ==
    LET startWord == first \div WordSize
        startBit == first % WordSize
        endWord == (end - 1) \div WordSize
        endBit == ((end - 1) % WordSize) + 1
    IN  IF startWord = endWord
        THEN startBit .. endBit - 1 \subseteq Word(startWord)
        ELSE /\ startBit .. WordSize - 1 \subseteq Word(startWord)
             /\ \A i \in startWord + 1 .. endWord - 1 : Word(i) = 0 .. WordSize - 1
             /\ 0 .. endBit - 1 \subseteq Word(endWord)

\* BackendBitmap::is_chunk_complete
ChunkComplete(c) == CheckChunkRange(c * PacketsPerChunk, ChunkEnd(c))

MoreChunksButLast(c) == c + 2 < TotalChunks

MoreChunks(c) == c + 1 < TotalChunks

\* check_and_set_chunk for the next chunk of update_chunk_bitmap.
PScan ==
    /\ poller = "scan"
    /\ frontend' = IF ChunkComplete(scan) THEN frontend \cup {scan} ELSE frontend
    /\ scan' = scan + 1
    /\ poller' = IF MoreChunks(scan) THEN "scan" ELSE "predicate"
    /\ PollerOnly

\* wait_for holds the mutex and evaluates its predicate before blocking ...
PPredicate ==
    /\ poller = "predicate"
    /\ poller' = IF stopPoll THEN "check" ELSE "blocking"
    /\ UNCHANGED <<scan, frontend>>
    /\ PollerOnly

\* ... but stop_polling does not hold it, so a notify may come in between.
PBlock ==
    /\ poller = "blocking"
    /\ poller' = "asleep"
    /\ UNCHANGED <<scan, frontend>>
    /\ PollerOnly

WaitWithoutTimeout == FALSE

\* wait_for, rather than wait: blocking ends by itself.
PollTimeoutExpires == poller = "asleep"

\* The poll interval (100 microseconds) expires.
PTimeout ==
    /\ PollTimeoutExpires
    /\ poller' = "check"
    /\ UNCHANGED <<scan, frontend>>
    /\ PollerOnly

Poller == PCheck \/ PScan \/ PPredicate \/ PBlock \/ PTimeout

-----------------------------------------------------------------------------

Next ==
    \/ AppPosting
    \/ CompleteStop \/ AppCompleting
    \/ Disconnect \/ AppClosing
    \/ \E w \in Workers : Worker(w)
    \/ Poller

\* Threads that can run do run, joins included.  Nothing is assumed of the
\* network, and the application is free never to complete or disconnect.
Fairness ==
    /\ WF_vars(AppPosting \/ AppCompleting \/ AppClosing)
    /\ WF_vars(Poller)
    /\ \A w \in Workers : WF_vars(WorkerStep(w))

Spec == Init /\ [][Next]_vars

FairSpec == Spec /\ Fairness

-----------------------------------------------------------------------------
(* Properties *)

AppStates == {"offered", "allocated", "polling", "started", "accepting",
              "posted", "failed", "notifying", "joining", "deciding",
              "redirecting", "replying", "completed", "stopping", "destroying",
              "destroy_notifying", "destroy_joining", "closed"}

\* Types of the receive path's variables.
TypeOK ==
    /\ app \in AppStates
    /\ slot \in {"NULL_STATE", "ACTIVE", "DEAD", "freed"}
    /\ target \in {"null", "user", "sink"}
    /\ backend \subseteq Packets
    /\ frontend \subseteq Chunks
    /\ poller \in {"off", "check", "scan", "predicate", "blocking", "asleep", "done", "joined"}
    /\ scan \in 0 .. TotalChunks
    /\ poller = "scan" => scan \in Chunks
    /\ stopPoll \in BOOLEAN
    /\ wpc \in [Workers -> {"off", "loop", "recv", "dup", "bounds", "copy", "mark", "done"}]
    /\ pkt \in [Workers -> Datagrams \cup {Untouched}]
    /\ ptr \in [Workers -> {"null", "user", "sink"}]
    /\ stopUdp \in BOOLEAN
    /\ cts \in BOOLEAN
    /\ isComplete \in BOOLEAN
    /\ outcome \in {"none", "COMPLETE_ACK", "INCOMPLETE_NACK", "unsent"}
    /\ userbuf \in [Packets -> Datagrams \cup {Untouched}]
    /\ overrun \in BOOLEAN

\* Packet p's own payload is in the user buffer.
Landed(p) == userbuf[p] = <<"this", p>>

\* A chunk the application sees as complete in the bitmap of
\* sdr_recv_bitmap_get has all its payload in the user buffer, also while
\* workers, the poller and sdr_recv_complete run against each other, as long
\* as no late copy has run past the null sink.
ChunkSound == ~overrun => \A c \in frontend : \A p \in PacketsOf(c) : Landed(p)

\* COMPLETE_ACK is sent only when every byte of the message is in place (same
\* exception).
AckSound == outcome = "COMPLETE_ACK" /\ ~overrun => \A p \in Packets : Landed(p)

\* After COMPLETE_ACK a worker that was past its state check may still copy a
\* packet.  Through the pointer to the user buffer it changes nothing there;
\* the contents can change only by a copy that runs past the null sink.
CompletedBufferStable ==
    [][outcome = "COMPLETE_ACK" /\ ~overrun' => userbuf' = userbuf]_vars

\* When the contexts are freed no worker is inside process_packet and the
\* poller is not running.
TeardownSafe ==
    slot = "freed" => /\ \A w \in Workers : wpc[w] \in {"off", "done"}
                      /\ poller \in {"off", "joined"}

\* sdr_recv_complete returns: the poller is stopped even if the notify of
\* stop_polling comes before the poller blocks.
CompleteReturns == (app = "notifying") ~> (app = "completed")

\* sdr_disconnect returns: the workers and the poller end.
DisconnectReturns == (app = "stopping") ~> (app = "closed")

\* Once all packets are marked the chunk bitmap becomes full, unless the
\* application stops the polling first.
ChunksShown == (backend = Packets) ~> (frontend = Chunks \/ stopPoll)

\* What complete_message's null sink is for: once sdr_recv_complete has
\* answered the sender, nothing is written to the user buffer.
NoLateWrite == [][outcome # "none" /\ ~overrun' => userbuf' = userbuf]_vars

\* The receive path implements the abstract specification of a receive.
Abstract == INSTANCE PartialCompletion WITH
    landed <- {p \in Packets : Landed(p)},
    shown  <- frontend,
    over   <- target = "sink",
    spoilt <- overrun

\* Every step of the threads is a step of PartialCompletion or none.
Implements == Abstract!Spec
==============================================================================
