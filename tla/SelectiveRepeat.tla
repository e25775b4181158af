--------------------------- MODULE SelectiveRepeat ---------------------------
(***************************************************************************)
(* The Selective Repeat layer over one transfer: SRSender (start_send and  *)
(* poll, with the sdr_send_poll it calls), SRReceiver::pump inside the     *)
(* receive loop of sdr_test_receiver, the UDP data path and the TCP        *)
(* control channel between them.                                           *)
(*                                                                         *)
(* Data is modelled a chunk at a time: a transmitted chunk arrives (its    *)
(* last missing packets do, and the frontend shows it) or is lost.         *)
(* Control messages are a FIFO queue that ends when the receiver hangs up. *)
(* Time is abstracted: guard intervals, timeouts and the receiver's        *)
(* patience expire whenever they may.                                      *)
(***************************************************************************)
EXTENDS Integers, Sequences, FiniteSets

CONSTANTS
    TotalChunks,      \* chunks of the message
    MaxInflight,      \* sr_max_inflight_chunks, 0 for "the whole message"
    FieldSpace,       \* values of a 16-bit variable or message field (2^16)
    BitmapCap,        \* chunks the bitmap of a control message covers (512)
    MaxGaps,          \* gaps a control message lists (4)
    GapLimit,         \* chunks resent per message because of gaps (8)
    MissingLimit,     \* chunks resent per message because unacked (4)
    QueueBound        \* bound: control messages in transit

ASSUME SRAssumption ==
    /\ TotalChunks \in Nat \ {0}
    /\ MaxInflight \in Nat
    /\ FieldSpace \in Nat \ {0}
    /\ {BitmapCap, MaxGaps, GapLimit, MissingLimit, QueueBound} \subseteq Nat

Chunks == 0 .. TotalChunks - 1

\* max_inflight_ of start_send.
Window == IF MaxInflight # 0 THEN MaxInflight ELSE TotalChunks % FieldSpace

\* The n smallest members of S: a loop over chunk ids that stops at a limit.
FirstFew(S, n) == {c \in S : Cardinality({d \in S : d < c}) < n}

\* n is the length of the longest prefix of the message that is in S, the
\* cumulative chunk plus one: 0 stands for the UINT32_MAX of "none yet".
IsPrefix(n, S) == 0 .. n - 1 \subseteq S /\ n \notin S

\* total_chunks of a control message.
TotalField == TotalChunks % FieldSpace

\* The gaps listed for a scan that saw the chunks of S complete: one for each
\* run of missing chunks, but a run longer than a 16-bit length is cut, and the
\* chunk after the cut passed over.  "at" gives the order of the array.
ListedGaps(S, room) ==
    LET missing == Chunks \ S
        runUpTo(c) == {d \in missing : d .. c \subseteq missing /\ d <= c}
        starts == {c \in missing : Cardinality(runUpTo(c)) % FieldSpace = 1 % FieldSpace}
        length(c) == Cardinality({d \in c .. c + FieldSpace - 2 : c .. d \subseteq missing})
    IN  {[at |-> c, start |-> c % FieldSpace, len |-> length(c)] : c \in FirstFew(starts, room)}

Messages ==
    [type : {"SR_NACK", "SR_ACK", "COMPLETE_ACK", "INCOMPLETE_NACK"}, prefix : 0 .. TotalChunks,
     bitmap : SUBSET Chunks, gaps : SUBSET [at : Chunks, start : Nat, len : Nat]]

Report(t, prefix, bitmap, gaps) ==
    [type |-> t, prefix |-> prefix, bitmap |-> bitmap, gaps |-> gaps]

\* A completion message; poll and sdr_send_poll read nothing but its type.
Verdict(t) == Report(t, 0, {}, {})

-----------------------------------------------------------------------------

VARIABLES
    \* SRSender
    spc,          \* where the sender is: in poll, in sdr_send_poll, ...
    ret,          \* what poll returned
    acked,        \* chunk_acked_
    ackBase,      \* ack_base_
    nextChunk,    \* next_chunk_to_send_
    recent,       \* chunks whose last_tx_ is younger than the guard interval
    timedOut,     \* the control channel was once silent for 200 ms
    \* the receiving application and SRReceiver
    rpc,          \* where the receive loop is
    counted,      \* chunks_received, read at the top of the loop
    seen,         \* chunks complete when the current pump started scanning
    shown,        \* the frontend chunk bitmap
    \* the network
    net,          \* chunks transmitted and neither arrived nor lost
    ctrl,         \* control messages in transit to the sender
    hungUp        \* the receiver has closed the connection

senderVars == <<spc, ret, acked, ackBase, nextChunk, recent, timedOut>>
receiverVars == <<rpc, counted, seen>>
vars == <<spc, ret, acked, ackBase, nextChunk, recent, timedOut, rpc, counted, seen,
          shown, net, ctrl, hungUp>>

Init ==
    /\ spc = "start"
    /\ ret = "none"
    /\ acked = {}
    /\ ackBase = 0
    /\ nextChunk = 0
    /\ recent = Chunks      \* last_tx_ is initialised to now
    /\ timedOut = FALSE
    /\ rpc = "read"
    /\ counted = 0
    /\ seen = {}
    /\ shown = {}
    /\ net = {}
    /\ ctrl = <<>>
    /\ hungUp = FALSE

-----------------------------------------------------------------------------
(* The network *)

\* A transmitted chunk is complete at the receiver, whose poller shows it
\* unless polling has been stopped.
Arrive(c) ==
    /\ c \in net
    /\ rpc \notin {"closing", "closed"}
    /\ net' = net \ {c}
    /\ shown' = shown \cup {c}
    /\ UNCHANGED <<senderVars, receiverVars, ctrl, hungUp>>

\* Some packet of the chunk is lost.
Lose(c) ==
    /\ c \in net
    /\ net' = net \ {c}
    /\ UNCHANGED <<senderVars, receiverVars, shown, ctrl, hungUp>>

-----------------------------------------------------------------------------
(* SRSender *)

\* The network after send_packets_range has transmitted the packets of the
\* chunks in S.
Transmitted(S) == net \cup S

\* start_send transmits the initial window.
StartSend ==
    /\ spc = "start"
    /\ spc' = "poll"
    /\ nextChunk' = IF TotalChunks < Window THEN TotalChunks ELSE Window
    /\ net' = Transmitted(0 .. nextChunk' - 1)
    /\ UNCHANGED <<ret, acked, ackBase, recent, timedOut, receiverVars, shown, ctrl, hungUp>>

\* The guard interval of chunk c's last transmission has passed.
GuardExpires(c) ==
    /\ c \in recent
    /\ spc \notin {"start", "done"}
    /\ recent' = recent \ {c}
    /\ UNCHANGED <<spc, ret, acked, ackBase, nextChunk, timedOut, receiverVars, shown,
                   net, ctrl, hungUp>>

Received(type) ==
    /\ ctrl # <<>>
    /\ Head(ctrl).type = type
    /\ ctrl' = Tail(ctrl)

AckedAfterOffByOne(m) == acked \cup m.bitmap \cup (Chunks \cap 0 .. m.prefix)

\* apply_bitmap, and the chunks up to the cumulative one.
AckedAfter(m) == acked \cup m.bitmap \cup 0 .. m.prefix - 1

\* The chunks the listed gaps name, each with the place of its gap.
Named(m) ==
    {n \in Chunks \X Chunks : \E g \in m.gaps : g.at = n[1] /\ n[2] \in g.start .. g.start + g.len - 1}

\* The loop over the listed gaps, up to its limit.
GapResends(m, known) ==
    LET due == {n \in Named(m) : n[2] \notin known \cup recent}
        before(n) == {o \in due : o[1] < n[1] \/ (o[1] = n[1] /\ o[2] < n[2])}
    IN  {n[2] : n \in {x \in due : Cardinality({o[2] : o \in before(x)}) < GapLimit}}

\* A limit that the gaps count against as well.
MissingResendsShared(known, resent) ==
    FirstFew(((Chunks \ known) \ recent) \ resent, MissingLimit - Cardinality(resent))

\* retransmit_missing_from_bitmap, after the gaps have been resent.
MissingResends(known, resent) == FirstFew(((Chunks \ known) \ recent) \ resent, MissingLimit)

WindowEndUnclamped(base) == IF base + Window < nextChunk THEN nextChunk ELSE base + Window

\* next_chunk_to_send_ after the loop that fills the window.
WindowEnd(base) ==
    IF base + Window < nextChunk THEN nextChunk
    ELSE IF base + Window < TotalChunks THEN base + Window ELSE TotalChunks

NoResends(m, known) == {}

\* Both loops, the second one seeing the time stamps set by the first.
Resends(m, known) ==
    LET gapped == GapResends(m, known)
    IN  gapped \cup MissingResends(known, gapped)

\* What both handlers do: record what message m acknowledges, resend, then
\* advance the window.
Acknowledge(m, known, resent) ==
    /\ acked' = known
    /\ ackBase' = IF m.prefix > ackBase THEN m.prefix ELSE ackBase
    /\ nextChunk' = WindowEnd(ackBase')
    /\ LET sent == resent \cup ((nextChunk .. nextChunk' - 1) \ known)
       IN  net' = Transmitted(sent) /\ recent' = recent \cup sent

\* An SR_NACK: gaps are resent, then other unacked chunks.
HandleNack ==
    /\ spc = "poll"
    /\ Received("SR_NACK")
    /\ LET m == Head(ctrl)
           known == AckedAfter(m)
       IN  Acknowledge(m, known, Resends(m, known))
    /\ UNCHANGED <<spc, ret, timedOut, receiverVars, shown, hungUp>>

Return(value) == spc' = "done" /\ ret' = value

\* The test with which an SR_ACK ends poll.
SrAckEnds(m) == m.prefix >= TotalField

\* An SR_ACK: its gaps are not looked at, and it may end the poll.
HandleSrAck ==
    /\ spc = "poll"
    /\ Received("SR_ACK")
    /\ LET m == Head(ctrl)
           known == AckedAfter(m)
       IN  /\ Acknowledge(m, known, MissingResends(known, {}))
           /\ IF SrAckEnds(m) THEN Return("0") ELSE UNCHANGED <<spc, ret>>
    /\ UNCHANGED <<timedOut, receiverVars, shown, hungUp>>

HandleComplete ==
    /\ spc = "poll"
    /\ Received("COMPLETE_ACK")
    /\ Return("0")
    /\ UNCHANGED <<acked, ackBase, nextChunk, recent, timedOut, receiverVars, shown, net, hungUp>>

IncompleteReturns == "-1"

HandleIncomplete ==
    /\ spc = "poll"
    /\ Received("INCOMPLETE_NACK")
    /\ Return(IncompleteReturns)
    /\ UNCHANGED <<acked, ackBase, nextChunk, recent, timedOut, receiverVars, shown, net, hungUp>>

\* receive_message times out: poll enters sdr_send_poll.
ControlTimeout ==
    /\ spc = "poll"
    /\ ctrl = <<>> /\ ~hungUp
    /\ spc' = "send_poll"
    /\ timedOut' = TRUE
    /\ UNCHANGED <<ret, acked, ackBase, nextChunk, recent, receiverVars, shown,
                   net, ctrl, hungUp>>

\* receive_message finds the connection closed: sdr_send_poll then returns 0
\* at once, as for a completed transfer, and so does poll.
ConnectionClosed ==
    /\ spc = "poll"
    /\ ctrl = <<>> /\ hungUp
    /\ Return("0")
    /\ UNCHANGED <<acked, ackBase, nextChunk, recent, timedOut, receiverVars, shown, net,
                   ctrl, hungUp>>

\* sdr_send_poll skips everything but the two verdicts ...
SendPollSkips ==
    /\ spc = "send_poll"
    /\ Received("SR_NACK") \/ Received("SR_ACK")
    /\ UNCHANGED <<senderVars, receiverVars, shown, net, hungUp>>

SendPollCompletes ==
    /\ spc = "send_poll"
    /\ Received("COMPLETE_ACK")
    /\ Return("0")
    /\ UNCHANGED <<acked, ackBase, nextChunk, recent, timedOut, receiverVars, shown, net, hungUp>>

\* ... and returns -1 on INCOMPLETE_NACK and when the connection closes.
SendPollFails ==
    /\ spc = "send_poll"
    /\ \/ Received("INCOMPLETE_NACK")
       \/ ctrl = <<>> /\ hungUp /\ UNCHANGED ctrl
    /\ spc' = "rto"
    /\ UNCHANGED <<ret, acked, ackBase, nextChunk, recent, timedOut, receiverVars, shown, net, hungUp>>

\* Only after that failure does poll resend the chunks past their timeout.
RtoResend ==
    /\ spc = "rto"
    /\ spc' = "poll"
    /\ \E late \in SUBSET ((Chunks \ acked) \ recent) :
          /\ net' = Transmitted(late)
          /\ recent' = recent \cup late
    /\ UNCHANGED <<ret, acked, ackBase, nextChunk, timedOut, receiverVars, shown, ctrl, hungUp>>

SenderStep ==
    \/ StartSend \/ HandleNack \/ HandleSrAck \/ HandleComplete \/ HandleIncomplete
    \/ ConnectionClosed \/ SendPollSkips \/ SendPollCompletes \/ SendPollFails
    \/ RtoResend

-----------------------------------------------------------------------------
(* The receive loop and SRReceiver::pump *)

\* A message reaches the queue unless the sender has gone.
Send(m) == ctrl' = IF spc = "done" THEN ctrl ELSE Append(ctrl, m)

ReadProgress ==
    /\ rpc = "read"
    /\ counted' = Cardinality(shown)
    /\ rpc' = "pump"
    /\ UNCHANGED <<senderVars, seen, shown, net, ctrl, hungUp>>

\* The loop ends without completion: no progress for 30 seconds with some but
\* not all chunks received, or the iteration limit reached at any time.
GiveUp ==
    /\ rpc = "read"
    /\ rpc' = "complete"
    /\ UNCHANGED <<senderVars, counted, seen, shown, net, ctrl, hungUp>>

\* pump returns at once within the control interval.
PumpSkips ==
    /\ rpc = "pump"
    /\ rpc' = "read"
    /\ UNCHANGED <<senderVars, counted, seen, shown, net, ctrl, hungUp>>

PumpStarts ==
    /\ rpc = "pump"
    /\ seen' = shown
    /\ rpc' = "scan"
    /\ UNCHANGED <<senderVars, counted, shown, net, ctrl, hungUp>>

\* The reads of one pump, in order: cumulative chunk, bitmap, first missing
\* chunk, its run, list of gaps, count.  Chunks complete meanwhile, so each may
\* see more than the one before.
SubsetsBetween(lo, hi) == {S \in SUBSET hi : lo \subseteq S}

\* missing_len is not 0: the lowest chunk the first scan misses is still missing
\* when it is read again to count the run.
MissingRun(first, again) == \E c \in Chunks : IsPrefix(c, first) /\ c \notin again

CountedOffByOne(S) == Cardinality(S) + 1 >= TotalChunks

\* get_total_chunks_completed, compared with the number of chunks.
AllCounted(S) == Cardinality(S) >= TotalChunks

\* What pump sends: SR_NACK, COMPLETE_ACK, or SR_ACK when chunks are missing but
\* the first of them completed between its two reads.
PumpType(first, again, done) ==
    IF MissingRun(first, again) THEN "SR_NACK" ELSE IF AllCounted(done) THEN "COMPLETE_ACK" ELSE "SR_ACK"

\* The receive loop ends when pump has reported completion and the count
\* taken before it was full already.
AfterPump == IF shown = Chunks /\ counted = TotalChunks THEN "complete" ELSE "read"

\* The message with its bitmap cut to the 512 chunks it has room for.
PumpMessage(t, prefix, bits, gaps) ==
    IF t = "COMPLETE_ACK" THEN Verdict(t) ELSE Report(t, prefix, bits \cap 0 .. BitmapCap - 1, gaps)

\* A chunk that completes between the two reads of the scan for gaps takes an
\* entry of the list for an empty gap and leaves less room.
PumpSends ==
    /\ rpc = "scan"
    /\ Len(ctrl) < QueueBound
    /\ \E bits \in SubsetsBetween(seen, shown) :
       \E first \in SubsetsBetween(bits, shown) :
       \E again \in SubsetsBetween(first, shown) :
       \E gaps \in SubsetsBetween(again, shown) :
       \E done \in SubsetsBetween(gaps, shown) :
       \E cum \in SubsetsBetween(seen, bits) :
       \E n \in 0 .. TotalChunks :
       \E room \in 0 .. MaxGaps :
          /\ IsPrefix(n, cum)
          /\ MaxGaps - room <= Cardinality(gaps \ again)
          /\ Send(PumpMessage(PumpType(first, again, done), n, bits, ListedGaps(gaps, room)))
    /\ rpc' = AfterPump
    /\ seen' = {}
    /\ UNCHANGED <<senderVars, counted, shown, net, hungUp>>

\* An answer from the count taken at the top of the loop.
CompletionTypeByCount == IF counted = TotalChunks THEN "COMPLETE_ACK" ELSE "INCOMPLETE_NACK"

\* The completion message sdr_recv_complete sends.
CompletionType == IF shown = Chunks THEN "COMPLETE_ACK" ELSE "INCOMPLETE_NACK"

\* sdr_recv_complete
Complete ==
    /\ rpc = "complete"
    /\ Len(ctrl) < QueueBound
    /\ Send(Verdict(CompletionType))
    /\ rpc' = "closing"
    /\ UNCHANGED <<senderVars, counted, seen, shown, net, hungUp>>

HangUp ==
    /\ rpc = "closing"
    /\ rpc' = "closed"
    /\ hungUp' = TRUE
    /\ UNCHANGED <<senderVars, counted, seen, shown, net, ctrl>>

ReceiverStep == ReadProgress \/ PumpStarts \/ PumpSends \/ Complete \/ HangUp

-----------------------------------------------------------------------------

Next ==
    \/ \E c \in Chunks : Arrive(c) \/ Lose(c) \/ GuardExpires(c)
    \/ SenderStep \/ ControlTimeout
    \/ ReceiverStep \/ PumpSkips \/ GiveUp

\* Both programs keep running, the control interval and the guard interval
\* end, and a chunk transmitted again and again arrives in the end.
Fairness ==
    /\ WF_vars(SenderStep)
    /\ WF_vars(ReceiverStep) /\ SF_vars(PumpStarts)
    /\ \A c \in Chunks : WF_vars(GuardExpires(c)) /\ SF_vars(Arrive(c))

Spec == Init /\ [][Next]_vars

FairSpec == Spec /\ Fairness

-----------------------------------------------------------------------------
(* Properties *)

\* Types of the variables of both sides.
TypeOK ==
    /\ spc \in {"start", "poll", "send_poll", "rto", "done"}
    /\ ret \in {"none", "0", "-1"}
    /\ acked \subseteq Chunks
    /\ ackBase \in 0 .. TotalChunks
    /\ nextChunk \in 0 .. TotalChunks
    /\ recent \subseteq Chunks
    /\ timedOut \in BOOLEAN
    /\ rpc \in {"read", "pump", "scan", "complete", "closing", "closed"}
    /\ counted \in 0 .. TotalChunks
    /\ seen \subseteq Chunks
    /\ shown \subseteq Chunks
    /\ net \subseteq Chunks
    /\ ctrl \in Seq(Messages)
    /\ hungUp \in BOOLEAN

\* The sender never takes a chunk for acknowledged that the receiver does not
\* have, and never moves ack_base_ past a chunk it does not know received,
\* although a control message is put together while chunks arrive and read
\* much later.
AcksSound == acked \subseteq shown /\ 0 .. ackBase - 1 \subseteq acked

\* The 16-bit total_chunks of a control message holds the number of chunks.
FieldsSuffice == TotalChunks < FieldSpace

\* While the receiver has not hung up, success at the sender, and any
\* COMPLETE_ACK still in transit, means that the receiver has every chunk: the
\* first whenever total_chunks fits its field, the second always.
CompletionSound ==
    /\ ret = "0" /\ ~hungUp /\ FieldsSuffice => shown = Chunks
    /\ \A i \in DOMAIN ctrl : ctrl[i].type = "COMPLETE_ACK" => shown = Chunks

\* poll "returns 0 on completion, <0 on error": success means delivery, while
\* control messages keep coming and total_chunks fits its field; once poll has
\* been in sdr_send_poll, the close of the connection after INCOMPLETE_NACK is
\* taken for success, and a message of 65536 chunks or more can end with an
\* SR_ACK whose total_chunks has wrapped.
SuccessMeansComplete == ret = "0" /\ ~timedOut /\ FieldsSuffice => shown = Chunks

\* No chunk starves behind the limits on resends: with every SR_NACK or SR_ACK
\* poll reads, the lowest chunk that is unacknowledged and past its guard
\* interval is sent again, whether or not the message had room to list it.
LowestResent ==
    [][(HandleNack \/ HandleSrAck) /\ MissingLimit > 0 =>
          LET overdue == (Chunks \ acked') \ recent
          IN  \A c \in overdue : (\A d \in overdue : c <= d) => c \in net' \cap recent']_vars

\* Every chunk arrives in the end, whatever is lost, unless the receiver
\* gives up or control messages pause for 200 ms.
AllArrive == <>(shown = Chunks \/ timedOut \/ rpc \in {"complete", "closing", "closed"})

\* poll returns in the end, unless control messages pause.
SenderReturns == <>(spc = "done" \/ timedOut)

\* "Timeout: poll completion and drive RTO-based retransmits": a sender whose
\* control channel timed out still resends a chunk that was lost.
TimeoutDrivesRto ==
    \A c \in Chunks :
        (spc = "send_poll" /\ c \notin net)
            ~> (c \in net \/ c \in shown \/ spc = "done" \/ rpc \in {"complete", "closing", "closed"})

\* The transfer the two applications see.
Transfer == INSTANCE ReliableTransfer WITH
    complete <- shown = Chunks,
    verdict  <- IF rpc \notin {"closing", "closed"} THEN "none"
                ELSE IF shown = Chunks THEN "COMPLETE" ELSE "INCOMPLETE",
    parted   <- timedOut /\ hungUp,
    result   <- ret

\* Selective Repeat, with a total_chunks that fits its field, implements
\* ReliableTransfer: poll returns 0 only of a
\* complete transfer, or when the receiver has hung up on a sender that was
\* once in sdr_send_poll, and a negative value only after sdr_recv_complete
\* has answered INCOMPLETE_NACK, whatever was read, lost or skipped before.
ImplementsTransfer == Transfer!Spec
=============================================================================
