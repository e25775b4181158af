---------------------------- MODULE ErasureCoding ----------------------------
(***************************************************************************)
(* The erasure coding layer over one transfer: ECSender (encode_and_send   *)
(* and poll, with the sdr_send_poll it calls), ECReceiver::try_decode      *)
(* inside the receive loop of sdr_test_receiver, the UDP data path and the *)
(* TCP control channel.  The build has ISA-L.                              *)
(*                                                                         *)
(* Data is modelled a chunk at a time, as in SelectiveRepeat.  The content *)
(* of a chunk of memory is the number of the data chunk it equals.  Chunks *)
(* arrive in any order, so a scan of the chunk bitmap is one step: what    *)
(* arrives behind the scan might as well arrive after it.  Bitmaps are     *)
(* never filled in by ECReceiver, so chunk_acked_ stays all false.         *)
(***************************************************************************)
EXTENDS Integers, Sequences, FiniteSets

CONSTANTS
    DataChunks,      \* data_chunks_
    K,               \* data chunks of a stripe (k_)
    M,               \* parity chunks of a stripe (m_)
    MaxRetries,      \* max_retries of ECConfig
    MaxGaps,         \* gaps a control message lists (16)
    FieldSpace,      \* values of gap_start and gap_len (2^16)
    QueueBound       \* bound: control messages in transit

ASSUME ECAssumption ==
    /\ {DataChunks, K, M, MaxRetries, MaxGaps, FieldSpace, QueueBound} \subseteq Nat \ {0}
    /\ M <= K

Stripes == (DataChunks + K - 1) \div K

Data == 0 .. DataChunks - 1

All == 0 .. DataChunks + Stripes * M - 1

Nothing == -1

Rank(c, S) == Cardinality({d \in S : d < c})

\* The n smallest members of S.
FirstFew(S, n) == {c \in S : Rank(c, S) < n}

\* encode_and_send: the tables are built from the first M rows of the matrix,
\* which are unit rows, so a parity chunk equals a data chunk of its stripe;
\* a partial stripe is filled up with chunk 0.
Content(c) ==
    LET source == ((c - DataChunks) \div M) * K + ((c - DataChunks) % M)
    IN  IF c \in Data THEN c ELSE IF source \in Data THEN source ELSE 0

\* What the sender makes of a gap, whose 16-bit fields hold only the low bits
\* of its start and length.
NamedBy(start, length) ==
    LET first == start % FieldSpace
    IN  Data \cap (first .. first + (length % FieldSpace) - 1)

\* What the sender makes of the first MaxGaps runs of the missing chunks.
ListedGaps(missing) ==
    LET starts == {c \in missing : c - 1 \notin missing}
        run(s) == {c \in missing : s <= c /\ s .. c \subseteq missing}
    IN  UNION {NamedBy(s, Cardinality(run(s))) : s \in FirstFew(starts, MaxGaps)}

Types == {"EC_ACK", "EC_NACK", "EC_FALLBACK_SR", "COMPLETE_ACK", "INCOMPLETE_NACK"}

Message(type, gaps) == [type |-> type, gaps |-> gaps]

VARIABLES
    spc,        \* ECSender: "start", in poll, in sdr_send_poll or "done"
    ret,        \* what ECSender::poll returned
    rpc,        \* where the receive loop is
    lost,       \* missing_data of the try_decode in hand
    attempts,   \* decode_attempts_
    fallback,   \* fallback_active_ of the receiver
    state,      \* state of the message slot
    decoded,    \* try_decode has recovered chunks
    shown,      \* the frontend chunk bitmap
    buf,        \* the content of each data chunk of the receive buffer
    net,        \* chunks transmitted and neither arrived nor lost
    ctrl,       \* control messages in transit to the sender
    hungUp      \* the receiver has closed the connection

senderVars == <<spc, ret>>
decoderVars == <<lost, attempts, fallback, state, decoded>>
vars == <<senderVars, rpc, decoderVars, shown, buf, net, ctrl, hungUp>>

Init ==
    /\ spc = "start" /\ ret = "none"
    /\ rpc = "read"
    /\ lost = {} /\ attempts = 0 /\ fallback = FALSE
    /\ state = "ACTIVE" /\ decoded = FALSE
    /\ shown = {} /\ buf = [c \in Data |-> Nothing]
    /\ net = {} /\ ctrl = <<>> /\ hungUp = FALSE

-----------------------------------------------------------------------------
(* The network *)

\* A transmitted chunk is complete at the receiver and shown.
Arrive(c) ==
    /\ c \in net
    /\ state = "ACTIVE" /\ rpc \notin {"closing", "closed"}
    /\ net' = net \ {c}
    /\ shown' = shown \cup {c}
    /\ buf' = IF c \in Data /\ c \notin shown THEN [buf EXCEPT ![c] = Content(c)] ELSE buf
    /\ UNCHANGED <<senderVars, rpc, decoderVars, ctrl, hungUp>>

Lose(c) ==
    /\ c \in net
    /\ net' = net \ {c}
    /\ UNCHANGED <<senderVars, rpc, decoderVars, shown, buf, ctrl, hungUp>>

-----------------------------------------------------------------------------
(* ECSender *)

\* encode_and_send transmits data and parity.
EncodeAndSend ==
    /\ spc = "start"
    /\ spc' = "poll"
    /\ net' = All
    /\ UNCHANGED <<ret, rpc, decoderVars, shown, buf, ctrl, hungUp>>

SenderOnly == UNCHANGED <<rpc, decoderVars, shown, buf, hungUp>>

Received(types) ==
    /\ ctrl # <<>>
    /\ Head(ctrl).type \in types
    /\ ctrl' = Tail(ctrl)

Return(value) == spc' = "done" /\ ret' = value

HandleAck ==
    /\ spc = "poll"
    /\ Received({"EC_ACK", "COMPLETE_ACK"})
    /\ Return("0")
    /\ net' = net /\ SenderOnly

\* EC_NACK and EC_FALLBACK_SR: resend the listed gaps.
HandleNack ==
    /\ spc = "poll"
    /\ Received({"EC_NACK", "EC_FALLBACK_SR"})
    /\ net' = net \cup Head(ctrl).gaps
    /\ UNCHANGED senderVars /\ SenderOnly

\* poll has no case for INCOMPLETE_NACK.
IgnoreIncomplete ==
    /\ spc = "poll"
    /\ Received({"INCOMPLETE_NACK"})
    /\ UNCHANGED <<senderVars, net>> /\ SenderOnly

\* receive_message times out: poll enters sdr_send_poll.
ControlTimeout ==
    /\ spc = "poll" /\ ctrl = <<>> /\ ~hungUp
    /\ spc' = "send_poll"
    /\ UNCHANGED <<ret, net, ctrl>> /\ SenderOnly

\* A receive_message that takes a closed connection for a timeout.
NeverEnds == FALSE

\* receive_message reads the end of the connection.
ReadsEnd == ctrl = <<>> /\ hungUp

\* poll finds the connection closed: sdr_send_poll then returns 0 at once, as
\* for a completed transfer, and so does poll.
ConnectionClosed ==
    /\ spc = "poll" /\ ReadsEnd
    /\ Return("0")
    /\ UNCHANGED <<net, ctrl>> /\ SenderOnly

\* sdr_send_poll skips what is not a verdict, ...
SendPollSkips ==
    /\ spc = "send_poll"
    /\ Received({"EC_ACK", "EC_NACK", "EC_FALLBACK_SR"})
    /\ UNCHANGED <<senderVars, net>> /\ SenderOnly

\* ... returns 0 on COMPLETE_ACK, ...
SendPollCompletes ==
    /\ spc = "send_poll"
    /\ Received({"COMPLETE_ACK"})
    /\ Return("0")
    /\ net' = net /\ SenderOnly

\* ... -1 on INCOMPLETE_NACK, after which poll goes on, ...
SendPollFails ==
    /\ spc = "send_poll"
    /\ Received({"INCOMPLETE_NACK"})
    /\ spc' = "poll"
    /\ UNCHANGED <<ret, net>> /\ SenderOnly

\* ... and -1 when the connection closes, after which poll returns -1.
SendPollClosed ==
    /\ spc = "send_poll" /\ ReadsEnd
    /\ Return("-1")
    /\ UNCHANGED <<net, ctrl>> /\ SenderOnly

SenderStep ==
    \/ EncodeAndSend \/ HandleAck \/ HandleNack \/ IgnoreIncomplete \/ ConnectionClosed
    \/ SendPollSkips \/ SendPollCompletes \/ SendPollFails \/ SendPollClosed

-----------------------------------------------------------------------------
(* The receive loop and ECReceiver::try_decode *)

ReceiverOnly == UNCHANGED <<senderVars, shown, net, hungUp>>

\* A message reaches the queue unless the sender has gone.
Send(m) ==
    /\ Len(ctrl) < QueueBound
    /\ ctrl' = IF spc = "done" THEN ctrl ELSE Append(ctrl, m)

\* A scan that stops after the first stripe.
MissingInFirstStripe == (Data \cap 0 .. K - 1) \ shown

\* The data chunks try_decode finds missing.
Missing == Data \ shown

\* A threshold that is one too high.
TooManyOffByOne(n) == n > M + 1

\* More chunks are lost than a stripe has parity.
TooMany(n) == n > M

\* Nothing is missing: the slot is COMPLETED and EC_ACK is sent.
AllPresent ==
    /\ rpc = "read"
    /\ Missing = {}
    /\ state' = "COMPLETED"
    /\ fallback' = FALSE
    /\ Send(Message("EC_ACK", {}))
    /\ rpc' = "complete"
    /\ UNCHANGED <<lost, attempts, decoded, buf>> /\ ReceiverOnly

\* An off-by-one in the number of attempts.
NoFallbackYet == attempts > MaxRetries

LastAttempt == attempts + 1 >= MaxRetries

\* Too many losses: ask for the gaps, the last time with EC_FALLBACK_SR.
\* Once the fallback is active nothing is asked for any more.
RequestResend ==
    /\ rpc = "read" /\ ~fallback
    /\ TooMany(Cardinality(Missing))
    /\ Send(Message(IF LastAttempt THEN "EC_FALLBACK_SR" ELSE "EC_NACK", ListedGaps(Missing)))
    /\ fallback' = LastAttempt
    /\ attempts' = attempts + 1
    /\ UNCHANGED <<rpc, lost, state, decoded, buf>> /\ ReceiverOnly

\* Few enough losses to decode.
StartDecode ==
    /\ rpc = "read" /\ ~fallback
    /\ Missing # {} /\ ~TooMany(Cardinality(Missing))
    /\ lost' = Missing
    /\ rpc' = "decode"
    /\ UNCHANGED <<attempts, fallback, state, decoded, buf, ctrl>> /\ ReceiverOnly

\* The first K chunks available, of whatever stripe, are the sources.
Sources == FirstFew(shown, K)

\* Fewer than K chunks, or a singular matrix: try again later, silently.
DecodeFails ==
    /\ rpc = "decode"
    /\ rpc' = "read"
    /\ lost' = {}
    /\ UNCHANGED <<attempts, fallback, state, decoded, buf, ctrl>> /\ ReceiverOnly

\* What the i-th source holds.
SourceContent(i) ==
    LET s == CHOOSE c \in Sources : Rank(c, Sources) = i
    IN  IF s \in Data THEN buf[s] ELSE Content(s)

\* gf_invert_matrix leaves the unit matrix in decode_matrix, whose rows are
\* then used: the i-th missing chunk becomes a copy of the i-th source.
Decode ==
    /\ rpc = "decode"
    /\ Cardinality(shown) >= K
    /\ buf' = [c \in Data |-> IF c \in lost THEN SourceContent(Rank(c, lost)) ELSE buf[c]]
    /\ decoded' = TRUE
    /\ state' = "COMPLETED"
    /\ Send(Message("EC_ACK", {}))
    /\ rpc' = "complete"
    /\ UNCHANGED <<lost, attempts, fallback>> /\ ReceiverOnly

\* The loop ends without completion: no progress for 120 seconds, or the
\* iteration limit.
GiveUp ==
    /\ rpc = "read"
    /\ rpc' = "complete"
    /\ UNCHANGED <<decoderVars, buf, ctrl>> /\ ReceiverOnly

\* sdr_recv_complete's is_complete: COMPLETED by the decoder, or all chunks.
IsComplete == state = "COMPLETED" \/ shown = All

\* An answer that does not look at is_complete.
AlwaysComplete == "COMPLETE_ACK"

\* An answer that counts chunks and does not know of decoding.
CompletionTypeByCount == IF shown = All THEN "COMPLETE_ACK" ELSE "INCOMPLETE_NACK"

\* The completion message sdr_recv_complete sends.
CompletionType == IF IsComplete THEN "COMPLETE_ACK" ELSE "INCOMPLETE_NACK"

\* sdr_recv_complete
Complete ==
    /\ rpc = "complete"
    /\ Send(Message(CompletionType, {}))
    /\ rpc' = "closing"
    /\ UNCHANGED <<decoderVars, buf>> /\ ReceiverOnly

HangUp ==
    /\ rpc = "closing"
    /\ rpc' = "closed"
    /\ hungUp' = TRUE
    /\ UNCHANGED <<senderVars, decoderVars, shown, buf, net, ctrl>>

ReceiverStep ==
    AllPresent \/ RequestResend \/ StartDecode \/ Decode \/ DecodeFails \/ Complete \/ HangUp

-----------------------------------------------------------------------------

Next ==
    \/ \E c \in All : Arrive(c) \/ Lose(c)
    \/ SenderStep \/ ControlTimeout
    \/ ReceiverStep \/ GiveUp

Spec == Init /\ [][Next]_vars

\* Both programs keep running, the receive loop ends at its iteration limit
\* at the latest, and a chunk transmitted again and again arrives.
Fairness ==
    /\ WF_vars(SenderStep)
    /\ WF_vars(ReceiverStep) /\ SF_vars(GiveUp)
    /\ \A c \in All : SF_vars(Arrive(c))

FairSpec == Spec /\ Fairness

-----------------------------------------------------------------------------
(* Properties *)

\* Types.  The number of attempts is bounded by max_retries.
TypeOK ==
    /\ spc \in {"start", "poll", "send_poll", "done"} /\ ret \in {"none", "0", "-1"}
    /\ rpc \in {"read", "decode", "complete", "closing", "closed"}
    /\ lost \subseteq Data /\ attempts \in 0 .. MaxRetries
    /\ fallback \in BOOLEAN /\ decoded \in BOOLEAN
    /\ state \in {"ACTIVE", "COMPLETED"}
    /\ shown \subseteq All /\ net \subseteq All
    /\ buf \in [Data -> All \cup {Nothing}]
    /\ ctrl \in Seq([type : Types, gaps : SUBSET Data])
    /\ hungUp \in BOOLEAN

\* While the receiver has not hung up, success at the sender, and every EC_ACK
\* or COMPLETE_ACK in transit, means that the receiver completed the transfer.
CompletionSound ==
    /\ ret = "0" /\ ~hungUp => IsComplete
    /\ \A i \in DOMAIN ctrl : ctrl[i].type \in {"EC_ACK", "COMPLETE_ACK"} => IsComplete

\* Success without decoding, also after a fallback, means that every data
\* chunk is in its place in the buffer.
UndecodedSound == (state = "COMPLETED" /\ ~decoded) => \A c \in Data : buf[c] = c

\* The decoder only uses rows of the (K + M)-row matrix, although the sources
\* it picks may be of any stripe.  This needs a single stripe or at least
\* K + M data chunks: nothing in try_decode keeps the row in range otherwise.
RowsInMatrix ==
    (/\ rpc = "decode" /\ Cardinality(shown) >= K
     /\ Stripes = 1 \/ DataChunks >= K + M)
        => \A s \in Sources : s < K + M

\* ECSender::poll reports failure only of a transfer the receiver gave up,
\* although sdr_send_poll may swallow the EC_ACK.
FailureIsReal == ret = "-1" => state # "COMPLETED"

\* ECSender::poll returns.
SenderReturns == <>(spc = "done")

\* "allows receivers to recover lost data chunks using parity chunks": a
\* transfer completed by decoding has every data chunk in its place.
DecodeRestores == decoded => \A c \in Data : buf[c] = c

\* The transfer the two applications see.
Transfer == INSTANCE ReliableTransfer WITH
    complete <- IsComplete,
    verdict  <- IF rpc \notin {"closing", "closed"} THEN "none"
                ELSE IF IsComplete THEN "COMPLETE" ELSE "INCOMPLETE",
    parted   <- hungUp,
    result   <- ret

\* The erasure coding layer implements ReliableTransfer: until the receiver
\* hangs up poll returns 0 only of a transfer the receiver has or has decoded,
\* and it returns a negative value only after sdr_recv_complete has answered
\* INCOMPLETE_NACK, also when sdr_send_poll skipped the EC_ACK of try_decode.
ImplementsTransfer == Transfer!Spec
==============================================================================
