---------------------------- MODULE ControlChannel ----------------------------
(***************************************************************************)
(* One direction of the TCP control connection: send_message of one peer   *)
(* and receive_message of the other (TCPControlServer and TCPControlClient *)
(* have the same code but for a failed send), called in a loop as          *)
(* sdr_recv_post, sdr_send_post, sdr_send_poll and the poll loops of the   *)
(* reliability layers do.                                                  *)
(*                                                                         *)
(* A message is Size bytes; only positions in the byte stream are kept,    *)
(* and a message is named by the position of its first byte, its magic.    *)
(***************************************************************************)
EXTENDS Integers

CONSTANTS
    Size,         \* sizeof(ControlMessage)
    MaxMessages   \* bound: messages sent

ASSUME ChannelAssumption ==
    /\ Size \in Nat \ {0}
    /\ MaxMessages \in Nat

MaxBytes == MaxMessages * Size

VARIABLES
    written,    \* bytes written by the sending peer
    heads,      \* where in the stream messages start with their magic
    muted,      \* is_connected_ of the sending client was cleared
    torn,       \* a message was once written in part
    arrived,    \* bytes in or past the receiver's socket buffer
    taken,      \* bytes read by recv
    got,        \* total_received of the receive_message in progress
    delivered,  \* messages receive_message has returned
    closed,     \* the sending peer has closed the connection
    connected,  \* the receiving end still has its socket
    failed,     \* recv once failed
    paused      \* TCP once paused for 200 ms inside a message

writerVars == <<written, heads, muted, torn, closed>>
readerVars == <<taken, got, delivered, connected, failed, paused>>
vars == <<written, heads, muted, torn, arrived, taken, got, delivered, closed, connected,
          failed, paused>>

Init ==
    /\ written = 0 /\ heads = {} /\ muted = FALSE /\ torn = FALSE
    /\ arrived = 0 /\ taken = 0 /\ got = 0
    /\ delivered = {}
    /\ closed = FALSE /\ connected = TRUE /\ failed = FALSE /\ paused = FALSE

-----------------------------------------------------------------------------

CanSend == ~closed /\ ~muted

\* send_message writes the whole message.
SendMessage ==
    /\ CanSend
    /\ written + Size <= MaxBytes
    /\ written' = written + Size
    /\ heads' = heads \cup {written}
    /\ UNCHANGED <<muted, torn, arrived, closed, readerVars>>

\* send takes only a part of the message, perhaps not even all of the magic.
\* send_message returns false and leaves the part in the stream; whatever is
\* sent later comes behind it.
PartialSend ==
    /\ CanSend
    /\ \E n \in 1 .. Size - 1 : written + n <= MaxBytes /\ written' = written + n
    /\ heads' \in {heads, heads \cup {written}}
    /\ torn' = TRUE
    /\ UNCHANGED <<muted, arrived, closed, readerVars>>

\* send fails: nothing is written.  The client then takes its connection for
\* lost and sends no more; the server only returns false.
SendFails ==
    /\ CanSend
    /\ muted' = TRUE
    /\ UNCHANGED <<written, heads, torn, arrived, closed, readerVars>>

\* close_connection, disconnect, or the end of the process.
Close ==
    /\ ~closed
    /\ closed' = TRUE
    /\ UNCHANGED <<written, heads, muted, torn, arrived, readerVars>>

\* TCP delivers in order, cutting the stream anywhere.
Segment ==
    /\ \E n \in arrived + 1 .. written : arrived' = n
    /\ UNCHANGED <<writerVars, readerVars>>

\* A recv that asks for a whole message each time.
WantedAlways == Size

\* A recv loop that stops one byte short of the message.
WantedOneShort == Size - got - 1

\* What recv asks for: the rest of the message.
Wanted == Size - got

\* The message named by the byte after it.
MessageAfter(n) == n

\* The message whose frame ends with the n-th byte taken.
MessageEndingAt(n) == n - Size

\* deserialize: the frame that ends with the n-th byte taken starts with the magic.
HasMagic(n) == n - Size \in heads

\* recv returns some of the bytes that are there.  A full frame is returned
\* by receive_message if it has the magic; otherwise the caller tries again.
Receive ==
    /\ connected
    /\ \E n \in 1 .. Wanted :
          /\ taken + n <= arrived
          /\ taken' = taken + n
          /\ IF got + n < Size
             THEN got' = got + n /\ UNCHANGED delivered
             ELSE /\ got' = 0
                  /\ delivered' = IF HasMagic(taken') THEN delivered \cup {MessageEndingAt(taken')}
                                  ELSE delivered
    /\ UNCHANGED <<writerVars, arrived, connected, failed, paused>>

\* SO_RCVTIMEO expires: receive_message returns false, and the bytes of an
\* unfinished message go with its buffer.
Timeout ==
    /\ connected
    /\ taken = arrived
    /\ ~(closed /\ arrived = written)
    /\ got' = 0
    /\ paused' = (paused \/ got > 0)
    /\ UNCHANGED <<writerVars, arrived, taken, delivered, connected, failed>>

\* A close that overtakes the bytes still on their way.
EndOfArrived == closed /\ taken = arrived

\* TCP reports the close behind the last byte.
EndOfStream == closed /\ taken = written

\* recv returns 0: the connection is given up.
ReadEnd ==
    /\ connected
    /\ EndOfStream
    /\ connected' = FALSE
    /\ UNCHANGED <<writerVars, arrived, taken, got, delivered, failed, paused>>

\* recv fails (the connection was reset, or a signal interrupted it): the
\* connection is given up, whatever was still to come.
RecvFails ==
    /\ connected
    /\ connected' = FALSE
    /\ failed' = TRUE
    /\ UNCHANGED <<writerVars, arrived, taken, got, delivered, paused>>

Next ==
    \/ SendMessage \/ PartialSend \/ SendFails \/ Close
    \/ Segment
    \/ Receive \/ Timeout \/ ReadEnd \/ RecvFails

Spec == Init /\ [][Next]_vars

\* TCP delivers what was written, and the receiver keeps calling
\* receive_message.
FairSpec == Spec /\ WF_vars(Segment) /\ WF_vars(Receive) /\ WF_vars(ReadEnd)

-----------------------------------------------------------------------------
(* Properties *)

\* Types: positions in the stream are in order, and only messages that were
\* sent are returned.
TypeOK ==
    /\ written \in 0 .. MaxBytes /\ arrived \in 0 .. written /\ taken \in 0 .. arrived
    /\ got \in 0 .. Size - 1
    /\ heads \subseteq 0 .. written - 1 /\ delivered \subseteq heads
    /\ muted \in BOOLEAN /\ torn \in BOOLEAN /\ closed \in BOOLEAN
    /\ connected \in BOOLEAN /\ failed \in BOOLEAN /\ paused \in BOOLEAN

\* The framing is lost: a message was written in part, or a timeout fell inside
\* one.  Neither end notices, and neither can find the next message again.
FramingLost == torn \/ paused

\* "timeout, not fatal": every message that has been read from the socket has
\* been returned by receive_message, the unfinished one excepted, however recv
\* cuts the stream and however often receive_message times out between two
\* messages, until the framing is lost.
NothingSkipped == ~FramingLost => delivered = {h \in heads : h < taken - got}

\* Every message sent before the peer closes is received, however the stream
\* is cut, unless the framing is lost or recv fails.
AllDelivered ==
    \A m \in 0 .. MaxMessages - 1 :
        (m * Size \in heads) ~> (m * Size \in delivered \/ FramingLost \/ failed)

\* The control connection is a queue of whole messages.
Queue == INSTANCE MessageChannel WITH
    Messages <- 0 .. MaxBytes,
    sent     <- heads,
    ended    <- ~connected,
    broken   <- FramingLost

\* What Rendezvous, SelectiveRepeat and ErasureCoding take the connection for:
\* every step on the byte stream is a step of MessageChannel or none, so
\* receive_message returns messages in order, each at most once and, until the
\* framing is lost, whole and without a gap; and unless recv fails the
\* connection is given up only after the last of them.
ImplementsQueue == Queue!Spec
===============================================================================
