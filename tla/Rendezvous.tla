------------------------------ MODULE Rendezvous ------------------------------
(***************************************************************************)
(* Successive transfers between one sender and one receiver process: the   *)
(* OFFER / CTS / ACCEPT handshake of sdr_send_post and sdr_recv_post over  *)
(* the TCP control connection, the allocation of message ids, generations  *)
(* and message slots, the UDP receiver's admission of datagrams, and the   *)
(* completion message of sdr_recv_complete that sdr_send_poll waits for.   *)
(*                                                                         *)
(* A transfer's data is one datagram; transfer number x carries payload x. *)
(* Datagrams stay in the network: they may arrive late, more than once,    *)
(* or never.  Control messages are two FIFO queues; the connection may     *)
(* break, losing what is not delivered yet, and either process may end and *)
(* be started again, after which the two connect anew.                     *)
(***************************************************************************)
EXTENDS Integers, Sequences

CONSTANTS
    MsgIdSpace,         \* message ids (1024)
    MaxTransfers,       \* bound: transfers the sender starts
    MaxBreaks           \* bound: broken connections and ended processes

ASSUME RendezvousAssumption ==
    /\ MsgIdSpace \in Nat \ {0}
    /\ MaxTransfers \in Nat \ {0}
    /\ MaxBreaks \in Nat

MsgIds == 0 .. MsgIdSpace - 1

Transfers == 1 .. MaxTransfers

NoSlot == [state |-> "NULL_STATE", gen |-> 0, xfer |-> 0]

\* msg_table_ and generation_counters_ of a new ConnectionContext.
EmptyTable == [m \in MsgIds |-> NoSlot]
FirstGenerations == [m \in MsgIds |-> 1]

Message(type, gen, xfer) == [type |-> type, gen |-> gen, xfer |-> xfer]

VARIABLES
    \* the sender
    spc,         \* "idle", in sdr_send_post ("await_cts") or sdr_send_poll ("polling")
    sConn,       \* is_connected_ of the TCPControlClient
    xfer,        \* number of the transfer in hand, or of the last one
    sNextMsg,    \* next_msg_id of the sender's SDRContext
    result,      \* what sdr_send_post or sdr_send_poll returned for each transfer
    streaming,   \* sdr_send_stream_start has returned a stream
    \* the receiver
    rpc,         \* "idle" or where sdr_recv_post is; "receiving" after it
    rConn,       \* client_fd_ of the TCPControlServer is open
    rNextMsg,    \* next_msg_id of the receiver's SDRContext
    generation,  \* receiver_generation_counter, one per process
    slotGen,     \* generation_counters_, one per message id
    slots,       \* msg_table_
    cur,         \* the msg_id of the receive in hand
    ctsGen,      \* the transfer_id put in the CTS
    udp,         \* udp_receiver: "none", "running", or "broken" after a failed start
    \* in between
    up,          \* the control connection works
    s2r, r2s,    \* its two directions
    net,         \* datagrams that have been sent
    buf,         \* the payload in each transfer's receive buffer, 0 for none
    breaks,      \* broken connections and ended processes so far
    sameProcess  \* the receiver is still the process it started as

senderVars == <<spc, sConn, xfer, sNextMsg, result, streaming>>
contextVars == <<rNextMsg, generation, slotGen, cur, ctsGen>>
receiverVars == <<rpc, rConn, slots, udp, contextVars>>
linkVars == <<up, breaks, sameProcess>>
vars == <<senderVars, receiverVars, linkVars, s2r, r2s, net, buf>>

\* A sender and a receiver process, just connected.
Init ==
    /\ spc = "idle" /\ sConn = TRUE /\ xfer = 0 /\ sNextMsg = 0
    /\ result = [x \in Transfers |-> "none"] /\ streaming = FALSE
    /\ rpc = "idle" /\ rConn = TRUE /\ rNextMsg = 0
    /\ generation = 1 /\ slotGen = FirstGenerations
    /\ slots = EmptyTable /\ cur = 0 /\ ctsGen = 0
    /\ udp = "none"
    /\ up = TRUE
    /\ s2r = <<>> /\ r2s = <<>>
    /\ net = {}
    /\ buf = [x \in Transfers |-> 0]
    /\ breaks = 0 /\ sameProcess = TRUE

\* What is queued after sending m: on a broken connection m is lost.
Sent(q, m) == IF up THEN Append(q, m) ELSE q

-----------------------------------------------------------------------------
(* The sender *)

\* The number of a message id after m.
NextMsgIdUnwrapped(m) == m + 1

\* allocate_msg_id: ids wrap around.
NextMsgId(m) == (m + 1) % MsgIdSpace

\* The post or poll of transfer x returns r.
SendReturns(x, r) ==
    /\ spc' = "idle"
    /\ result' = [result EXCEPT ![x] = r]

\* sdr_send_post sends its OFFER and waits for the CTS.
SendOffer ==
    /\ spc = "idle" /\ sConn
    /\ xfer < MaxTransfers
    /\ xfer' = xfer + 1
    /\ spc' = "await_cts"
    /\ s2r' = Sent(s2r, Message("OFFER", 0, xfer'))
    /\ UNCHANGED <<streaming, sConn, sNextMsg, result, receiverVars, linkVars, r2s, net, buf>>

\* The OFFER cannot be sent: the post fails.
SendOfferFails ==
    /\ spc = "idle" /\ sConn /\ ~up
    /\ xfer < MaxTransfers
    /\ xfer' = xfer + 1
    /\ sConn' = FALSE
    /\ SendReturns(xfer + 1, "-1")
    /\ UNCHANGED <<streaming, sNextMsg, receiverVars, linkVars, s2r, r2s, net, buf>>

\* A skipped message that is kept for the next reader instead.
RequeueStale(q) == Append(Tail(q), Head(q))

\* What is left of the control queue when a stale message is skipped.
AfterStale(q) == Tail(q)

\* sdr_send_post skips what is not a CTS.
SendSkipsStale ==
    /\ spc = "await_cts"
    /\ r2s # <<>> /\ Head(r2s).type # "CTS"
    /\ r2s' = AfterStale(r2s)
    /\ UNCHANGED <<senderVars, receiverVars, linkVars, s2r, net, buf>>

\* A sender that does not answer the CTS.
NoReply(gen) == s2r

\* The ACCEPT that answers the CTS.
Accepting(gen) == Sent(s2r, Message("ACCEPT", gen, xfer))

\* On CTS: ACCEPT, allocate the message id, transmit with the CTS's
\* transfer_id.  That the ACCEPT cannot be sent is noticed by the client only.
SendData ==
    /\ spc = "await_cts"
    /\ r2s # <<>> /\ Head(r2s).type = "CTS"
    /\ r2s' = Tail(r2s)
    /\ s2r' = Accepting(Head(r2s).gen)
    /\ sConn' \in (IF up THEN {TRUE} ELSE BOOLEAN)
    /\ net' = net \cup {[msg |-> sNextMsg, gen |-> Head(r2s).gen, xfer |-> xfer]}
    /\ sNextMsg' = NextMsgId(sNextMsg)
    /\ spc' = "polling"
    /\ UNCHANGED <<streaming, xfer, result, receiverVars, linkVars, buf>>

\* The UDP socket cannot be made: the post fails after its ACCEPT.
SendDataFails ==
    /\ spc = "await_cts"
    /\ r2s # <<>> /\ Head(r2s).type = "CTS"
    /\ r2s' = Tail(r2s)
    /\ s2r' = Accepting(Head(r2s).gen)
    /\ sConn' \in (IF up THEN {TRUE} ELSE BOOLEAN)
    /\ sNextMsg' = NextMsgId(sNextMsg)
    /\ SendReturns(xfer, "-1")
    /\ UNCHANGED <<streaming, xfer, receiverVars, linkVars, net, buf>>

\* sdr_send_poll: the first verdict in the queue is taken for this transfer's.
SendPoll ==
    /\ spc = "polling" /\ sConn
    /\ r2s # <<>>
    /\ r2s' = Tail(r2s)
    /\ \/ Head(r2s).type = "COMPLETE_ACK" /\ SendReturns(xfer, "0")
       \/ Head(r2s).type = "INCOMPLETE_NACK" /\ SendReturns(xfer, "-1")
    /\ UNCHANGED <<streaming, sConn, xfer, sNextMsg, receiverVars, linkVars, s2r, net, buf>>

\* Without a connection sdr_send_poll returns 0 at once.
SendPollUnconnected ==
    /\ spc = "polling" /\ ~sConn
    /\ SendReturns(xfer, "0")
    /\ UNCHANGED <<streaming, sConn, xfer, sNextMsg, receiverVars, linkVars, s2r, r2s, net, buf>>

\* The client reads the end of a broken connection.
SenderReadsEnd == ~up /\ r2s = <<>>

\* sdr_send_stream_start, called between transfers, sends nothing and tries to
\* receive one control message: a CTS starts a stream; anything else, a timeout
\* or the end of the connection fails it.
StreamStart ==
    /\ spc = "idle" /\ sConn
    /\ LET started == r2s # <<>> /\ Head(r2s).type = "CTS"
       IN  /\ streaming' = (streaming \/ started)
           /\ sNextMsg' = IF started THEN NextMsgId(sNextMsg) ELSE sNextMsg
    /\ r2s' = IF r2s = <<>> THEN r2s ELSE Tail(r2s)
    /\ sConn' = ~SenderReadsEnd
    /\ UNCHANGED <<spc, xfer, result, receiverVars, linkVars, s2r, net, buf>>

\* The wait for the CTS or for the verdict ends with the connection.
SendWaitFails ==
    /\ spc \in {"await_cts", "polling"} /\ sConn
    /\ SenderReadsEnd
    /\ sConn' = FALSE
    /\ SendReturns(xfer, "-1")
    /\ UNCHANGED <<streaming, xfer, sNextMsg, receiverVars, linkVars, s2r, r2s, net, buf>>

SenderStep ==
    \/ SendOffer \/ SendOfferFails \/ SendSkipsStale \/ SendData
    \/ SendPoll \/ SendPollUnconnected \/ SendWaitFails

-----------------------------------------------------------------------------
(* The receiver *)

\* allocate_message_slot refuses a slot in use or not older than requested.
SlotFree(m) ==
    /\ slots[m].state # "ACTIVE"
    /\ slots[m].state = "DEAD" => slots[m].gen < generation

\* An OFFER: allocate a message id, a generation for the CTS and, with its own
\* generation counter, the slot.  (SlotsSuffice: the slot is never refused.)
RecvOffer ==
    /\ rpc = "idle" /\ rConn
    /\ s2r # <<>> /\ Head(s2r).type = "OFFER"
    /\ SlotFree(rNextMsg)
    /\ s2r' = Tail(s2r)
    /\ cur' = rNextMsg
    /\ rNextMsg' = NextMsgId(rNextMsg)
    /\ ctsGen' = generation
    /\ generation' = generation + 1
    /\ slots' = [slots EXCEPT ![rNextMsg] =
                    [state |-> "ACTIVE", gen |-> slotGen[rNextMsg], xfer |-> Head(s2r).xfer]]
    /\ slotGen' = [slotGen EXCEPT ![rNextMsg] = @ + 1]
    /\ rpc' = "starting"
    /\ UNCHANGED <<senderVars, rConn, udp, linkVars, r2s, net, buf>>

\* Start the UDP receiver, only if there is none yet.
RecvStart ==
    /\ rpc = "starting"
    /\ udp' = IF udp = "none" THEN "running" ELSE udp
    /\ rpc' = "send_cts"
    /\ UNCHANGED <<senderVars, rConn, contextVars, slots, linkVars, s2r, r2s, net, buf>>

\* It cannot be started: the post fails and leaves the slot ACTIVE and a
\* receiver object that is never started again.
RecvStartFails ==
    /\ rpc = "starting" /\ udp = "none"
    /\ udp' = "broken"
    /\ rpc' = "idle"
    /\ UNCHANGED <<senderVars, rConn, contextVars, slots, linkVars, s2r, r2s, net, buf>>

\* A CTS that is sent once more in case it was missed.
CtsRepeated == Sent(Sent(r2s, Message("CTS", ctsGen, 0)), Message("CTS", ctsGen, 0))

\* The queue after the CTS.
CtsSent == Sent(r2s, Message("CTS", ctsGen, 0))

RecvSendCts ==
    /\ rpc = "send_cts"
    /\ r2s' = CtsSent
    /\ rpc' \in (IF up THEN {"await_accept"} ELSE {"await_accept", "idle"})
    /\ UNCHANGED <<senderVars, rConn, contextVars, slots, udp, linkVars, s2r, net, buf>>

RecvAccept ==
    /\ rpc = "await_accept"
    /\ s2r # <<>> /\ Head(s2r).type = "ACCEPT"
    /\ s2r' = Tail(s2r)
    /\ rpc' = "receiving"
    /\ UNCHANGED <<senderVars, rConn, contextVars, slots, udp, linkVars, r2s, net, buf>>

\* The wait for an OFFER or for the ACCEPT ends with the connection; a failed
\* post leaves its slot ACTIVE.
RecvWaitFails ==
    /\ rpc \in {"idle", "await_accept"} /\ rConn
    /\ ~up /\ s2r = <<>>
    /\ rConn' = FALSE
    /\ rpc' = "idle"
    /\ UNCHANGED <<senderVars, contextVars, slots, udp, linkVars, s2r, r2s, net, buf>>

\* Admission that looks at the slot's state only.
AdmitsAnyGeneration(d) == slots[d.msg].state = "ACTIVE"

\* process_packet: the slot exists, has the datagram's generation, is ACTIVE.
Admits(d) == slots[d.msg].state = "ACTIVE" /\ slots[d.msg].gen = d.gen

\* A worker admits a datagram into the slot's buffer, once.
Deliver(d) ==
    /\ udp = "running"
    /\ Admits(d)
    /\ buf[slots[d.msg].xfer] = 0
    /\ buf' = [buf EXCEPT ![slots[d.msg].xfer] = d.xfer]
    /\ UNCHANGED <<senderVars, receiverVars, linkVars, s2r, r2s, net>>

Received == buf[slots[cur].xfer] # 0

\* With Selective Repeat the receiver acknowledges completion from pump, once
\* more than sdr_recv_complete does.
PumpAck ==
    /\ rpc = "receiving"
    /\ Received
    /\ rpc' = "acked"
    /\ r2s' = Sent(r2s, Message("COMPLETE_ACK", 0, 0))
    /\ UNCHANGED <<senderVars, rConn, contextVars, slots, udp, linkVars, s2r, net, buf>>

\* A completion that does not retire the slot.
SlotKept(s) == s

\* complete_message retires the slot.
SlotRetired(s) == [s EXCEPT !.state = "DEAD"]

\* sdr_recv_complete, with all the data or without.
RecvComplete ==
    /\ rpc \in {"receiving", "acked"}
    /\ rpc' = "idle"
    /\ slots' = [slots EXCEPT ![cur] = SlotRetired(@)]
    /\ r2s' = Sent(r2s, Message(IF Received THEN "COMPLETE_ACK" ELSE "INCOMPLETE_NACK", 0, 0))
    /\ UNCHANGED <<senderVars, rConn, contextVars, udp, linkVars, s2r, net, buf>>

\* The application keeps posting receives, and a receive ends when the
\* receive loop's iteration limit does.
ReceiverStep ==
    \/ RecvOffer \/ RecvStart \/ RecvSendCts \/ RecvAccept \/ RecvWaitFails \/ RecvComplete

-----------------------------------------------------------------------------
(* Failures *)

Fails ==
    /\ breaks < MaxBreaks
    /\ breaks' = breaks + 1
    /\ up' = FALSE

\* The connection breaks; what the peers have not received yet is lost.
Break ==
    /\ up /\ Fails
    /\ \E i \in 0 .. Len(s2r), j \in 0 .. Len(r2s) :
          s2r' = SubSeq(s2r, 1, i) /\ r2s' = SubSeq(r2s, 1, j)
    /\ UNCHANGED <<senderVars, receiverVars, sameProcess, net, buf>>

\* The sender's process ends and starts again with a new SDRContext.
SenderRestarts ==
    /\ Fails
    /\ spc' = "idle" /\ sConn' = FALSE /\ sNextMsg' = 0
    /\ UNCHANGED <<streaming, xfer, result, receiverVars, sameProcess, s2r, r2s, net, buf>>

\* The receiver's process ends and starts again.
ReceiverRestart ==
    /\ Fails
    /\ sameProcess' = FALSE
    /\ rpc' = "idle" /\ rConn' = FALSE /\ rNextMsg' = 0 /\ generation' = 1
    /\ udp' = "none"
    /\ UNCHANGED <<senderVars, slotGen, slots, cur, ctsGen, s2r, r2s, net, buf>>

\* A new control connection, accepted by the one and connected by the other.
Connected ==
    /\ up' = TRUE /\ sConn' = TRUE /\ rConn' = TRUE
    /\ s2r' = <<>> /\ r2s' = <<>>

\* Both applications are between calls: sdr_disconnect, then sdr_listen and
\* sdr_connect, which make a new connection and a new ConnectionContext.
Reconnect ==
    /\ ~up /\ spc = "idle" /\ rpc = "idle"
    /\ Connected
    /\ slots' = EmptyTable /\ slotGen' = FirstGenerations
    /\ udp' = "none"
    /\ UNCHANGED <<streaming, spc, xfer, sNextMsg, result, rpc, rNextMsg, generation, cur, ctsGen,
                   net, buf, breaks, sameProcess>>

Next ==
    \/ SenderStep \/ SendDataFails \/ StreamStart
    \/ ReceiverStep \/ RecvStartFails \/ PumpAck
    \/ \E d \in net : Deliver(d)
    \/ Break \/ SenderRestarts \/ ReceiverRestart \/ Reconnect

Spec == Init /\ [][Next]_vars

FairSpec == Spec /\ WF_vars(SenderStep) /\ WF_vars(ReceiverStep)

\* The sending application also calls sdr_send_stream_start again and again.
StreamSpec == FairSpec /\ WF_vars(StreamStart)

-----------------------------------------------------------------------------
(* Properties *)

ControlMessages ==
    [type : {"OFFER", "ACCEPT", "CTS", "COMPLETE_ACK", "INCOMPLETE_NACK"},
     gen : 0 .. MaxTransfers + 1, xfer : 0 .. MaxTransfers]

\* Types of both processes' state.
TypeOK ==
    /\ spc \in {"idle", "await_cts", "polling"} /\ sConn \in BOOLEAN
    /\ xfer \in 0 .. MaxTransfers
    /\ sNextMsg \in MsgIds /\ rNextMsg \in MsgIds /\ cur \in MsgIds
    /\ result \in [Transfers -> {"none", "0", "-1"}] /\ streaming \in BOOLEAN
    /\ rpc \in {"idle", "starting", "send_cts", "await_accept", "receiving", "acked"}
    /\ rConn \in BOOLEAN
    /\ generation \in 1 .. MaxTransfers + 1
    /\ slotGen \in [MsgIds -> 1 .. MaxTransfers + 1]
    /\ slots \in [MsgIds -> [state : {"NULL_STATE", "ACTIVE", "DEAD"},
                             gen : 0 .. MaxTransfers, xfer : 0 .. MaxTransfers]]
    /\ ctsGen \in 0 .. MaxTransfers
    /\ udp \in {"none", "running", "broken"}
    /\ up \in BOOLEAN /\ breaks \in 0 .. MaxBreaks /\ sameProcess \in BOOLEAN
    /\ s2r \in Seq(ControlMessages) /\ r2s \in Seq(ControlMessages)
    /\ net \subseteq [msg : MsgIds, gen : 1 .. MaxTransfers, xfer : Transfers]
    /\ buf \in [Transfers -> 0 .. MaxTransfers]

\* No buffer receives a datagram of another transfer, however late it comes,
\* until the generations stop telling transfers apart: over one connection up
\* to the receive after message ids wrap around (the next one has the message
\* id and generation of the second transfer's datagrams), across connections
\* up to the wraparound, as a new connection's table counts from 1 again, and
\* within one receiver process, as the next one counts from 1 as well.
NoCrossTalk ==
    (sameProcess /\ generation <= MsgIdSpace + (IF breaks = 0 THEN 2 ELSE 1))
        => \A x \in Transfers : buf[x] \in {0, x}

\* The success sdr_send_poll returns is of this transfer: its own receive had
\* all its data, although completion messages carry no identity and may be
\* sent twice.  On a broken connection sdr_send_poll succeeds without one.
VerdictMatches == breaks = 0 => \A x \in Transfers : result[x] = "0" => buf[x] # 0

\* allocate_message_slot never refuses a receive: whenever an OFFER is read,
\* the slot of the next message id has been retired by sdr_recv_complete or
\* is in a table without it.
SlotsSuffice ==
    (rpc = "idle" /\ rConn /\ s2r # <<>> /\ Head(s2r).type = "OFFER") => SlotFree(rNextMsg)

\* Between two transfers no CTS is on its way to the sender, whatever was lost,
\* restarted, answered late or failed half-way: the next sdr_send_post cannot
\* take an old CTS, with its old parameters and transfer_id, for its own.
NoStaleCts ==
    (spc = "idle" /\ sConn) => \A i \in DOMAIN r2s : r2s[i].type # "CTS"

\* The two ends of a working connection never wait for each other: while
\* sdr_send_post, sdr_send_poll or the wait for the ACCEPT goes on, one side
\* has the message it waits for at the head of its queue or needs none to go
\* on.  A UDP receiver that could not be started is the exception.
NoMutualWait ==
    (up /\ udp # "broken" /\ (spc # "idle" \/ rpc = "await_accept")) =>
        \/ r2s # <<>> /\ (spc = "await_cts" \/ (spc = "polling" /\ Head(r2s).type # "CTS"))
        \/ rpc = "idle" /\ s2r # <<>> /\ Head(s2r).type = "OFFER"
        \/ rpc = "await_accept" /\ s2r # <<>> /\ Head(s2r).type = "ACCEPT"
        \/ rpc \in {"starting", "send_cts", "receiving", "acked"}

\* Every sdr_send_post and sdr_send_poll returns, whatever the receiver's
\* verdict and even if the connection breaks, unless the receiver could not
\* start its UDP receiver: then the two wait for each other.
OffersSettled == (spc # "idle") ~> (spc = "idle" \/ udp = "broken")

\* "ensure both sides agree on MTU, P, channels, and transfer_id": the
\* transfer_id the CTS gives the sender is the generation the receiver's
\* workers admit.
TransferIdAgrees ==
    rpc \in {"send_cts", "await_accept", "receiving", "acked"} => slots[cur].gen = ctsGen

\* "Start streaming send": over a connection that works, to a receiver that
\* keeps posting receives and has started its UDP receiver, an application that
\* keeps calling sdr_send_stream_start gets a stream sooner or later.
StreamsStart == <>(streaming \/ udp = "broken")
==============================================================================
