----------------------------- MODULE Negotiation -----------------------------
(***************************************************************************)
(* What the two ends agree on and what is done with it: the parameters an  *)
(* application takes from its configuration (ConfigParser, sdr_set_params),*)
(* their negotiation by OFFER and CTS, the layout of an erasure coded      *)
(* message, the cutting of a message into datagrams and their ports by     *)
(* sdr_send_post and by the retransmissions of SRSender and ECSender, the  *)
(* ports the UDP receiver binds, and the place in the receive buffer where *)
(* a payload is written.                                                   *)
(*                                                                         *)
(* Several transfers follow each other on one connection.  The handshake   *)
(* is strictly alternating here, and datagrams do not outlive a transfer:  *)
(* stale messages, generations and failures are the subject of Rendezvous. *)
(* A byte of a message is its position in the sender's buffer.             *)
(***************************************************************************)
EXTENDS Integers, FiniteSets

CONSTANTS
    MaxPayload,       \* SDRPacket::MAX_PAYLOAD_SIZE
    Uint16Space,      \* values of a uint16_t (2^16)
    OffsetSpace,      \* values of packet_offset in a data packet (2^18)
    UdpPort,          \* the <udp_port> argument of both programs
    DefaultPort,      \* the port of a receiver that has none (9999)
    DefaultMtu,       \* the receiving program's mtu_bytes without a config (128)
    SenderPpc,        \* packets_per_chunk of an OFFER, or of EC, if unset (32)
    ReceiverPpc,      \* the receiving side's default for it (64)
    K, M,             \* data and parity chunks of a stripe
    SenderConfigs,    \* configuration files of the sender ...
    ReceiverConfigs,  \* ... and of the receiver: functions from keys to values
    Lengths,          \* message sizes the programs are started with
    MaxTransfers      \* bound: transfers on the connection

Keys == {"mtu_bytes", "packets_per_chunk", "num_channels", "channel_base_port"}

ASSUME NegotiationAssumption ==
    /\ {MaxPayload, OffsetSpace, DefaultMtu, K, M} \subseteq Nat \ {0}
    /\ Uint16Space \in Nat \ {0, 1}
    /\ {SenderPpc, ReceiverPpc} \subseteq 1 .. Uint16Space - 1
    /\ UdpPort \in 0 .. Uint16Space - 1 /\ DefaultPort \in 1 .. Uint16Space - 1
    /\ \A f \in SenderConfigs \cup ReceiverConfigs :
          DOMAIN f \subseteq Keys /\ \A key \in DOMAIN f : f[key] \in Nat
    /\ Lengths \subseteq Nat \ {0}
    /\ MaxTransfers \in Nat

CeilDiv(a, b) == (a + b - 1) \div b

Smaller(a, b) == IF a < b THEN a ELSE b

\* x, unless it is 0 and means "not set".
Or(x, default) == IF x # 0 THEN x ELSE default

Uint16 == 0 .. Uint16Space - 1

\* ConnectionParams, as far as it is used; transfer_id is left to Rendezvous.
Params ==
    [mtu : Nat, ppc : Uint16, channels : Uint16, base : Uint16, port : Uint16, total : Nat]

-----------------------------------------------------------------------------
(* Configuration *)

\* get_uint32: the value of a key of the file, or a default.  A line that is
\* no assignment or a value that is no number is as good as absent.
GetUint32(file, key, default) == IF key \in DOMAIN file THEN file[key] ELSE default

\* A configured value that keeps all its bits.
NotNarrowed(n) == n

\* The static_cast<uint16_t> of a configured value.
Narrow(n) == n % Uint16Space

\* The parameters the sending program passes to sdr_set_params.
SenderParams(file) ==
    [mtu |-> GetUint32(file, "mtu_bytes", 0),
     ppc |-> Narrow(GetUint32(file, "packets_per_chunk", 0)),
     channels |-> Narrow(GetUint32(file, "num_channels", 1)),
     base |-> UdpPort, port |-> UdpPort, total |-> 0]

\* The parameters the receiving program passes to sdr_set_params.
ReceiverParams(file) ==
    [mtu |-> GetUint32(file, "mtu_bytes", DefaultMtu),
     ppc |-> Narrow(GetUint32(file, "packets_per_chunk", ReceiverPpc)),
     channels |-> Narrow(GetUint32(file, "num_channels", 1)),
     base |-> Narrow(GetUint32(file, "channel_base_port", UdpPort)),
     port |-> UdpPort, total |-> 0]

-----------------------------------------------------------------------------
(* Negotiation *)

\* The OFFER of sdr_send_post for a message of n bytes.
Desired(own, n) ==
    [own EXCEPT !.total = n, !.mtu = Or(@, MaxPayload), !.ppc = Or(@, SenderPpc),
                !.channels = Or(@, 1), !.port = 0]

\* A negotiation that trusts the configured MTU.
NegotiatedMtuUncapped(own, offer) == Or(own.mtu, Or(offer.mtu, MaxPayload))

\* The receiver's MTU wins over the offered one; neither exceeds
\* MAX_PAYLOAD_SIZE.
NegotiatedMtu(own, offer) == Smaller(Or(own.mtu, Or(offer.mtu, MaxPayload)), MaxPayload)

\* The offered number of channels wins over the receiver's.
NegotiatedChannels(own, offer) == Or(offer.channels, Or(own.channels, 1))

\* The parameters of the CTS with which sdr_recv_post answers an OFFER, for a
\* buffer of n bytes.
Negotiated(own, offer, n) ==
    LET port == Or(own.port, Or(own.base, DefaultPort))
    IN  [mtu |-> NegotiatedMtu(own, offer),
         ppc |-> Or(own.ppc, Or(offer.ppc, ReceiverPpc)),
         channels |-> NegotiatedChannels(own, offer),
         port |-> port, base |-> Or(own.base, port),
         total |-> Or(offer.total, n)]

\* Workers on the ports from udp_server_port on.
BoundFromServerPort(p) == {(p.port + i) % Uint16Space : i \in 0 .. p.channels - 1}

\* UDPReceiver::start: one worker per channel, on consecutive ports.  (Ports
\* that wrap to 0, where bind picks one itself, are not told apart.)
BoundPorts(p) == {(p.base + i) % Uint16Space : i \in 0 .. p.channels - 1}

-----------------------------------------------------------------------------
(* Layout of an erasure coded message *)

\* Chunk size, data chunks and total size that ECSender::encode_and_send and
\* ECReceiver::post_receive compute for n bytes from the parameters p.
Layout(p, n) ==
    LET chunk == Smaller(Or(p.mtu, MaxPayload), MaxPayload) * Or(p.ppc, SenderPpc)
        data == CeilDiv(n, chunk)
    IN  [chunk |-> chunk, data |-> data, size |-> (data + CeilDiv(data, K) * M) * chunk]

NoLayout == [chunk |-> 0, data |-> 0, size |-> 0]

\* The buffer size the receiving program computes for itself.
AppSize(p, n) ==
    LET chunk == Or(Smaller(p.mtu, MaxPayload) * p.ppc, 1)
        data == CeilDiv(n, chunk)
    IN  (data + CeilDiv(data, K) * M) * chunk

-----------------------------------------------------------------------------
(* Datagrams *)

\* Packet i of a message of n bytes, sent to a port: create_data_packet for
\* the bytes from i * mtu on, as many as are left and fit.  The header keeps
\* only the low bits of i.
Packet(p, n, i, port) ==
    [offset |-> i % OffsetSpace, from |-> i * p.mtu,
     len |-> Smaller(Smaller(p.mtu, n - i * p.mtu), MaxPayload), port |-> port]

\* sdr_send_post sends every packet, round robin over the channels.
FirstPackets(p, n) ==
    {Packet(p, n, i, (p.base + (i % p.channels)) % Uint16Space) : i \in 0 .. CeilDiv(n, p.mtu) - 1}

\* A retransmission of whole packets only.
ChunkPacketsWhole(p, n, c) ==
    {Packet(p, n, i, p.port) : i \in {j \in c * p.ppc .. (c + 1) * p.ppc - 1 : (j + 1) * p.mtu <= n}}

\* The packets SRSender's retransmit_range and ECSender's retransmit_chunk
\* send for chunk c: to udp_server_port only.
ChunkPackets(p, n, c) ==
    {Packet(p, n, i, p.port) : i \in {j \in c * p.ppc .. (c + 1) * p.ppc - 1 : j * p.mtu < n}}

Bytes(d) == d.from .. d.from + d.len - 1

ChunksOf(p, n) == 0 .. CeilDiv(CeilDiv(n, p.mtu), p.ppc) - 1

-----------------------------------------------------------------------------

VARIABLES
    mode,       \* --mode of both programs: "SDR", "SR" or "EC"
    transfers,  \* transfers the sender has started
    \* the sender
    spc,        \* "idle", in sdr_send_post ("await_cts"), or "sending"
    sParams,    \* params_ of its ConnectionContext
    chosen,     \* sdr_set_params was called for this transfer
    sMsg,       \* size of the message given to the sending layer
    sSize,      \* buffer_size of the send handle
    sLayout,    \* layout of the erasure coded send_storage_
    \* the receiver
    rpc,        \* "idle", in sdr_recv_post ("await_accept"), "receiving", "failed"
    rParams,    \* params_ of its ConnectionContext
    rMsg,       \* size of the message the receiver expects
    rSize,      \* buffer_size of the message context
    rLayout,    \* layout assumed by ECReceiver
    ports,      \* ports the UDP receiver's workers have bound
    got,        \* the backend bitmap
    buf,        \* the byte of the message at each place of the buffer, or -1
    \* in between
    ctl,        \* the handshake message in transit
    net         \* datagrams in transit

senderVars == <<spc, sParams, chosen, sMsg, sSize, sLayout, transfers>>
recvVars == <<rParams, rMsg, rSize, rLayout, ports>>
vars == <<mode, senderVars, rpc, recvVars, got, buf, ctl, net>>

NoParams == [mtu |-> 0, ppc |-> 0, channels |-> 0, base |-> 0, port |-> 0, total |-> 0]

Control(type, p) == [type |-> type, params |-> p]

NoControl == Control("none", NoParams)

\* Both programs are connected and have set their parameters.
Init ==
    /\ mode \in {"SDR", "SR", "EC"}
    /\ transfers = 0
    /\ spc = "idle"
    /\ sParams \in {SenderParams(f) : f \in SenderConfigs}
    /\ chosen = TRUE
    /\ sMsg = 0 /\ sSize = 0 /\ sLayout = NoLayout
    /\ rpc = "idle"
    /\ rParams \in {ReceiverParams(f) : f \in ReceiverConfigs}
    /\ rMsg = 0 /\ rSize = 0 /\ rLayout = NoLayout
    /\ ports = {} /\ got = {} /\ buf = [b \in {} |-> -1]
    /\ ctl = NoControl /\ net = {}

-----------------------------------------------------------------------------
(* Actions *)

\* sdr_set_params, before another message is sent.
SetParams(file) ==
    /\ spc = "idle" /\ transfers > 0
    /\ sParams' = SenderParams(file)
    /\ chosen' = TRUE
    /\ UNCHANGED <<mode, spc, sMsg, sSize, sLayout, transfers, rpc, recvVars, got, buf, ctl, net>>

\* The sender gives n bytes to sdr_send_post, to SRSender or to ECSender,
\* which first lays out data and parity; the OFFER goes out.
SendPost(n) ==
    /\ spc = "idle" /\ transfers < MaxTransfers
    /\ transfers' = transfers + 1
    /\ sMsg' = n
    /\ sLayout' = IF mode = "EC" THEN Layout(sParams, n) ELSE NoLayout
    /\ sSize' = IF mode = "EC" THEN sLayout'.size ELSE n
    /\ ctl' = Control("OFFER", Desired(sParams, sSize'))
    /\ spc' = "await_cts"
    /\ UNCHANGED <<mode, sParams, chosen, rpc, recvVars, got, buf, net>>

\* post_receive of ECReceiver needs room for data and parity.
BufferSuffices(n) == mode = "EC" => AppSize(rParams, n) >= Layout(rParams, n).size

\* sdr_recv_post, called directly or by a reliability layer, for n bytes:
\* negotiate, set up the message context, start the UDP receiver if there is
\* none, send the CTS.
RecvPost(n) ==
    /\ rpc = "idle" /\ ctl.type = "OFFER"
    /\ BufferSuffices(n)
    /\ rMsg' = n
    /\ rLayout' = IF mode = "EC" THEN Layout(rParams, n) ELSE NoLayout
    /\ rSize' = IF mode = "EC" THEN AppSize(rParams, n) ELSE n
    /\ rParams' = Negotiated(rParams, ctl.params, rSize')
    /\ ports' = IF ports = {} THEN BoundPorts(rParams') ELSE ports
    /\ got' = {}
    /\ buf' = [b \in 0 .. rSize' - 1 |-> -1]
    /\ ctl' = Control("CTS", rParams')
    /\ rpc' = "await_accept"
    /\ UNCHANGED <<mode, senderVars, net>>

\* The buffer is too small for the layout: the program gives up.
RecvPostFails(n) ==
    /\ rpc = "idle"
    /\ ~BufferSuffices(n)
    /\ rpc' = "failed"
    /\ UNCHANGED <<mode, senderVars, recvVars, got, buf, ctl, net>>

\* A sender that prefers the parameters it had.
PrefersOwn(p) == [p EXCEPT !.mtu = Or(sParams.mtu, @), !.ppc = Or(sParams.ppc, @)]

\* initialize: the CTS's parameters become the connection's.
Adopted(p) == p

\* On CTS: take over its parameters, send ACCEPT and transmit every packet.
\* With auto_send_data cleared SRSender sends the chunks of its first window.
SendData ==
    /\ spc = "await_cts" /\ ctl.type = "CTS"
    /\ sParams' = Adopted(ctl.params)
    /\ ctl' = Control("ACCEPT", ctl.params)
    /\ \/ mode # "SR" /\ net' = FirstPackets(ctl.params, sSize)
       \/ /\ mode = "SR"
          /\ \E w \in ChunksOf(sParams', sSize) :
                net' = UNION {ChunkPackets(sParams', sSize, c) : c \in 0 .. w}
    /\ spc' = "sending"
    /\ UNCHANGED <<mode, transfers, chosen, sMsg, sSize, sLayout, rpc, recvVars, got, buf>>

\* A chunk the receiver reports missing is retransmitted.
Retransmit ==
    /\ spc = "sending" /\ mode # "SDR"
    /\ \E c \in ChunksOf(sParams, sSize) :
          /\ ~(c * sParams.ppc .. (c + 1) * sParams.ppc - 1 \subseteq got)
          /\ net' = net \cup ChunkPackets(sParams, sSize, c)
    /\ UNCHANGED <<mode, senderVars, rpc, recvVars, got, buf, ctl>>

\* sdr_recv_post sees the ACCEPT and returns.
RecvAccept ==
    /\ rpc = "await_accept" /\ ctl.type = "ACCEPT"
    /\ ctl' = NoControl
    /\ rpc' = "receiving"
    /\ UNCHANGED <<mode, senderVars, recvVars, got, buf, net>>

\* A write at a multiple of the payload's own length.
PlaceByLength(d) == d.offset * d.len

\* write_packet_to_buffer: where in the buffer a payload starts.
Place(d) == d.offset * rParams.mtu

\* A worker receives a datagram, which may be before sdr_recv_post returns;
\* a packet it has already is not written again, and what does not fit into
\* the buffer is cut off.
Deliver(d) ==
    /\ d \in net /\ d.port \in ports
    /\ net' = net \ {d}
    /\ IF d.offset \in got THEN UNCHANGED <<got, buf>>
       ELSE /\ buf' = [b \in DOMAIN buf |->
                         IF b \in Place(d) .. Place(d) + d.len - 1 THEN d.from + (b - Place(d))
                         ELSE buf[b]]
            /\ got' = got \cup ({d.offset} \cap 0 .. CeilDiv(rSize, rParams.mtu) - 1)
    /\ UNCHANGED <<mode, senderVars, rpc, recvVars, ctl>>

\* A datagram is lost, at the latest at a port nobody has bound.
Lose(d) ==
    /\ d \in net
    /\ net' = net \ {d}
    /\ UNCHANGED <<mode, senderVars, rpc, recvVars, got, buf, ctl>>

\* sdr_recv_complete, and the verdict ends the sender's poll.
EndTransfer ==
    /\ spc = "sending" /\ rpc = "receiving"
    /\ spc' = "idle" /\ rpc' = "idle"
    /\ chosen' = FALSE
    /\ net' = {}
    /\ UNCHANGED <<mode, sParams, sMsg, sSize, sLayout, transfers, recvVars, got, buf, ctl>>

Next ==
    \/ \E f \in SenderConfigs : SetParams(f)
    \/ \E n \in Lengths : SendPost(n) \/ RecvPost(n) \/ RecvPostFails(n)
    \/ SendData \/ Retransmit \/ RecvAccept
    \/ \E d \in net : Deliver(d) \/ Lose(d)
    \/ EndTransfer

Spec == Init /\ [][Next]_vars

-----------------------------------------------------------------------------
(* Properties *)

Layouts == [chunk : Nat, data : Nat, size : Nat]

\* Types of both ends' parameters, buffers and messages.
TypeOK ==
    /\ mode \in {"SDR", "SR", "EC"} /\ transfers \in 0 .. MaxTransfers
    /\ spc \in {"idle", "await_cts", "sending"}
    /\ sParams \in Params /\ chosen \in BOOLEAN
    /\ sMsg \in Nat /\ sSize \in Nat /\ sLayout \in Layouts
    /\ rpc \in {"idle", "await_accept", "receiving", "failed"}
    /\ rParams \in Params
    /\ rMsg \in Nat /\ rSize \in Nat /\ rLayout \in Layouts
    /\ ports \subseteq Uint16
    /\ got \subseteq Nat
    /\ buf \in [0 .. rSize - 1 -> Int]
    /\ ctl \in [type : {"none", "OFFER", "CTS", "ACCEPT"}, params : Params]
    /\ net \subseteq [offset : Nat, from : Nat, len : Nat, port : Uint16]

\* Every byte is sent by exactly one packet, by the loop of sdr_send_post and
\* by the retransmission of all chunks alike: the three pieces of code cut the
\* message in the same way, the short last packet and chunk included.
CutOnce ==
    spc = "sending" =>
        LET first == FirstPackets(sParams, sSize)
            again == UNION {ChunkPackets(sParams, sSize, c) : c \in ChunksOf(sParams, sSize)}
        IN  \A b \in 0 .. sSize - 1 :
                /\ Cardinality({d \in first : b \in Bytes(d)}) = 1
                /\ Cardinality({d \in again : b \in Bytes(d)}) = 1

\* The sender's message has no more packets than packet_offset can tell apart;
\* nothing in the code checks it.  (total_bytes of the CTS is the sender's.)
FitsOffsets == rParams.total <= OffsetSpace * rParams.mtu

\* Whatever is in the receive buffer is at the place it had in the sender's,
\* although the two ends are configured with different MTUs, and packets are
\* resent by other code than sent them first; for messages that fit the offset.
Placed == FitsOffsets => \A b \in DOMAIN buf : buf[b] \in {-1, b}

\* When the backend bitmap is full the buffer holds every byte that both ends'
\* sizes cover: no datagram was cut short on its way, for messages that fit
\* the offset.
CompleteIsWhole ==
    (/\ rpc \in {"await_accept", "receiving"} /\ FitsOffsets
     /\ got = 0 .. CeilDiv(rSize, rParams.mtu) - 1)
        => \A b \in 0 .. Smaller(sSize, rSize) - 1 : buf[b] = b

\* Datagrams go to ports somebody listens on, as long as a transfer does not
\* ask for more channels than the first one did, when the workers were
\* started; retransmissions need a receiver with channel_base_port equal to
\* udp_server_port.
PortsHeard ==
    (spc = "sending" /\ sParams.channels <= Cardinality(ports)) =>
        \A d \in net : d.port \in ports \/ (mode # "SDR" /\ rParams.base # rParams.port)

\* The chunks ECReceiver counts are those of the chunk bitmap, although it
\* computes their size before the negotiation and with another default, if the
\* receiver's own MTU and chunk size are set.  (Unset ones are mostly caught by
\* the size check of post_receive, as the program computes another size; not
\* when the message fills whole stripes.)
BitmapMatchesLayout ==
    [][(mode = "EC" /\ rpc = "idle" /\ rpc' = "await_accept" /\ rParams.mtu # 0 /\ rParams.ppc # 0)
          => rLayout'.chunk = rParams'.mtu * rParams'.ppc]_vars

\* Sender and receiver of an erasure coded message agree on where data and
\* parity are from the second transfer on, if the sender leaves the parameters
\* of the last CTS in place.
LayoutsFollowCts ==
    (mode = "EC" /\ spc = "sending" /\ sMsg = rMsg /\ ~chosen) => sLayout = rLayout

\* "Use existing connection params (set via CTS in sdr_api paths)": the layout
\* encode_and_send uses is that of the negotiated parameters, which is the
\* receiver's.
LayoutsAgree ==
    (mode = "EC" /\ spc = "sending" /\ sMsg = rMsg) => sLayout = rLayout
==============================================================================
