-------------------------- MODULE Negotiation_proofs --------------------------
(***************************************************************************)
(* Proofs about Negotiation for any configuration files, message sizes,    *)
(* stripes, payload limit and defaults.                                    *)
(***************************************************************************)
EXTENDS Negotiation, FiniteSetTheorems, TLAPS

USE DEF senderVars, recvVars

-----------------------------------------------------------------------------
(* Arithmetic of packets *)

\* Multiplying by a natural number is monotonic.
LEMMA TimesMonotonic ==
    ASSUME NEW x \in Int, NEW y \in Int, NEW b \in Nat, x <= y
    PROVE  x * b <= y * b
  OBVIOUS

\* What division rounding down returns.
LEMMA DivBounds ==
    ASSUME NEW x \in Nat, NEW b \in Nat \ {0}
    PROVE  /\ x \div b \in Nat
           /\ (x \div b) * b <= x
           /\ x < (x \div b) * b + b
  OBVIOUS

\* The quotient is the only multiple that fits.
LEMMA DivUnique ==
    ASSUME NEW x \in Nat, NEW b \in Nat \ {0}, NEW q \in Nat, q * b <= x, x < q * b + b
    PROVE  q = x \div b
  <1> DEFINE r == x \div b
  <1>1. r \in Nat /\ r * b <= x /\ x < r * b + b
    BY DivBounds
  <1> HIDE DEF r
  <1>2. ASSUME q < r PROVE FALSE
    <2>1. (q + 1) * b <= r * b
      BY <1>1, <1>2, TimesMonotonic
    <2>2. (q + 1) * b = q * b + b /\ q * b \in Nat /\ r * b \in Nat
      BY <1>1
    <2> QED
      BY <1>1, <2>1, <2>2
  <1>3. ASSUME r < q PROVE FALSE
    <2>1. (r + 1) * b <= q * b
      BY <1>1, <1>3, TimesMonotonic
    <2>2. (r + 1) * b = r * b + b /\ q * b \in Nat /\ r * b \in Nat
      BY <1>1
    <2> QED
      BY <1>1, <2>1, <2>2
  <1> QED
    BY <1>1, <1>2, <1>3 DEF r

\* A packet index is below the number of packets iff its bytes start below the
\* end of the message.
LEMMA CeilDivBounds ==
    ASSUME NEW n \in Nat, NEW b \in Nat \ {0}
    PROVE  /\ CeilDiv(n, b) \in Nat
           /\ \A i \in Nat : i < CeilDiv(n, b) <=> i * b < n
  <1> DEFINE q == CeilDiv(n, b)
  <1>1. q \in Nat /\ q * b <= n + b - 1 /\ n + b - 1 < q * b + b
    BY DivBounds, n + b - 1 \in Nat DEF CeilDiv
  <1> HIDE DEF q
  <1>2. ASSUME NEW i \in Nat, i < q PROVE i * b < n
    <2>1. (i + 1) * b <= q * b
      BY <1>1, <1>2, TimesMonotonic, i + 1 <= q, i + 1 \in Int
    <2>2. (i + 1) * b = i * b + b /\ i * b \in Int /\ q * b \in Int
      BY <1>1
    <2> QED
      BY <1>1, <2>1, <2>2
  <1>3. ASSUME NEW i \in Nat, i * b < n PROVE i < q
    <2> SUFFICES ASSUME q <= i PROVE FALSE
      BY <1>1
    <2>1. q * b <= i * b
      BY <1>1, TimesMonotonic
    <2>2. i * b \in Int /\ q * b \in Int
      BY <1>1
    <2> QED
      BY <1>1, <1>3, <2>1, <2>2
  <1> QED
    BY <1>1, <1>2, <1>3 DEF q

-----------------------------------------------------------------------------
(* Parameters *)

\* Parameters a connection can transmit with.
Usable(p) ==
    /\ p \in Params /\ p.mtu \in 1 .. MaxPayload /\ p.ppc # 0 /\ p.channels # 0
    /\ p.port # 0 /\ p.base # 0

\* What is assumed of the constants, in the types of the parameters.
LEMMA ConstantFacts ==
    /\ MaxPayload \in Nat \ {0} /\ DefaultMtu \in Nat /\ K \in Nat \ {0} /\ M \in Nat
    /\ Uint16Space \in Nat /\ 0 \in Uint16 /\ 1 \in Uint16
    /\ SenderPpc \in Uint16 \ {0} /\ ReceiverPpc \in Uint16 \ {0}
    /\ UdpPort \in Uint16 /\ DefaultPort \in Uint16 \ {0}
  BY NegotiationAssumption DEF Uint16

\* A configured value fits its field after the cast.
LEMMA NarrowFits ==
    ASSUME NEW n \in Nat
    PROVE  Narrow(n) \in Uint16
  BY NegotiationAssumption DEF Narrow, Uint16

\* A value of a configuration file, or its default.
LEMMA ConfiguredIsNat ==
    ASSUME NEW f \in SenderConfigs \cup ReceiverConfigs, NEW key, NEW default \in Nat
    PROVE  GetUint32(f, key, default) \in Nat
  BY NegotiationAssumption DEF GetUint32

\* Whatever the files say, both programs set parameters that fit.
LEMMA ConfiguredParams ==
    /\ \A f \in SenderConfigs : SenderParams(f) \in Params
    /\ \A f \in ReceiverConfigs : ReceiverParams(f) \in Params
  <1>1. \A f \in SenderConfigs \cup ReceiverConfigs, default \in Nat :
           \A key : /\ GetUint32(f, key, default) \in Nat
                    /\ Narrow(GetUint32(f, key, default)) \in Uint16
    BY ConfiguredIsNat, NarrowFits
  <1>2. UdpPort \in Nat /\ ReceiverPpc \in Nat /\ DefaultMtu \in Nat /\ 0 \in Nat /\ 1 \in Nat
    BY ConstantFacts DEF Uint16
  <1>3. ASSUME NEW f \in SenderConfigs PROVE SenderParams(f) \in Params
    BY <1>1, <1>2, ConstantFacts DEF SenderParams, Params
  <1>4. ASSUME NEW f \in ReceiverConfigs PROVE ReceiverParams(f) \in Params
    BY <1>1, <1>2, ConstantFacts DEF ReceiverParams, Params
  <1> QED
    BY <1>3, <1>4

\* An OFFER is well formed.
LEMMA DesiredType ==
    ASSUME NEW own \in Params, NEW n \in Nat
    PROVE  Desired(own, n) \in Params
  BY ConstantFacts DEF Desired, Params, Or

\* Whatever the two ends propose, the negotiated parameters are usable.
LEMMA NegotiatedUsable ==
    ASSUME NEW own \in Params, NEW offer \in Params, NEW n \in Nat
    PROVE  Usable(Negotiated(own, offer, n))
  <1> DEFINE p == Negotiated(own, offer, n)
  <1> USE ConstantFacts
  <1>1. own.mtu \in Nat /\ offer.mtu \in Nat /\ offer.total \in Nat
    BY DEF Params
  <1>2. /\ own.ppc \in Uint16 /\ offer.ppc \in Uint16 /\ own.channels \in Uint16
        /\ offer.channels \in Uint16 /\ own.port \in Uint16 /\ own.base \in Uint16
    BY DEF Params
  <1>3. NegotiatedMtu(own, offer) \in 1 .. MaxPayload
    BY <1>1 DEF NegotiatedMtu, Smaller, Or
  <1>4. NegotiatedChannels(own, offer) \in Uint16 \ {0}
    BY <1>2 DEF NegotiatedChannels, Or, Uint16
  <1>5. Or(own.ppc, Or(offer.ppc, ReceiverPpc)) \in Uint16 \ {0}
    BY <1>2 DEF Or
  <1>6. Or(own.port, Or(own.base, DefaultPort)) \in Uint16 \ {0}
    BY <1>2 DEF Or
  <1>7. Or(own.base, Or(own.port, Or(own.base, DefaultPort))) \in Uint16 \ {0}
    BY <1>2, <1>6 DEF Or
  <1>8. Or(offer.total, n) \in Nat
    BY <1>1 DEF Or
  <1> QED
    BY <1>3, <1>4, <1>5, <1>6, <1>7, <1>8 DEF Usable, Negotiated, Params

\* Later negotiations keep the ports of the first.
LEMMA PortsSticky ==
    ASSUME NEW own, Usable(own), NEW offer, NEW n
    PROVE  Negotiated(own, offer, n).base = own.base /\ Negotiated(own, offer, n).port = own.port
  BY DEF Negotiated, Usable, Or

\* The layouts have positive chunk sizes.
LEMMA LayoutType ==
    ASSUME NEW p \in Params, NEW n \in Nat
    PROVE  Layout(p, n) \in Layouts /\ AppSize(p, n) \in Nat
  <1> USE ConstantFacts
  <1>0. p.mtu \in Nat /\ p.ppc \in Nat
    BY DEF Params, Uint16
  <1>1. ASSUME NEW chunk \in Nat \ {0}
        PROVE  /\ CeilDiv(n, chunk) \in Nat
               /\ (CeilDiv(n, chunk) + CeilDiv(CeilDiv(n, chunk), K) * M) * chunk \in Nat
    <2>1. CeilDiv(n, chunk) \in Nat
      BY CeilDivBounds
    <2>2. CeilDiv(CeilDiv(n, chunk), K) \in Nat
      BY <2>1, CeilDivBounds
    <2>3. CeilDiv(CeilDiv(n, chunk), K) * M \in Nat
      BY <2>2
    <2> QED
      BY <2>1, <2>3
  <1>2. Smaller(Or(p.mtu, MaxPayload), MaxPayload) \in Nat \ {0} /\ Or(p.ppc, SenderPpc) \in Nat \ {0}
    BY <1>0 DEF Smaller, Or, Uint16
  <1>3. Smaller(Or(p.mtu, MaxPayload), MaxPayload) * Or(p.ppc, SenderPpc) \in Nat \ {0}
    BY <1>2
  <1>4. Smaller(p.mtu, MaxPayload) * p.ppc \in Nat
    BY <1>0 DEF Smaller
  <1>5. Or(Smaller(p.mtu, MaxPayload) * p.ppc, 1) \in Nat \ {0}
    BY <1>4 DEF Or
  <1> QED
    BY <1>1, <1>3, <1>5 DEF Layout, Layouts, AppSize

-----------------------------------------------------------------------------
(* Packets *)

\* d is a packet of the message of n bytes, sent to a channel's port or, by a
\* retransmission, to udp_server_port.
IsPacket(d, p, n) ==
    \E i \in Nat, port \in Uint16 :
        /\ i * p.mtu < n
        /\ d = Packet(p, n, i, port)
        /\ \/ \E k \in 0 .. p.channels - 1 : port = (p.base + k) % Uint16Space
           \/ mode # "SDR" /\ port = p.port

\* What a packet carries: all of the message in its range.
LEMMA PacketFacts ==
    ASSUME NEW p, Usable(p), NEW n \in Nat, NEW i \in Nat, i * p.mtu < n, NEW port \in Uint16
    PROVE  LET d == Packet(p, n, i, port)
           IN  /\ d.offset = i % OffsetSpace /\ d.from = i * p.mtu /\ d.port = port
               /\ d \in [offset : Nat, from : Nat, len : Nat, port : Uint16]
               /\ \A b \in Int : b \in Bytes(d) <=> i * p.mtu <= b /\ b < i * p.mtu + p.mtu /\ b < n
  <1> DEFINE s == i * p.mtu
             len == Smaller(Smaller(p.mtu, n - s), MaxPayload)
  <1>1. p.mtu \in 1 .. MaxPayload /\ MaxPayload \in Nat
    BY ConstantFacts DEF Usable
  <1>2. s \in Nat /\ s < n
    BY <1>1
  <1> HIDE DEF s
  <1>3. len \in Nat /\ len = Smaller(p.mtu, n - s)
    BY <1>1, <1>2 DEF Smaller
  <1>4. Packet(p, n, i, port) = [offset |-> i % OffsetSpace, from |-> s, len |-> len, port |-> port]
    BY DEF Packet, s
  <1>5. \A b \in Int : b \in s .. s + len - 1 <=> s <= b /\ b < s + p.mtu /\ b < n
    BY <1>1, <1>2, <1>3 DEF Smaller
  <1>6. i % OffsetSpace \in Nat
    BY NegotiationAssumption
  <1> HIDE DEF len
  <1> QED
    BY <1>2, <1>3, <1>4, <1>5, <1>6 DEF Bytes, s

\* The packets of a message that fits the offset keep their number.
LEMMA OffsetKept ==
    ASSUME NEW mtu \in Nat \ {0}, NEW i \in Nat, i * mtu < OffsetSpace * mtu
    PROVE  i % OffsetSpace = i
  <1>1. OffsetSpace \in Nat \ {0}
    BY NegotiationAssumption
  <1>2. i < OffsetSpace
    <2> SUFFICES ASSUME OffsetSpace <= i PROVE FALSE
      BY <1>1
    <2>1. OffsetSpace * mtu <= i * mtu
      BY <1>1, TimesMonotonic
    <2>2. OffsetSpace * mtu \in Nat /\ i * mtu \in Nat
      BY <1>1
    <2> QED
      BY <2>1, <2>2
  <1> QED
    BY <1>1, <1>2

\* The indices of packets.
LEMMA PacketIndices ==
    ASSUME NEW mtu \in Nat \ {0}, NEW n \in Nat
    PROVE  \A i : i \in 0 .. CeilDiv(n, mtu) - 1 <=> i \in Nat /\ i * mtu < n
  <1>1. CeilDiv(n, mtu) \in Nat /\ \A i \in Nat : i < CeilDiv(n, mtu) <=> i * mtu < n
    BY CeilDivBounds
  <1>2. \A i : i \in 0 .. CeilDiv(n, mtu) - 1 <=> i \in Nat /\ i < CeilDiv(n, mtu)
    BY <1>1
  <1> QED
    BY <1>1, <1>2

\* The loop of sdr_send_post sends packets of the message.
LEMMA FirstAreThePackets ==
    ASSUME NEW p, Usable(p), NEW n \in Nat
    PROVE  \A d \in FirstPackets(p, n) : IsPacket(d, p, n)
  <1> SUFFICES ASSUME NEW i \in 0 .. CeilDiv(n, p.mtu) - 1
               PROVE  IsPacket(Packet(p, n, i, (p.base + (i % p.channels)) % Uint16Space), p, n)
    BY DEF FirstPackets
  <1>1. p.mtu \in Nat \ {0} /\ p.channels \in Nat \ {0} /\ p.base \in Nat
    BY ConstantFacts DEF Usable, Params, Uint16
  <1>2. i \in Nat /\ i * p.mtu < n
    BY <1>1, PacketIndices
  <1>3. i % p.channels \in 0 .. p.channels - 1
    BY <1>1, <1>2
  <1>4. (p.base + (i % p.channels)) % Uint16Space \in Uint16
    BY <1>1, <1>3, NegotiationAssumption DEF Uint16
  <1> QED
    BY <1>2, <1>3, <1>4 DEF IsPacket

\* So do the retransmissions of SRSender and ECSender.
LEMMA ChunksAreThePackets ==
    ASSUME NEW p, Usable(p), NEW n \in Nat, NEW c \in Nat, mode # "SDR"
    PROVE  \A d \in ChunkPackets(p, n, c) : IsPacket(d, p, n)
  <1>1. p.ppc \in Nat /\ p.port \in Uint16
    BY ConstantFacts DEF Usable, Params, Uint16
  <1>2. c * p.ppc \in Nat
    BY <1>1
  <1> SUFFICES ASSUME NEW i \in c * p.ppc .. (c + 1) * p.ppc - 1, i * p.mtu < n
               PROVE  IsPacket(Packet(p, n, i, p.port), p, n)
    BY DEF ChunkPackets
  <1> QED
    BY <1>1, <1>2 DEF IsPacket

\* Chunk ids are natural numbers.
LEMMA ChunkIds ==
    ASSUME NEW p, Usable(p), NEW n \in Nat
    PROVE  ChunksOf(p, n) \subseteq Nat
  <1>1. p.mtu \in Nat \ {0} /\ p.ppc \in Nat \ {0}
    BY ConstantFacts DEF Usable, Params, Uint16
  <1>2. CeilDiv(n, p.mtu) \in Nat
    BY <1>1, CeilDivBounds
  <1>3. CeilDiv(CeilDiv(n, p.mtu), p.ppc) \in Nat
    BY <1>1, <1>2, CeilDivBounds
  <1> QED
    BY <1>3 DEF ChunksOf

\* A byte is in the packet its position divided by the MTU says, and no other.
LEMMA OnePacketPerByte ==
    ASSUME NEW p, Usable(p), NEW n \in Nat, NEW b \in 0 .. n - 1,
           NEW i \in Nat, i * p.mtu < n, NEW port \in Uint16
    PROVE  b \in Bytes(Packet(p, n, i, port)) <=> i = b \div p.mtu
  <1>1. p.mtu \in Nat \ {0}
    BY ConstantFacts DEF Usable
  <1>2. b \in Bytes(Packet(p, n, i, port)) <=> i * p.mtu <= b /\ b < i * p.mtu + p.mtu
    BY PacketFacts
  <1>3. (b \div p.mtu) * p.mtu <= b /\ b < (b \div p.mtu) * p.mtu + p.mtu
    BY <1>1, DivBounds
  <1>4. i * p.mtu <= b /\ b < i * p.mtu + p.mtu => i = b \div p.mtu
    BY <1>1, DivUnique
  <1> QED
    BY <1>2, <1>3, <1>4

\* sdr_send_post sends every byte once.
LEMMA FirstCutOnce ==
    ASSUME NEW p, Usable(p), NEW n \in Nat, NEW b \in 0 .. n - 1
    PROVE  Cardinality({d \in FirstPackets(p, n) : b \in Bytes(d)}) = 1
  <1> DEFINE i == b \div p.mtu
             port(j) == (p.base + (j % p.channels)) % Uint16Space
  <1>1. p.mtu \in Nat \ {0} /\ p.channels \in Nat \ {0} /\ p.base \in Nat
    BY ConstantFacts DEF Usable, Params, Uint16
  <1>2. i \in Nat /\ i * p.mtu < n
    BY <1>1, DivBounds
  <1>3. \A j \in Nat : port(j) \in Uint16
    BY <1>1, NegotiationAssumption DEF Uint16
  <1>4. FirstPackets(p, n) = {Packet(p, n, j, port(j)) : j \in 0 .. CeilDiv(n, p.mtu) - 1}
    BY DEF FirstPackets
  <1>5. \A j \in 0 .. CeilDiv(n, p.mtu) - 1 : j \in Nat /\ j * p.mtu < n
    BY <1>1, PacketIndices
  <1>6. i \in 0 .. CeilDiv(n, p.mtu) - 1
    BY <1>1, <1>2, PacketIndices
  <1> HIDE DEF port
  <1>7. \A j \in 0 .. CeilDiv(n, p.mtu) - 1 : b \in Bytes(Packet(p, n, j, port(j))) <=> j = i
    BY <1>3, <1>5, OnePacketPerByte
  <1> HIDE DEF i
  <1>8. {d \in FirstPackets(p, n) : b \in Bytes(d)} = {Packet(p, n, i, port(i))}
    BY <1>4, <1>6, <1>7
  <1> QED
    BY <1>8, FS_Singleton

\* Retransmitting every chunk sends every byte once.
LEMMA ChunksCutOnce ==
    ASSUME NEW p, Usable(p), NEW n \in Nat, NEW b \in 0 .. n - 1
    PROVE  LET again == UNION {ChunkPackets(p, n, c) : c \in ChunksOf(p, n)}
           IN  Cardinality({d \in again : b \in Bytes(d)}) = 1
  <1> DEFINE again == UNION {ChunkPackets(p, n, c) : c \in ChunksOf(p, n)}
             i == b \div p.mtu
             c0 == i \div p.ppc
  <1>1. p.mtu \in Nat \ {0} /\ p.ppc \in Nat \ {0} /\ p.port \in Uint16
    BY ConstantFacts DEF Usable, Params, Uint16
  <1>2. i \in Nat /\ i * p.mtu < n
    BY <1>1, DivBounds
  <1>3. i < CeilDiv(n, p.mtu) /\ CeilDiv(n, p.mtu) \in Nat
    BY <1>1, <1>2, CeilDivBounds
  <1> HIDE DEF i
  <1>4. c0 \in Nat /\ c0 * p.ppc <= i /\ i < c0 * p.ppc + p.ppc
    BY <1>1, <1>2, DivBounds
  <1> HIDE DEF c0
  <1>5. c0 * p.ppc < CeilDiv(n, p.mtu) /\ c0 * p.ppc \in Nat
    BY <1>1, <1>2, <1>3, <1>4
  <1>6. c0 \in ChunksOf(p, n)
    BY <1>1, <1>3, <1>4, <1>5, PacketIndices DEF ChunksOf
  <1>7. Packet(p, n, i, p.port) \in ChunkPackets(p, n, c0)
    <2>1. \A k \in Nat : (c0 + 1) * k = c0 * k + k
      BY <1>4
    <2>2. i \in c0 * p.ppc .. (c0 + 1) * p.ppc - 1
      BY <1>1, <1>2, <1>4, <1>5, <2>1
    <2> QED
      BY <1>2, <2>2 DEF ChunkPackets
  <1>8. \A d \in again : \E j \in Nat : j * p.mtu < n /\ d = Packet(p, n, j, p.port)
    <2> SUFFICES ASSUME NEW c \in ChunksOf(p, n), NEW d \in ChunkPackets(p, n, c)
                 PROVE  \E j \in Nat : j * p.mtu < n /\ d = Packet(p, n, j, p.port)
      OBVIOUS
    <2>1. c \in Nat
      BY ChunkIds
    <2>2. c * p.ppc \in Nat
      BY <1>1, <2>1
    <2>3. PICK j \in {k \in c * p.ppc .. (c + 1) * p.ppc - 1 : k * p.mtu < n} :
             d = Packet(p, n, j, p.port)
      BY DEF ChunkPackets
    <2> QED
      BY <2>2, <2>3
  <1>9. \A j \in Nat : j * p.mtu < n => (b \in Bytes(Packet(p, n, j, p.port)) <=> j = i)
    BY <1>1, OnePacketPerByte DEF i
  <1>10. {d \in again : b \in Bytes(d)} = {Packet(p, n, i, p.port)}
    BY <1>2, <1>6, <1>7, <1>8, <1>9
  <1> QED
    BY <1>10, FS_Singleton

-----------------------------------------------------------------------------
(* The inductive invariant *)

\* The receiver has set up its message context.
Ready == rpc \in {"await_accept", "receiving"}

\* Where the two ends and the message between them can be together; from the
\* CTS on both have the same, usable, parameters, and total_bytes is the size
\* of the sender's message.
Handshake ==
    /\ net # {} => spc = "sending"
    /\ spc = "sending" => Ready /\ sParams = rParams
    /\ ctl.type = "OFFER" => /\ spc = "await_cts" /\ rpc \in {"idle", "failed"}
                             /\ ctl.params.total = sSize
    /\ ctl.type = "CTS" => spc = "await_cts" /\ rpc = "await_accept" /\ ctl.params = rParams
    /\ ctl.type = "ACCEPT" => spc = "sending" /\ rpc = "await_accept"
    /\ rpc = "await_accept" => spc = "sending" \/ ctl.type = "CTS"
    /\ rpc = "receiving" => spc = "sending"
    /\ Ready => Usable(rParams) /\ sSize <= rParams.total

\* Only packets of the message are in transit.
Packets == \A d \in net : IsPacket(d, sParams, sSize)

\* Every byte of a packet that is marked is in the buffer.
Contents ==
    Ready /\ FitsOffsets => \A o \in got, b \in DOMAIN buf :
        (o * rParams.mtu <= b /\ b < o * rParams.mtu + rParams.mtu /\ b < sSize) => buf[b] = b

\* The first n channels of the receiver.
Channels(p, n) == {(p.base + i) % Uint16Space : i \in 0 .. n - 1}

\* The ports stay those of the first negotiation.
Bound ==
    ports # {} => Usable(rParams) /\ \E n \in Nat \ {0} : ports = Channels(rParams, n)

\* The layout is computed from the parameters before the negotiation, which
\* the two ends share if they come from the last CTS.
LayoutInv ==
    /\ (spc = "idle" \/ ctl.type = "OFFER") /\ ~chosen => sParams = rParams
    /\ spc = "await_cts" /\ mode = "EC" => sLayout = Layout(sParams, sMsg)
    /\ mode = "EC" /\ Ready /\ ~chosen /\ sMsg = rMsg => sLayout = rLayout

IInv == TypeOK /\ Handshake /\ Packets /\ Contents /\ Placed /\ Bound /\ LayoutInv

\* Both programs start with parameters that fit and nothing in transit.
LEMMA InitInv == Init => IInv
  <1> SUFFICES ASSUME Init PROVE IInv
    OBVIOUS
  <1> USE DEF Init
  <1>1. sParams \in Params /\ rParams \in Params
    BY ConfiguredParams
  <1>2. NoParams \in Params /\ NoLayout \in Layouts
    BY ConstantFacts DEF NoParams, Params, NoLayout, Layouts
  <1>3. buf \in [0 .. rSize - 1 -> Int] /\ DOMAIN buf = {}
    <2>1. 0 .. rSize - 1 = {}
      BY SMT
    <2> QED
      BY <2>1
  <1>4. ctl.type = "none" /\ ctl \in [type : {"none", "OFFER", "CTS", "ACCEPT"}, params : Params]
    BY <1>2 DEF NoControl, Control
  <1>5. transfers \in 0 .. MaxTransfers
    BY NegotiationAssumption
  <1>6. TypeOK
    BY <1>1, <1>2, <1>3, <1>4, <1>5 DEF TypeOK
  <1>7. Handshake /\ Contents /\ Bound
    BY <1>4 DEF Handshake, Contents, FitsOffsets, Bound, Ready
  <1>8. Packets /\ Placed /\ LayoutInv
    BY <1>3, <1>4 DEF Packets, Placed, FitsOffsets, LayoutInv, Ready
  <1> QED
    BY <1>6, <1>7, <1>8 DEF IInv

\* sdr_set_params touches nothing of a transfer.
LEMMA SetParamsInv ==
    ASSUME IInv, NEW f \in SenderConfigs, SetParams(f)
    PROVE  IInv'
  <1> USE DEF IInv, SetParams
  <1>1. TypeOK'
    BY ConfiguredParams DEF TypeOK
  <1>2. Handshake' /\ Packets'
    BY DEF Handshake, Packets, Ready
  <1>3. Contents' /\ Placed' /\ Bound'
    BY DEF Contents, Placed, FitsOffsets, Bound, Ready, Channels
  <1>4. LayoutInv'
    BY DEF LayoutInv, Handshake, Ready
  <1> QED
    BY <1>1, <1>2, <1>3, <1>4

\* An OFFER is only sent between transfers.
LEMMA SendPostInv ==
    ASSUME IInv, NEW n \in Lengths, SendPost(n)
    PROVE  IInv'
  <1> USE DEF IInv
  <1>1. n \in Nat /\ sParams \in Params /\ spc = "idle"
    BY NegotiationAssumption DEF TypeOK, SendPost
  <1>2. Layout(sParams, n) \in Layouts /\ NoLayout \in Layouts
    BY <1>1, LayoutType DEF NoLayout, Layouts
  <1>3. sLayout' \in Layouts /\ sSize' \in Nat
    <2>1. sLayout' \in Layouts
      BY <1>2 DEF SendPost
    <2>2. sLayout'.size \in Nat
      BY <2>1 DEF Layouts
    <2> QED
      BY <1>1, <2>1, <2>2 DEF SendPost
  <1>4. ctl' = Control("OFFER", Desired(sParams, sSize')) /\ Desired(sParams, sSize') \in Params
    BY <1>1, <1>3, DesiredType DEF SendPost
  <1>5. ctl'.type = "OFFER" /\ ctl' \in [type : {"none", "OFFER", "CTS", "ACCEPT"}, params : Params]
        /\ ctl'.params.total = sSize'
    <2>1. Desired(sParams, sSize').total = sSize'
      BY <1>1 DEF Desired, Params
    <2> QED
      BY <1>4, <2>1 DEF Control
  <1>6. transfers' \in 0 .. MaxTransfers
    BY NegotiationAssumption DEF SendPost, TypeOK
  <1>7. TypeOK'
    BY <1>1, <1>3, <1>5, <1>6 DEF TypeOK, SendPost
  <1>8. ~Ready /\ net = {} /\ rpc \in {"idle", "failed"}
    BY <1>1 DEF Handshake, Ready, TypeOK
  <1>9. ~Ready' /\ Handshake' /\ Packets' /\ Contents'
    BY <1>5, <1>8 DEF Handshake, Packets, Contents, FitsOffsets, Ready, SendPost
  <1>10. Placed' /\ Bound'
    BY DEF Placed, FitsOffsets, Bound, SendPost, Channels
  <1>11. LayoutInv'
    BY <1>1, <1>5, <1>9 DEF LayoutInv, SendPost
  <1> QED
    BY <1>7, <1>9, <1>10, <1>11

\* Negotiation makes the parameters usable and leaves bound ports where they
\* are.
LEMMA RecvPostInv ==
    ASSUME IInv, NEW n \in Lengths, RecvPost(n)
    PROVE  IInv'
  <1> USE DEF IInv
  <1>1. n \in Nat /\ rParams \in Params /\ ctl.params \in Params
    BY NegotiationAssumption DEF TypeOK
  <1>2. rSize' \in Nat /\ rLayout' \in Layouts
    BY <1>1, LayoutType DEF RecvPost, NoLayout, Layouts
  <1>3. rParams' = Negotiated(rParams, ctl.params, rSize')
    BY DEF RecvPost
  <1>4. Usable(rParams')
    BY <1>1, <1>2, <1>3, NegotiatedUsable
  <1>5. rParams' \in Params
    BY <1>4 DEF Usable
  <1>6. ctl'.type = "CTS" /\ ctl'.params = rParams'
        /\ ctl' \in [type : {"none", "OFFER", "CTS", "ACCEPT"}, params : Params]
    BY <1>5 DEF RecvPost, Control
  <1>7. buf' \in [0 .. rSize' - 1 -> Int] /\ \A b \in DOMAIN buf' : buf'[b] = -1
    BY <1>2 DEF RecvPost
  <1>8. /\ rParams'.channels \in Nat \ {0} /\ rParams'.base \in Nat
        /\ BoundPorts(rParams') = Channels(rParams', rParams'.channels)
    <2>1. rParams'.channels \in Uint16 /\ rParams'.base \in Uint16 /\ rParams'.channels # 0
      BY <1>4, <1>5 DEF Usable, Params
    <2> QED
      BY <2>1, ConstantFacts DEF Uint16, BoundPorts, Channels
  <1>9. BoundPorts(rParams') \subseteq Uint16
    BY <1>8, NegotiationAssumption DEF Channels, Uint16
  <1>10. TypeOK'
    BY <1>1, <1>2, <1>5, <1>6, <1>7, <1>9 DEF TypeOK, RecvPost
  <1>11. spc = "await_cts" /\ net = {}
    BY DEF RecvPost, Handshake
  <1>12. Handshake' /\ Packets'
    <2>1. ctl.params.total = sSize /\ sSize \in Nat /\ sSize' = sSize
      BY DEF Handshake, TypeOK, RecvPost
    <2>2. rParams'.total = Or(sSize, rSize')
      BY <1>3, <2>1 DEF Negotiated
    <2>3. sSize' <= rParams'.total
      BY <1>2, <2>1, <2>2 DEF Or
    <2> QED
      BY <1>4, <1>6, <1>11, <2>3 DEF Handshake, Packets, Ready, RecvPost
  <1>13. Contents' /\ Placed'
    BY <1>7 DEF Contents, Placed, FitsOffsets, RecvPost
  <1>14. Bound'
    <2>1. CASE ports = {}
      BY <1>4, <1>8, <2>1 DEF Bound, RecvPost
    <2>2. CASE ports # {}
      <3>1. Usable(rParams) /\ ports' = ports
        BY <2>2 DEF Bound, RecvPost
      <3>2. rParams'.base = rParams.base
        BY <1>3, <3>1, PortsSticky
      <3> QED
        BY <1>4, <2>2, <3>1, <3>2 DEF Bound, Channels
    <2> QED
      BY <2>1, <2>2
  <1>15. LayoutInv'
    BY <1>6, <1>11 DEF LayoutInv, RecvPost
  <1> QED
    BY <1>10, <1>12, <1>13, <1>14, <1>15

\* A receiver that gives up was not in a transfer.
LEMMA RecvPostFailsInv ==
    ASSUME IInv, NEW n \in Lengths, RecvPostFails(n)
    PROVE  IInv'
  <1> USE DEF IInv, RecvPostFails
  <1>1. TypeOK' /\ Handshake' /\ Packets'
    BY DEF TypeOK, Handshake, Packets, Ready
  <1>2. Contents' /\ Placed' /\ Bound'
    BY DEF Contents, Placed, FitsOffsets, Bound, Ready, Channels
  <1>3. LayoutInv'
    BY DEF LayoutInv, Ready
  <1> QED
    BY <1>1, <1>2, <1>3

\* Packets of usable parameters are of the type of datagrams.
LEMMA PacketType ==
    ASSUME NEW p, Usable(p), NEW n \in Nat, NEW d, IsPacket(d, p, n)
    PROVE  d \in [offset : Nat, from : Nat, len : Nat, port : Uint16]
  <1>1. PICK i \in Nat, port \in Uint16 : i * p.mtu < n /\ d = Packet(p, n, i, port)
    BY DEF IsPacket
  <1> QED
    BY <1>1, PacketFacts

\* Both ways of sending put packets of the message on the wire.
LEMMA SendDataInv ==
    ASSUME IInv, SendData
    PROVE  IInv'
  <1> USE DEF IInv
  <1> DEFINE p == ctl.params
  <1>1. p = rParams /\ p \in Params /\ Usable(p) /\ rpc = "await_accept" /\ sSize \in Nat
    BY DEF SendData, Handshake, Ready, TypeOK
  <1>2. sParams' = p /\ sSize' = sSize /\ spc' = "sending"
    BY DEF SendData, Adopted
  <1>3. \A d \in net' : IsPacket(d, p, sSize)
    <2>1. CASE mode # "SR" /\ net' = FirstPackets(p, sSize)
      BY <1>1, <2>1, FirstAreThePackets
    <2>2. CASE /\ mode = "SR"
               /\ \E w \in ChunksOf(sParams', sSize) :
                     net' = UNION {ChunkPackets(sParams', sSize, c) : c \in 0 .. w}
      <3>1. PICK w \in ChunksOf(p, sSize) :
               net' = UNION {ChunkPackets(p, sSize, c) : c \in 0 .. w}
        BY <1>2, <2>2
      <3>2. \A c \in Nat : \A d \in ChunkPackets(p, sSize, c) : IsPacket(d, p, sSize)
        BY <1>1, <2>2, ChunksAreThePackets
      <3> QED
        BY <3>1, <3>2
    <2> QED
      BY <2>1, <2>2 DEF SendData
  <1>4. net' \subseteq [offset : Nat, from : Nat, len : Nat, port : Uint16]
    BY <1>1, <1>3, PacketType
  <1>5. ctl'.type = "ACCEPT" /\ ctl' \in [type : {"none", "OFFER", "CTS", "ACCEPT"}, params : Params]
    BY <1>1 DEF SendData, Control
  <1>6. TypeOK'
    BY <1>1, <1>2, <1>4, <1>5 DEF TypeOK, SendData
  <1>7. Handshake'
    BY <1>1, <1>2, <1>5 DEF Handshake, Ready, SendData
  <1>8. Packets'
    BY <1>2, <1>3 DEF Packets, IsPacket, SendData
  <1>9. Contents' /\ Placed' /\ Bound'
    BY DEF Contents, Placed, FitsOffsets, Bound, Ready, Channels, SendData
  <1>10. LayoutInv'
    BY <1>1, <1>2, <1>5 DEF LayoutInv, Ready, SendData
  <1> QED
    BY <1>6, <1>7, <1>8, <1>9, <1>10

\* So does a retransmission.
LEMMA RetransmitInv ==
    ASSUME IInv, Retransmit
    PROVE  IInv'
  <1> USE DEF IInv
  <1>1. Usable(sParams) /\ sSize \in Nat /\ spc = "sending"
    BY DEF Retransmit, Handshake, TypeOK
  <1>2. PICK c \in ChunksOf(sParams, sSize) : net' = net \cup ChunkPackets(sParams, sSize, c)
    BY DEF Retransmit
  <1>3. c \in Nat
    BY <1>1, ChunkIds
  <1>4. \A d \in ChunkPackets(sParams, sSize, c) : IsPacket(d, sParams, sSize)
    BY <1>1, <1>3, ChunksAreThePackets DEF Retransmit
  <1>5. TypeOK'
    <2>1. net' \subseteq [offset : Nat, from : Nat, len : Nat, port : Uint16]
      BY <1>1, <1>2, <1>4, PacketType DEF TypeOK
    <2> QED
      BY <2>1 DEF TypeOK, Retransmit
  <1>6. Packets'
    BY <1>2, <1>4 DEF Packets, IsPacket, Retransmit
  <1>7. Handshake' /\ Contents' /\ Placed'
    BY <1>1 DEF Handshake, Contents, Placed, FitsOffsets, Ready, Retransmit
  <1>8. Bound' /\ LayoutInv'
    BY DEF Bound, Channels, LayoutInv, Ready, Retransmit
  <1> QED
    BY <1>5, <1>6, <1>7, <1>8

\* ACCEPT ends the handshake.
LEMMA RecvAcceptInv ==
    ASSUME IInv, RecvAccept
    PROVE  IInv'
  <1> USE DEF IInv, RecvAccept
  <1>1. NoParams \in Params
    BY ConstantFacts DEF NoParams, Params
  <1>2. ctl'.type = "none" /\ ctl' \in [type : {"none", "OFFER", "CTS", "ACCEPT"}, params : Params]
    BY <1>1 DEF NoControl, Control
  <1>3. TypeOK'
    BY <1>2 DEF TypeOK
  <1>4. Handshake' /\ Packets'
    BY <1>2 DEF Handshake, Packets, IsPacket, Ready
  <1>5. Contents' /\ Placed' /\ Bound' /\ LayoutInv'
    BY <1>2 DEF Contents, Placed, FitsOffsets, Bound, Channels, LayoutInv, Ready, Handshake
  <1> QED
    BY <1>3, <1>4, <1>5

\* A delivered packet is written where its bytes belong, if its number fits
\* the offset.
LEMMA DeliverInv ==
    ASSUME IInv, NEW d \in net, Deliver(d)
    PROVE  IInv'
  <1> USE DEF IInv
  <1> DEFINE mtu == rParams.mtu
             s == d.offset * mtu
             written == [b \in DOMAIN buf |->
                           IF b \in Place(d) .. Place(d) + d.len - 1 THEN d.from + (b - Place(d))
                           ELSE buf[b]]
  <1>1. /\ sParams = rParams /\ Usable(rParams) /\ Ready /\ sSize \in Nat /\ spc = "sending"
        /\ sSize <= rParams.total /\ rParams.total \in Nat
    BY DEF Handshake, TypeOK, Params
  <1>2. PICK i \in Nat, port \in Uint16 : i * mtu < sSize /\ d = Packet(rParams, sSize, i, port)
    BY <1>1 DEF Packets, IsPacket
  <1>3. /\ d.offset = i % OffsetSpace /\ d.from = i * mtu /\ Place(d) = s
        /\ \A b \in Int : b \in d.from .. d.from + d.len - 1 <=>
                           d.from <= b /\ b < d.from + mtu /\ b < sSize
    BY <1>1, <1>2, PacketFacts DEF Bytes, Place
  <1>4. mtu \in Nat \ {0} /\ s \in Nat /\ d.len \in Nat /\ d.from \in Nat /\ d.offset \in Nat
    <2>1. mtu \in Nat \ {0}
      BY <1>1, ConstantFacts DEF Usable
    <2>2. d.len \in Nat /\ d.from \in Nat /\ d.offset \in Nat
      BY DEF TypeOK
    <2>3. s \in Nat
      BY <2>1, <2>2
    <2> QED
      BY <2>1, <2>2, <2>3
  <1>5. buf \in [0 .. rSize - 1 -> Int] /\ rSize \in Nat /\ DOMAIN buf \subseteq Nat
    BY DEF TypeOK
  <1>6. IF d.offset \in got THEN got' = got /\ buf' = buf
        ELSE /\ buf' = written
             /\ got' = got \cup ({d.offset} \cap 0 .. CeilDiv(rSize, rParams.mtu) - 1)
    BY DEF Deliver
  <1>7. FitsOffsets => d.from = s
    <2> SUFFICES ASSUME FitsOffsets PROVE d.from = s
      OBVIOUS
    <2>1. OffsetSpace * mtu \in Nat /\ i * mtu \in Nat
      BY <1>4, NegotiationAssumption
    <2>2. i * mtu < OffsetSpace * mtu
      BY <1>1, <1>2, <2>1 DEF FitsOffsets
    <2>3. d.offset = i
      BY <1>3, <1>4, <2>2, OffsetKept
    <2> QED
      BY <1>3, <2>3
  <1> HIDE DEF s, mtu
  <1>8. buf' \in [0 .. rSize - 1 -> Int] /\ DOMAIN buf' = DOMAIN buf
    <2>1. \A b \in DOMAIN buf : d.from + (b - s) \in Int
      BY <1>4, <1>5
    <2>2. written \in [0 .. rSize - 1 -> Int]
      BY <1>3, <1>5, <2>1
    <2> HIDE DEF written
    <2> QED
      BY <1>5, <1>6, <2>2
  <1>9. ASSUME FitsOffsets
        PROVE  /\ \A b \in DOMAIN buf : buf'[b] \in {b, buf[b]}
               /\ d.offset \notin got =>
                     \A b \in DOMAIN buf : s <= b /\ b < s + mtu /\ b < sSize => buf'[b] = b
    <2>1. CASE d.offset \in got
      BY <1>6, <2>1
    <2>2. CASE d.offset \notin got
      <3>1. buf' = [b \in DOMAIN buf |-> IF b \in s .. s + d.len - 1 THEN s + (b - s) ELSE buf[b]]
        BY <1>3, <1>6, <1>7, <1>9, <2>2
      <3>2. \A b \in DOMAIN buf : s + (b - s) = b
        BY <1>4, <1>5
      <3>3. \A b \in DOMAIN buf : buf'[b] = IF b \in s .. s + d.len - 1 THEN b ELSE buf[b]
        BY <3>1, <3>2
      <3>4. \A b \in DOMAIN buf : b \in Int
        BY <1>5
      <3>5. \A b \in Int : b \in s .. s + d.len - 1 <=> s <= b /\ b < s + mtu /\ b < sSize
        BY <1>3, <1>7, <1>9
      <3> QED
        BY <3>3, <3>4, <3>5
    <2> QED
      BY <2>1, <2>2
  <1>10. got' \subseteq Nat /\ got' \subseteq got \cup {d.offset}
    <2>1. got \subseteq Nat
      BY DEF TypeOK
    <2> QED
      BY <1>4, <1>6, <2>1
  <1> HIDE DEF written
  <1>11. TypeOK'
    BY <1>8, <1>10 DEF TypeOK, Deliver
  <1>12. Contents'
    <2> SUFFICES ASSUME FitsOffsets, NEW o \in got', NEW b \in DOMAIN buf,
                        o * mtu <= b, b < o * mtu + mtu, b < sSize
                 PROVE  buf'[b] = b
      BY <1>8 DEF Contents, FitsOffsets, Deliver, mtu
    <2>1. CASE o \in got
      BY <1>1, <1>9, <2>1 DEF Contents, mtu
    <2>2. CASE o = d.offset /\ o \notin got
      BY <1>9, <2>2 DEF s
    <2> QED
      BY <1>10, <2>1, <2>2
  <1>13. Placed'
    BY <1>8, <1>9 DEF Placed, FitsOffsets, Deliver
  <1>14. Handshake' /\ Packets'
    BY <1>1 DEF Handshake, Packets, IsPacket, Ready, Deliver
  <1>15. Bound' /\ LayoutInv'
    BY DEF Bound, Channels, LayoutInv, Ready, Deliver
  <1> QED
    BY <1>11, <1>12, <1>13, <1>14, <1>15

\* A lost datagram changes nothing else.
LEMMA LoseInv ==
    ASSUME IInv, NEW d \in net, Lose(d)
    PROVE  IInv'
  <1> USE DEF IInv, Lose
  <1>1. TypeOK' /\ Handshake' /\ Packets'
    BY DEF TypeOK, Handshake, Packets, IsPacket, Ready
  <1>2. Contents' /\ Placed' /\ Bound' /\ LayoutInv'
    BY DEF Contents, Placed, FitsOffsets, Bound, Channels, LayoutInv, Ready
  <1> QED
    BY <1>1, <1>2

\* After a transfer both ends hold the parameters of its CTS.
LEMMA EndTransferInv ==
    ASSUME IInv, EndTransfer
    PROVE  IInv'
  <1> USE DEF IInv, EndTransfer
  <1>1. TypeOK' /\ Handshake' /\ Packets'
    BY DEF TypeOK, Handshake, Packets, Ready
  <1>2. Contents' /\ Placed' /\ Bound'
    BY DEF Contents, Placed, FitsOffsets, Bound, Channels, Ready
  <1>3. LayoutInv'
    BY DEF LayoutInv, Handshake, Ready
  <1> QED
    BY <1>1, <1>2, <1>3

\* No step leaves the invariant.
LEMMA NextInv == IInv /\ [Next]_vars => IInv'
  <1> SUFFICES ASSUME IInv, [Next]_vars PROVE IInv'
    OBVIOUS
  <1>1. CASE UNCHANGED vars
    <2>1. TypeOK' /\ Handshake' /\ Packets' /\ Contents' /\ Placed' /\ Bound' /\ LayoutInv'
      BY <1>1 DEF vars, IInv, TypeOK, Handshake, Packets, IsPacket, Contents, Placed, FitsOffsets,
                  Bound, Channels, LayoutInv, Ready
    <2> QED
      BY <2>1 DEF IInv
  <1>2. CASE Next
    BY <1>2, SetParamsInv, SendPostInv, RecvPostInv, RecvPostFailsInv, SendDataInv,
       RetransmitInv, RecvAcceptInv, DeliverInv, LoseInv, EndTransferInv DEF Next
  <1> QED
    BY <1>1, <1>2

-----------------------------------------------------------------------------
(* Theorems *)

\* The inductive invariant holds throughout.
THEOREM Invariance == Spec => []IInv
  BY InitInv, NextInv, PTL DEF Spec

\* Configured, offered and negotiated parameters fit their fields, whatever
\* the files of the two programs say.
THEOREM TypeCorrect == Spec => []TypeOK
  <1>1. IInv => TypeOK
    BY DEF IInv
  <1> QED
    BY <1>1, Invariance, PTL

\* sdr_send_post, SRSender and ECSender cut every message in the same way,
\* without gap or overlap.
THEOREM MessagesAreCutOnce == Spec => []CutOnce
  <1>1. IInv => CutOnce
    <2> SUFFICES ASSUME IInv, spc = "sending", NEW b \in 0 .. sSize - 1
                 PROVE  /\ Cardinality({d \in FirstPackets(sParams, sSize) : b \in Bytes(d)}) = 1
                        /\ LET again == UNION {ChunkPackets(sParams, sSize, c) :
                                                 c \in ChunksOf(sParams, sSize)}
                           IN  Cardinality({d \in again : b \in Bytes(d)}) = 1
      BY DEF CutOnce
    <2>1. Usable(sParams) /\ sSize \in Nat
      BY DEF IInv, Handshake, TypeOK
    <2> QED
      BY <2>1, FirstCutOnce, ChunksCutOnce
  <1> QED
    BY <1>1, Invariance, PTL

\* What is in the receive buffer is where it was in the sender's, for messages
\* of at most OffsetSpace packets.
THEOREM BytesArePlaced == Spec => []Placed
  <1>1. IInv => Placed
    BY DEF IInv
  <1> QED
    BY <1>1, Invariance, PTL

\* A full backend bitmap means a full buffer, for messages of at most
\* OffsetSpace packets.
THEOREM CompletionIsWhole == Spec => []CompleteIsWhole
  <1>1. IInv => CompleteIsWhole
    <2> SUFFICES ASSUME IInv, Ready, FitsOffsets, got = 0 .. CeilDiv(rSize, rParams.mtu) - 1,
                        NEW b \in 0 .. Smaller(sSize, rSize) - 1
                 PROVE  buf[b] = b
      BY DEF CompleteIsWhole, Ready
    <2> DEFINE i == b \div rParams.mtu
    <2>1. rParams.mtu \in Nat \ {0}
      BY ConstantFacts DEF IInv, Handshake, Usable
    <2>2. sSize \in Nat /\ rSize \in Nat /\ DOMAIN buf = 0 .. rSize - 1
      BY DEF IInv, TypeOK
    <2>3. b \in Nat /\ b < sSize /\ b < rSize
      BY <2>2 DEF Smaller
    <2>4. i \in Nat /\ i * rParams.mtu <= b /\ b < i * rParams.mtu + rParams.mtu
      BY <2>1, <2>3, DivBounds
    <2> HIDE DEF i
    <2>5. i * rParams.mtu < rSize
      <3>1. \A x \in Nat : x <= b => x < rSize
        BY <2>2, <2>3
      <3>2. i * rParams.mtu \in Nat
        BY <2>1, <2>4
      <3> QED
        BY <2>4, <3>1, <3>2
    <2>6. i \in got
      BY <2>1, <2>2, <2>4, <2>5, PacketIndices
    <2>7. b \in DOMAIN buf
      BY <2>2, <2>3
    <2> QED
      BY <2>3, <2>4, <2>6, <2>7 DEF IInv, Contents
  <1> QED
    BY <1>1, Invariance, PTL

\* n consecutive ports are at most n.
LEMMA ChannelsCount ==
    ASSUME NEW p, NEW n \in Nat
    PROVE  Cardinality(Channels(p, n)) <= n
  <1> DEFINE I == 1 .. n
             f == [i \in I |-> (p.base + (i - 1)) % Uint16Space]
  <1>1. IsFiniteSet(I) /\ Cardinality(I) = n
    BY FS_Interval
  <1>2. f \in Surjection(I, Channels(p, n))
    <2>1. \A i \in I : i - 1 \in 0 .. n - 1
      OBVIOUS
    <2>2. \A k \in 0 .. n - 1 : k + 1 \in I /\ (k + 1) - 1 = k
      OBVIOUS
    <2>3. f \in [I -> Channels(p, n)]
      BY <2>1 DEF Channels
    <2>4. \A t \in Channels(p, n) : \E i \in I : f[i] = t
      <3> SUFFICES ASSUME NEW k \in 0 .. n - 1
                   PROVE  \E i \in I : f[i] = (p.base + k) % Uint16Space
        BY DEF Channels
      <3>1. f[k + 1] = (p.base + k) % Uint16Space
        BY <2>2
      <3> QED
        BY <2>2, <3>1
    <2> QED
      BY <2>3, <2>4 DEF Surjection
  <1> QED
    BY <1>1, <1>2, FS_Surjection

\* Datagrams reach a worker, up to the exceptions PortsHeard names.
THEOREM DatagramsAreHeard == Spec => []PortsHeard
  <1>1. IInv => PortsHeard
    <2> SUFFICES ASSUME IInv, spc = "sending", sParams.channels <= Cardinality(ports),
                        NEW d \in net, mode = "SDR" \/ rParams.base = rParams.port
                 PROVE  d.port \in ports
      BY DEF PortsHeard
    <2>1. Usable(sParams) /\ sParams = rParams /\ sSize \in Nat
      BY DEF IInv, Handshake, TypeOK
    <2>2. /\ rParams.channels \in Nat \ {0} /\ rParams.base \in Nat /\ rParams.base < Uint16Space
          /\ Uint16Space \in Nat \ {0}
      BY <2>1, NegotiationAssumption DEF Usable, Params, Uint16
    <2>3. ports # {}
      BY <2>1, <2>2, FS_EmptySet
    <2>4. PICK n \in Nat \ {0} : ports = Channels(rParams, n)
      BY <2>3 DEF IInv, Bound
    <2>5. rParams.channels <= n
      <3>1. Cardinality(ports) <= n
        BY <2>4, ChannelsCount
      <3>2. Cardinality(ports) \in Nat
        <4>1. ports \subseteq 0 .. Uint16Space - 1
          BY DEF IInv, TypeOK, Uint16
        <4>2. IsFiniteSet(0 .. Uint16Space - 1)
          BY <2>2, FS_Interval
        <4> QED
          BY <4>1, <4>2, FS_Subset, FS_CardinalityType
      <3> QED
        BY <2>1, <2>2, <3>1, <3>2
    <2>6. PICK i \in Nat, port \in Uint16 :
             /\ i * rParams.mtu < sSize
             /\ d = Packet(rParams, sSize, i, port)
             /\ \/ \E k \in 0 .. rParams.channels - 1 : port = (rParams.base + k) % Uint16Space
                \/ mode # "SDR" /\ port = rParams.port
      BY <2>1 DEF IInv, Packets, IsPacket
    <2>7. d.port = port
      BY <2>6 DEF Packet
    <2>8. CASE \E k \in 0 .. rParams.channels - 1 : port = (rParams.base + k) % Uint16Space
      <3>1. PICK k \in 0 .. rParams.channels - 1 : port = (rParams.base + k) % Uint16Space
        BY <2>8
      <3>2. k \in 0 .. n - 1
        BY <2>2, <2>5, <3>1
      <3> QED
        BY <2>4, <2>7, <3>1, <3>2 DEF Channels
    <2>9. CASE mode # "SDR" /\ port = rParams.port
      <3>1. port = (rParams.base + 0) % Uint16Space
        BY <2>2, <2>9
      <3>2. 0 \in 0 .. n - 1
        OBVIOUS
      <3> QED
        BY <2>4, <2>7, <3>1, <3>2 DEF Channels
    <2> QED
      BY <2>6, <2>8, <2>9
  <1> QED
    BY <1>1, Invariance, PTL

\* With parameters of the last CTS the two layouts of an erasure coded message
\* are the same.
THEOREM LayoutsAreTheSame == Spec => []LayoutsFollowCts
  <1>1. IInv => LayoutsFollowCts
    BY DEF IInv, LayoutInv, Handshake, LayoutsFollowCts
  <1> QED
    BY <1>1, Invariance, PTL

\* ECReceiver's chunks are the frontend's, if the receiver's MTU and chunk size
\* are configured.
THEOREM BitmapFollowsLayout == Spec => BitmapMatchesLayout
  <1> DEFINE P == (mode = "EC" /\ rpc = "idle" /\ rpc' = "await_accept"
                     /\ rParams.mtu # 0 /\ rParams.ppc # 0)
                    => rLayout'.chunk = rParams'.mtu * rParams'.ppc
  <1>1. [Next]_vars => [P]_vars
    <2> SUFFICES ASSUME Next, mode = "EC", rpc = "idle", rpc' = "await_accept",
                        rParams.mtu # 0, rParams.ppc # 0
                 PROVE  rLayout'.chunk = rParams'.mtu * rParams'.ppc
      OBVIOUS
    <2>1. PICK n \in Lengths : RecvPost(n)
      BY DEF Next, SetParams, SendPost, RecvPostFails, SendData, Retransmit, RecvAccept,
             Deliver, Lose, EndTransfer
    <2>2. rParams'.mtu = Smaller(rParams.mtu, MaxPayload) /\ rParams'.ppc = rParams.ppc
      BY <2>1 DEF RecvPost, Negotiated, NegotiatedMtu, Or
    <2>3. rLayout' = Layout(rParams, n)
      BY <2>1 DEF RecvPost
    <2>4. rLayout'.chunk = Smaller(rParams.mtu, MaxPayload) * rParams.ppc
      BY <2>3 DEF Layout, Or
    <2> QED
      BY <2>2, <2>4
  <1> QED
    BY <1>1, PTL DEF Spec, BitmapMatchesLayout

\* "ensure both sides agree on MTU, P, channels": while data is sent, both ends
\* have the same parameters, all of them set, and an MTU that fits a datagram.
ParametersAgree ==
    spc = "sending" =>
        /\ sParams = rParams
        /\ sParams.mtu \in 1 .. MaxPayload /\ sParams.ppc # 0 /\ sParams.channels # 0

\* OFFER and CTS leave both ends with the same usable parameters, whatever the
\* two configuration files say and leave unset, in every transfer.
THEOREM ParametersAreAgreed == Spec => []ParametersAgree
  <1>1. IInv => ParametersAgree
    <2> SUFFICES ASSUME IInv, spc = "sending"
                 PROVE  /\ sParams = rParams
                        /\ sParams.mtu \in 1 .. MaxPayload /\ sParams.ppc # 0 /\ sParams.channels # 0
      BY DEF ParametersAgree
    <2>1. sParams = rParams /\ Usable(rParams)
      BY DEF IInv, Handshake
    <2> QED
      BY <2>1 DEF Usable
  <1> QED
    BY <1>1, Invariance, PTL
=============================================================================
