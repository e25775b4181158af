-------------------------- MODULE Rendezvous_proofs --------------------------
(***************************************************************************)
(* Proofs about Rendezvous for any number of message ids, transfers and    *)
(* failures.                                                               *)
(***************************************************************************)
EXTENDS Rendezvous, TLAPS

USE DEF senderVars, contextVars, receiverVars, linkVars

-----------------------------------------------------------------------------
(* The control queues *)

Queue == Seq(ControlMessages)

\* q holds a message of a type.
Has(q, type) == \E i \in DOMAIN q : q[i].type = type

\* What the sender may have written: an ACCEPT, the OFFER of transfer x, or
\* first the one and then the other.
S2rOk(q, x) ==
    \A i \in DOMAIN q : \/ q[i].type = "OFFER" /\ i = Len(q) /\ q[i].xfer = x
                        \/ q[i].type = "ACCEPT" /\ i = 1

\* What the receiver may have written: verdicts, and a CTS only as the last.
R2sOk(q) ==
    \A i \in DOMAIN q :
        \/ q[i].type \in {"COMPLETE_ACK", "INCOMPLETE_NACK"}
        \/ q[i].type = "CTS" /\ i = Len(q) /\ q[i].gen \in 1 .. MaxTransfers

\* Every CTS of q has transfer_id g.
CtsGen(q, g) == \A i \in DOMAIN q : q[i].type = "CTS" => q[i].gen = g

\* An empty queue.
LEMMA EmptyQueue ==
    /\ <<>> \in Queue
    /\ \A t : ~Has(<<>>, t)
    /\ \A x : S2rOk(<<>>, x) /\ CtsGen(<<>>, x)
    /\ R2sOk(<<>>)
  BY DEF Queue, Has, S2rOk, R2sOk, CtsGen

\* Queues that lack a message.
LEMMA Lacking ==
    ASSUME NEW q \in Queue
    PROVE  /\ \A x, y : S2rOk(q, x) /\ ~Has(q, "OFFER") => S2rOk(q, y)
           /\ \A g : ~Has(q, "CTS") => CtsGen(q, g)
  BY DEF S2rOk, CtsGen, Has

\* A message is written.
LEMMA Appended ==
    ASSUME NEW q \in Queue, NEW m \in ControlMessages
    PROVE  LET a == Append(q, m)
           IN  /\ a \in Queue
               /\ \A t : Has(a, t) <=> Has(q, t) \/ m.type = t
               /\ \A x, y : S2rOk(q, x) /\ ~Has(q, "OFFER") /\ m.type = "OFFER" /\ m.xfer = y
                               => S2rOk(a, y)
               /\ \A x : q = <<>> /\ m.type = "ACCEPT" => S2rOk(a, x)
               /\ R2sOk(q) /\ ~Has(q, "CTS")
                    /\ (\/ m.type \in {"COMPLETE_ACK", "INCOMPLETE_NACK"}
                        \/ m.type = "CTS" /\ m.gen \in 1 .. MaxTransfers) => R2sOk(a)
               /\ \A g : CtsGen(q, g) /\ (m.type = "CTS" => m.gen = g) => CtsGen(a, g)
  <1> DEFINE a == Append(q, m)
  <1>1. a \in Queue /\ Len(q) \in Nat /\ Len(a) = Len(q) + 1
    BY DEF Queue
  <1>2. DOMAIN q = 1 .. Len(q) /\ DOMAIN a = 1 .. Len(q) + 1
    BY <1>1 DEF Queue
  <1>3. a[Len(q) + 1] = m /\ \A i \in DOMAIN q : a[i] = q[i]
    BY <1>1 DEF Queue
  <1>4. \A i \in DOMAIN a : i \in DOMAIN q \/ i = Len(q) + 1
    BY <1>1, <1>2
  <1>5. (\A i \in DOMAIN q : i \in DOMAIN a) /\ Len(q) + 1 \in DOMAIN a
    BY <1>1, <1>2
  <1> HIDE DEF a
  <1>6. \A t : Has(a, t) <=> Has(q, t) \/ m.type = t
    BY <1>3, <1>4, <1>5 DEF Has
  <1>7. ASSUME NEW x, NEW y, S2rOk(q, x), ~Has(q, "OFFER"), m.type = "OFFER", m.xfer = y
        PROVE  S2rOk(a, y)
    BY <1>1, <1>3, <1>4, <1>7 DEF S2rOk, Has
  <1>8. ASSUME NEW x, q = <<>>, m.type = "ACCEPT" PROVE S2rOk(a, x)
    <2>1. Len(q) = 0 /\ DOMAIN q = {}
      BY <1>8
    <2> QED
      BY <1>3, <1>4, <1>8, <2>1 DEF S2rOk
  <1>9. ASSUME R2sOk(q), ~Has(q, "CTS"),
               \/ m.type \in {"COMPLETE_ACK", "INCOMPLETE_NACK"}
               \/ m.type = "CTS" /\ m.gen \in 1 .. MaxTransfers
        PROVE  R2sOk(a)
    BY <1>1, <1>3, <1>4, <1>9 DEF R2sOk, Has
  <1>10. ASSUME NEW g, CtsGen(q, g), m.type = "CTS" => m.gen = g PROVE CtsGen(a, g)
    BY <1>3, <1>4, <1>10 DEF CtsGen
  <1> QED
    BY <1>1, <1>6, <1>7, <1>8, <1>9, <1>10 DEF a

\* A message is read.
LEMMA Taken ==
    ASSUME NEW q \in Queue, q # <<>>
    PROVE  /\ Tail(q) \in Queue
           /\ Head(q) \in ControlMessages /\ Has(q, Head(q).type)
           /\ \A t : Has(Tail(q), t) => Has(q, t)
           /\ \A t : Has(q, t) /\ Head(q).type # t => Has(Tail(q), t)
           /\ \A x : S2rOk(q, x) => S2rOk(Tail(q), x)
           /\ \A x : S2rOk(q, x) /\ Head(q).type = "OFFER" => Tail(q) = <<>> /\ Head(q).xfer = x
           /\ R2sOk(q) => R2sOk(Tail(q))
           /\ R2sOk(q) /\ Head(q).type = "CTS" => Tail(q) = <<>> /\ Head(q).gen \in 1 .. MaxTransfers
           /\ \A g : CtsGen(q, g) => CtsGen(Tail(q), g)
           /\ \A g : CtsGen(q, g) /\ Head(q).type = "CTS" => Head(q).gen = g
  <1> DEFINE a == Tail(q)
  <1>1. a \in Queue /\ Len(q) \in Nat \ {0} /\ Len(a) = Len(q) - 1 /\ Head(q) = q[1]
    BY DEF Queue
  <1>2. DOMAIN q = 1 .. Len(q) /\ DOMAIN a = 1 .. Len(q) - 1
    BY <1>1 DEF Queue
  <1>3. \A i \in DOMAIN a : a[i] = q[i + 1]
    BY <1>1, <1>2 DEF Queue
  <1>4. \A i \in DOMAIN a : i + 1 \in DOMAIN q /\ i + 1 # 1 /\ (i + 1 = Len(q) => i = Len(a))
    BY <1>1, <1>2
  <1>5. 1 \in DOMAIN q /\ q[1] \in ControlMessages
    BY <1>1, <1>2 DEF Queue
  <1> HIDE DEF a
  <1>6. Len(q) = 1 => a = <<>>
    <2>1. a \in Seq(ControlMessages) /\ (Len(q) = 1 => Len(a) = 0)
      BY <1>1 DEF Queue
    <2> QED
      BY <2>1
  <1>7. Has(q, q[1].type) /\ \A t : Has(a, t) => Has(q, t)
    BY <1>3, <1>4, <1>5 DEF Has
  <1>8. \A x : S2rOk(q, x) => S2rOk(a, x)
    BY <1>3, <1>4 DEF S2rOk
  <1>9. \A x : S2rOk(q, x) /\ q[1].type = "OFFER" => a = <<>> /\ q[1].xfer = x
    BY <1>5, <1>6 DEF S2rOk
  <1>10. R2sOk(q) => R2sOk(a)
    BY <1>3, <1>4 DEF R2sOk
  <1>11. R2sOk(q) /\ q[1].type = "CTS" => a = <<>> /\ q[1].gen \in 1 .. MaxTransfers
    BY <1>5, <1>6 DEF R2sOk
  <1>12. \A g : CtsGen(q, g) => CtsGen(a, g) /\ (q[1].type = "CTS" => q[1].gen = g)
    BY <1>3, <1>4, <1>5 DEF CtsGen
  <1>13. \A t : Has(q, t) /\ q[1].type # t => Has(a, t)
    <2> SUFFICES ASSUME NEW t, NEW i \in DOMAIN q, q[i].type = t, q[1].type # t
                 PROVE  \E j \in DOMAIN a : a[j].type = t
      BY DEF Has
    <2>1. i - 1 \in DOMAIN a /\ (i - 1) + 1 = i
      BY <1>1, <1>2
    <2> QED
      BY <1>3, <2>1
  <1> QED
    BY <1>1, <1>5, <1>7, <1>8, <1>9, <1>10, <1>11, <1>12, <1>13 DEF a

\* The end of a queue is lost.
LEMMA Cut ==
    ASSUME NEW q \in Queue, NEW k \in 0 .. Len(q)
    PROVE  LET a == SubSeq(q, 1, k)
           IN  /\ a \in Queue
               /\ q = <<>> => a = <<>>
               /\ \A t : Has(a, t) => Has(q, t)
               /\ \A x : S2rOk(q, x) => S2rOk(a, x)
               /\ R2sOk(q) => R2sOk(a)
               /\ \A g : CtsGen(q, g) => CtsGen(a, g)
  <1> DEFINE a == SubSeq(q, 1, k)
  <1>1. a \in Queue /\ Len(q) \in Nat /\ k \in Nat /\ Len(a) = k
    BY DEF Queue
  <1>2. DOMAIN q = 1 .. Len(q) /\ DOMAIN a = 1 .. k
    BY <1>1 DEF Queue
  <1>3. \A i \in DOMAIN a : a[i] = q[i]
    BY <1>1, <1>2 DEF Queue
  <1>4. \A i \in DOMAIN a : i \in DOMAIN q /\ (i = Len(q) => i = Len(a))
    BY <1>1, <1>2
  <1>5. q = <<>> => a = <<>>
    <2> SUFFICES ASSUME q = <<>> PROVE a = <<>>
      OBVIOUS
    <2>1. Len(a) = 0
      BY <1>1
    <2> QED
      BY <1>1, <2>1 DEF Queue
  <1> HIDE DEF a
  <1> QED
    BY <1>1, <1>3, <1>4, <1>5 DEF Has, S2rOk, R2sOk, CtsGen, a

-----------------------------------------------------------------------------
(* Whose turn it is *)

Queues == S2rOk(s2r, xfer) /\ R2sOk(r2s)

\* An OFFER or a CTS on its way means that the other end waits for it, or has
\* lost its connection; an OFFER is answered before the next is sent.
Turns ==
    /\ Has(s2r, "OFFER") => (spc = "await_cts" \/ ~sConn) /\ generation <= xfer
    /\ rpc \in {"starting", "send_cts"} =>
           s2r = <<>> /\ ~Has(r2s, "CTS") /\ (up => spc = "await_cts")
    /\ Has(r2s, "CTS") =>
           (spc = "await_cts" \/ ~sConn) /\ s2r = <<>> /\ (up => rpc = "await_accept")

\* What the two ends know of the connection.
Links ==
    /\ up => sConn /\ rConn
    /\ ~rConn => rpc = "idle"
    /\ breaks = 0 => up /\ sameProcess
    /\ spc = "await_cts" => sConn

\* Generations count the receives of a process: each takes the message id and
\* the transfer_id of its number.
Counts ==
    /\ generation <= xfer + 1
    /\ spc # "idle" => xfer >= 1
    /\ rpc # "idle" => ctsGen >= 1 /\ generation >= 2
    /\ rNextMsg = (generation - 1) % MsgIdSpace
    /\ sameProcess /\ generation >= 2 =>
           cur = (generation - 2) % MsgIdSpace /\ ctsGen = generation - 1
    /\ sameProcess => CtsGen(r2s, generation - 1)

\* The table's generations are behind the process's, and the receive in hand
\* has its slot.
Table ==
    /\ \A m \in MsgIds :
          /\ slots[m].state # "NULL_STATE" => slots[m].xfer \in Transfers
          /\ rConn => /\ slotGen[m] <= generation
                      /\ slots[m].state # "NULL_STATE" => slots[m].gen < slotGen[m]
    /\ rpc # "idle" => slots[cur].state = "ACTIVE"

Base == TypeOK /\ Queues /\ Turns /\ Links /\ Counts /\ Table

-----------------------------------------------------------------------------
(* Slots, and the transfer a receive belongs to *)

\* No OFFER comes over this connection any more.
Stuck == s2r = <<>> /\ rpc = "idle" /\ (~up \/ spc = "await_cts")

\* An ACTIVE slot is that of the receive in hand, or was left by the last one
\* there is.
ActiveSlots ==
    rConn => \A m \in MsgIds :
        slots[m].state = "ACTIVE" => (rpc # "idle" /\ m = cur) \/ Stuck

\* The receive in hand is for the transfer the sender has in hand.
Identity ==
    (\/ Has(r2s, "CTS") /\ spc = "await_cts"
     \/ up /\ rpc \in {"starting", "send_cts"}
     \/ up /\ spc = "polling" /\ rpc \in {"await_accept", "receiving", "acked"})
        => slots[cur].xfer = xfer

\* A success that is on its way to sdr_send_poll is of its transfer.
Verdicts == (up /\ spc = "polling" /\ Has(r2s, "COMPLETE_ACK")) => buf[xfer] # 0

Matching == ActiveSlots /\ Identity /\ Verdicts /\ VerdictMatches

-----------------------------------------------------------------------------
(* Datagrams and generations *)

Answering == Has(r2s, "CTS") \/ rpc \in {"starting", "send_cts"}

\* The first receive of a process is message 0 of its sender.
FirstMessage ==
    sameProcess =>
        /\ \A d \in net : d.gen < generation /\ (d.gen = 1 => d.msg = 0)
        /\ (generation = 1 \/ (generation = 2 /\ Answering)) => sNextMsg = 0

\* On one connection both ends count messages alike.
Aligned ==
    breaks = 0 =>
        /\ \A d \in net : d.msg = (d.gen - 1) % MsgIdSpace
        /\ \/ Answering /\ sNextMsg = (generation - 2) % MsgIdSpace
           \/ ~Answering /\ sNextMsg = (generation - 1) % MsgIdSpace
           \/ Stuck

\* Until message ids wrap around every slot is used once, with generation 1.
FirstRound ==
    (sameProcess /\ generation <= MsgIdSpace + 1) =>
        /\ \A m \in MsgIds :
              /\ m >= generation - 1 => slots[m].state = "NULL_STATE" /\ slotGen[m] = 1
              /\ slots[m].state # "NULL_STATE" => slots[m].gen = 1
        /\ (breaks = 0 /\ generation >= 2) => slotGen[0] = 2

\* The receives for which generations tell transfers apart.
InTime == sameProcess /\ generation <= MsgIdSpace + (IF breaks = 0 THEN 2 ELSE 1)

\* A datagram with a slot's generation is of the slot's transfer.
Match ==
    InTime => \A d \in net :
        (slots[d.msg].state # "NULL_STATE" /\ slots[d.msg].gen = d.gen)
            => slots[d.msg].xfer = d.xfer

Separate == FirstMessage /\ Aligned /\ FirstRound /\ Match /\ NoCrossTalk

IInv == Base /\ Matching /\ Separate

-----------------------------------------------------------------------------
(* Preservation of Base *)

\* The message id after that of a receive is that of the next receive.
LEMMA NextIdCounts ==
    ASSUME NEW g \in Int, g >= 1
    PROVE  /\ (g - 1) % MsgIdSpace \in MsgIds
           /\ NextMsgId((g - 1) % MsgIdSpace) = g % MsgIdSpace
  <1>1. MsgIdSpace \in Nat \ {0}
    BY RendezvousAssumption
  <1> DEFINE r == (g - 1) % MsgIdSpace
             k == (g - 1) \div MsgIdSpace
  <1>2. g - 1 = k * MsgIdSpace + r /\ r \in 0 .. MsgIdSpace - 1 /\ k \in Int
    BY <1>1
  <1> HIDE DEF r, k
  <1>3. CASE r + 1 < MsgIdSpace
    <2>1. g = k * MsgIdSpace + (r + 1)
      BY <1>1, <1>2
    <2>2. g % MsgIdSpace = r + 1
      BY <1>1, <1>2, <1>3, <2>1
    <2>3. (r + 1) % MsgIdSpace = r + 1
      BY <1>1, <1>2, <1>3
    <2> QED
      BY <1>2, <2>2, <2>3 DEF NextMsgId, MsgIds, r
  <1>4. CASE r + 1 = MsgIdSpace
    <2>1. g = (k + 1) * MsgIdSpace
      BY <1>1, <1>2, <1>4
    <2>2. g % MsgIdSpace = 0
      BY <1>1, <1>2, <2>1
    <2>3. (r + 1) % MsgIdSpace = 0
      BY <1>1, <1>4
    <2> QED
      BY <1>2, <2>2, <2>3 DEF NextMsgId, MsgIds, r
  <1> QED
    BY <1>1, <1>2, <1>3, <1>4

\* Message ids stay in range.
LEMMA NextIdType ==
    ASSUME NEW m \in MsgIds
    PROVE  NextMsgId(m) \in MsgIds
  BY RendezvousAssumption DEF NextMsgId, MsgIds

\* Two processes that have just connected.
LEMMA InitBase == Init => Base
  <1> SUFFICES ASSUME Init PROVE Base
    OBVIOUS
  <1> USE RendezvousAssumption DEF Init
  <1>1. 0 \in MsgIds /\ (1 - 1) % MsgIdSpace = 0
    BY DEF MsgIds
  <1>2. slots \in [MsgIds -> [state : {"NULL_STATE", "ACTIVE", "DEAD"},
                              gen : 0 .. MaxTransfers, xfer : 0 .. MaxTransfers]]
    BY DEF EmptyTable, NoSlot
  <1>3. slotGen \in [MsgIds -> 1 .. MaxTransfers + 1]
    BY DEF FirstGenerations
  <1>4. TypeOK
    <2>1. streaming \in BOOLEAN /\ sConn \in BOOLEAN /\ rConn \in BOOLEAN
          /\ up \in BOOLEAN /\ sameProcess \in BOOLEAN
      BY Zenon
    <2> QED
      BY <1>1, <1>2, <1>3, <2>1, EmptyQueue DEF TypeOK, Queue
  <1>5. Queues /\ Turns /\ Links
    BY EmptyQueue DEF Queues, Turns, Links
  <1>6. Counts
    BY <1>1, EmptyQueue DEF Counts
  <1>7. Table
    BY DEF Table, EmptyTable, NoSlot, FirstGenerations
  <1> QED
    BY <1>4, <1>5, <1>6, <1>7 DEF Base

\* sdr_send_post up to its OFFER.
LEMMA OfferBase ==
    ASSUME Base, SendOffer \/ SendOfferFails
    PROVE  Base'
  <1> USE RendezvousAssumption
  <1> DEFINE m == Message("OFFER", 0, xfer + 1)
  <1>1. /\ spc = "idle" /\ sConn /\ xfer \in Nat /\ xfer < MaxTransfers /\ xfer' = xfer + 1
        /\ xfer' \in Transfers /\ s2r \in Queue /\ r2s \in Queue
    <2>1. spc = "idle" /\ sConn /\ xfer < MaxTransfers /\ xfer' = xfer + 1
      BY DEF SendOffer, SendOfferFails
    <2>2. xfer \in Nat /\ xfer + 1 \in Transfers
      BY <2>1 DEF Base, TypeOK, Transfers
    <2> QED
      BY <2>1, <2>2 DEF Base, TypeOK, Queue
  <1>2. ~Has(s2r, "OFFER") /\ ~Has(r2s, "CTS")
    BY <1>1 DEF Base, Turns
  <1>3. m \in ControlMessages /\ m.type = "OFFER" /\ m.xfer = xfer'
    BY <1>1 DEF Message, ControlMessages
  <1>4. /\ s2r' \in Queue /\ S2rOk(s2r', xfer') /\ r2s' = r2s
        /\ (~up => s2r' = s2r) /\ (Has(s2r', "OFFER") => spc' = "await_cts")
    <2> HIDE DEF m
    <2>1. S2rOk(s2r, xfer')
      BY <1>1, <1>2, Lacking DEF Base, Queues
    <2>2. CASE SendOffer
      <3>1. spc' = "await_cts" /\ r2s' = r2s /\ s2r' = Sent(s2r, m)
        BY <1>1, <2>2 DEF SendOffer, m
      <3> QED
        BY <1>1, <1>2, <1>3, <2>1, <3>1, Appended DEF Sent
    <2>3. CASE SendOfferFails
      BY <1>1, <1>2, <2>1, <2>3 DEF SendOfferFails
    <2> QED
      BY <2>2, <2>3
  <1> HIDE DEF m
  <1>5. TypeOK'
    <2>1. result' \in [Transfers -> {"none", "0", "-1"}]
      BY <1>1 DEF SendOffer, SendOfferFails, SendReturns, Base, TypeOK
    <2>2. spc' \in {"idle", "await_cts"} /\ sConn' \in BOOLEAN
      BY DEF SendOffer, SendOfferFails, SendReturns, Base, TypeOK
    <2>3. xfer' \in 0 .. MaxTransfers
      BY <1>1
    <2> QED
      BY <1>4, <2>1, <2>2, <2>3 DEF SendOffer, SendOfferFails, Base, TypeOK, Queue
  <1>6. /\ UNCHANGED <<rpc, rConn, slots, slotGen, cur, ctsGen, generation, rNextMsg, up,
                       breaks, sameProcess>>
        /\ (up => sConn' = TRUE) /\ (spc' = "await_cts" => sConn' = TRUE)
    BY <1>1 DEF SendOffer, SendOfferFails, SendReturns, Base, Links
  <1>7. Queues'
    BY <1>4 DEF Queues, Base
  <1>8. Turns'
    <2>1. generation <= xfer'
      BY <1>1 DEF Base, Counts
    <2>2. rpc \in {"starting", "send_cts"} => ~up
      BY <1>1 DEF Base, Turns
    <2> QED
      BY <1>2, <1>4, <1>6, <2>1, <2>2 DEF Turns, Base
  <1>9. Links'
    BY <1>6 DEF Links, Base
  <1>10. Counts'
    <2>1. xfer' >= 1 /\ generation <= xfer' + 1
      BY <1>1 DEF Base, Counts, TypeOK
    <2> QED
      BY <1>4, <1>6, <2>1 DEF Counts, Base
  <1>11. Table'
    BY <1>6 DEF Table, Base
  <1> QED
    BY <1>5, <1>7, <1>8, <1>9, <1>10, <1>11 DEF Base

\* The CTS is answered, with or without data.
LEMMA AnswerBase ==
    ASSUME Base, SendData \/ SendDataFails
    PROVE  Base'
  <1> USE RendezvousAssumption
  <1> DEFINE c == Head(r2s)
             m == Message("ACCEPT", c.gen, xfer)
  <1>1. /\ spc = "await_cts" /\ r2s # <<>> /\ c.type = "CTS" /\ r2s' = Tail(r2s)
        /\ s2r' = Sent(s2r, m) /\ s2r \in Queue /\ r2s \in Queue /\ xfer \in Transfers
    <2>1. /\ spc = "await_cts" /\ r2s # <<>> /\ c.type = "CTS" /\ r2s' = Tail(r2s)
          /\ s2r' = Sent(s2r, m)
      BY DEF SendData, SendDataFails, Accepting
    <2>2. xfer \in Transfers
      BY <2>1 DEF Base, TypeOK, Counts, Transfers
    <2> QED
      BY <2>1, <2>2 DEF Base, TypeOK, Queue
  <1>2. /\ r2s' = <<>> /\ c.gen \in 1 .. MaxTransfers /\ Has(r2s, "CTS")
    BY <1>1, Taken DEF Base, Queues
  <1>3. s2r = <<>> /\ sConn /\ (up => rpc = "await_accept") /\ rpc \notin {"starting", "send_cts"}
    BY <1>1, <1>2 DEF Base, Turns, Links
  <1>4. m \in ControlMessages /\ m.type = "ACCEPT"
    BY <1>1, <1>2 DEF Message, ControlMessages, Transfers
  <1> HIDE DEF c, m
  <1>5. s2r' \in Queue /\ S2rOk(s2r', xfer) /\ ~Has(s2r', "OFFER")
    <2>1. CASE up
      BY <1>1, <1>3, <1>4, <2>1, Appended, EmptyQueue DEF Sent
    <2>2. CASE ~up
      BY <1>1, <1>3, <2>2, EmptyQueue DEF Sent
    <2> QED
      BY <2>1, <2>2
  <1>6. /\ UNCHANGED <<streaming, xfer, rpc, rConn, slots, slotGen, cur, ctsGen, generation,
                       rNextMsg, udp, up, breaks, sameProcess, buf>>
        /\ sConn' \in BOOLEAN /\ (up => sConn' = TRUE) /\ spc' \in {"polling", "idle"}
    BY DEF SendData, SendDataFails, SendReturns
  <1>7. TypeOK'
    <2>1. result' \in [Transfers -> {"none", "0", "-1"}]
      BY <1>1 DEF SendData, SendDataFails, SendReturns, Base, TypeOK
    <2>2. sNextMsg' \in MsgIds
      BY NextIdType DEF SendData, SendDataFails, Base, TypeOK
    <2>3. net' \subseteq [msg : MsgIds, gen : 1 .. MaxTransfers, xfer : Transfers]
      <3>1. sNextMsg \in MsgIds /\ net \subseteq [msg : MsgIds, gen : 1 .. MaxTransfers, xfer : Transfers]
        BY DEF Base, TypeOK
      <3>2. net' = net \/ net' = net \cup {[msg |-> sNextMsg, gen |-> c.gen, xfer |-> xfer]}
        BY DEF SendData, SendDataFails, c
      <3>3. [msg |-> sNextMsg, gen |-> c.gen, xfer |-> xfer]
               \in [msg : MsgIds, gen : 1 .. MaxTransfers, xfer : Transfers]
        BY <1>1, <1>2, <3>1
      <3> QED
        BY <3>1, <3>2, <3>3
    <2> QED
      BY <1>2, <1>5, <1>6, <2>1, <2>2, <2>3, EmptyQueue DEF Base, TypeOK, Queue
  <1>8. Queues' /\ Turns'
    BY <1>2, <1>3, <1>5, <1>6, EmptyQueue DEF Queues, Turns
  <1>9. Links' /\ Table'
    BY <1>6 DEF Links, Table, Base
  <1>10. Counts'
    BY <1>1, <1>2, <1>6, EmptyQueue DEF Counts, Base
  <1> QED
    BY <1>7, <1>8, <1>9, <1>10 DEF Base

\* sdr_send_stream_start reads something else, or nothing.
LEMMA StreamFails ==
    ASSUME Base, StreamStart
    PROVE  /\ spc = "idle" /\ sConn /\ sConn' = ~SenderReadsEnd
           /\ UNCHANGED <<spc, xfer, result, streaming, sNextMsg>>
           /\ r2s' = r2s \/ (r2s # <<>> /\ Head(r2s).type # "CTS" /\ r2s' = Tail(r2s))
  <1>1. spc = "idle" /\ sConn /\ r2s \in Queue /\ streaming \in BOOLEAN
    BY DEF StreamStart, Base, TypeOK, Queue
  <1>2. ~Has(r2s, "CTS")
    BY <1>1 DEF Base, Turns
  <1>3. ~(r2s # <<>> /\ Head(r2s).type = "CTS")
    BY <1>1, <1>2, Taken
  <1> QED
    BY <1>1, <1>3 DEF StreamStart

\* The sender reads something else, or nothing.
LEMMA ReadBase ==
    ASSUME Base,
           SendSkipsStale \/ StreamStart \/ SendPoll \/ SendPollUnconnected \/ SendWaitFails
    PROVE  Base'
  <1> USE RendezvousAssumption
  <1>1. s2r \in Queue /\ r2s \in Queue /\ xfer \in 0 .. MaxTransfers
    BY DEF Base, TypeOK, Queue
  <1>2. r2s' = r2s \/ (r2s # <<>> /\ r2s' = Tail(r2s))
    BY StreamFails DEF SendSkipsStale, AfterStale, SendPoll, SendPollUnconnected, SendWaitFails
  <1>3. /\ r2s' \in Queue /\ R2sOk(r2s') /\ (Has(r2s', "CTS") => Has(r2s, "CTS"))
        /\ \A g : CtsGen(r2s, g) => CtsGen(r2s', g)
    BY <1>1, <1>2, Taken DEF Base, Queues
  <1>4. /\ UNCHANGED <<streaming, xfer, sNextMsg, s2r, rpc, rConn, slots, slotGen, cur, ctsGen,
                       generation, rNextMsg, udp, up, breaks, sameProcess, buf, net>>
        /\ sConn' = sConn \/ (sConn' = FALSE /\ ~up)
        /\ (spc' = spc /\ sConn' = sConn) \/ spc' = "idle"
    <2>1. CASE StreamStart
      <3>1. UNCHANGED <<s2r, rpc, rConn, slots, slotGen, cur, ctsGen, generation, rNextMsg, udp, up,
                        breaks, sameProcess, buf, net>>
        BY <2>1 DEF StreamStart
      <3>2. sConn \in BOOLEAN
        BY DEF Base, TypeOK
      <3>3. sConn' = TRUE \/ (sConn' = FALSE /\ ~up)
        BY <2>1, StreamFails DEF SenderReadsEnd
      <3>4. sConn = TRUE
        BY <2>1, <3>2, StreamFails, Zenon
      <3> QED
        BY <2>1, <3>1, <3>3, <3>4, StreamFails
    <2>2. CASE SendSkipsStale \/ SendPoll \/ SendPollUnconnected \/ SendWaitFails
      BY <2>2 DEF SendSkipsStale, SendPoll, SendPollUnconnected, SendWaitFails, SendReturns,
                  SenderReadsEnd
    <2> QED
      BY <2>1, <2>2
  <1>5. result' \in [Transfers -> {"none", "0", "-1"}]
    BY DEF SendSkipsStale, StreamStart, SendPoll, SendPollUnconnected, SendWaitFails,
           SendReturns, Base, TypeOK
  <1>6. spc' # spc => (spc = "await_cts" => ~sConn')
                      /\ (spc = "await_cts" => r2s' = <<>> /\ ~up)
    BY DEF SendSkipsStale, StreamStart, SendPoll, SendPollUnconnected, SendWaitFails,
           SenderReadsEnd, SendReturns
  <1>7. TypeOK'
    <2>1. sConn' \in BOOLEAN
      BY <1>4 DEF Base, TypeOK
    <2> QED
      BY <1>3, <1>4, <1>5, <2>1 DEF Base, TypeOK, Queue
  <1>8. Queues'
    BY <1>3, <1>4 DEF Queues, Base
  <1>9. Turns'
    BY <1>3, <1>4, <1>6 DEF Turns, Base, Links
  <1>10. Links' /\ Table'
    BY <1>4 DEF Links, Table, Base
  <1>11. Counts'
    BY <1>3, <1>4 DEF Counts, Base
  <1> QED
    BY <1>7, <1>8, <1>9, <1>10, <1>11 DEF Base

\* sdr_recv_post takes an OFFER.
LEMMA RecvOfferBase ==
    ASSUME Base, RecvOffer
    PROVE  Base'
  <1> USE RendezvousAssumption
  <1> DEFINE n == rNextMsg
             o == Head(s2r)
  <1>1. rpc = "idle" /\ rConn /\ s2r # <<>> /\ o.type = "OFFER" /\ s2r' = Tail(s2r)
    BY DEF RecvOffer
  <1>2. s2r \in Queue /\ r2s \in Queue /\ n \in MsgIds /\ slotGen[n] \in Nat
    BY DEF Base, TypeOK, Queue
  <1>3. s2r' = <<>> /\ o.xfer = xfer /\ Has(s2r, "OFFER")
    BY <1>1, <1>2, Taken DEF Base, Queues
  <1>4. /\ ~Has(r2s, "CTS")
        /\ up => spc = "await_cts"
    BY <1>1, <1>3 DEF Base, Turns, Links
  <1>5. generation \in 1 .. xfer /\ xfer \in Transfers /\ slotGen[n] \in 1 .. generation
    <2>1. generation <= xfer
      BY <1>3 DEF Base, Turns
    <2>2. slotGen[n] <= generation
      BY <1>1, <1>2 DEF Base, Table
    <2>3. generation \in 1 .. MaxTransfers + 1 /\ xfer \in 0 .. MaxTransfers
          /\ slotGen[n] \in 1 .. MaxTransfers + 1
      BY <1>2 DEF Base, TypeOK
    <2> QED
      BY <2>1, <2>2, <2>3 DEF Transfers
  <1>6. /\ UNCHANGED <<streaming, spc, sConn, xfer, sNextMsg, result, rConn, udp, up, breaks,
                       sameProcess, r2s, net, buf>>
        /\ rpc' = "starting" /\ cur' = n /\ rNextMsg' = NextMsgId(n) /\ ctsGen' = generation
        /\ generation' = generation + 1
        /\ slots' = [slots EXCEPT ![n] = [state |-> "ACTIVE", gen |-> slotGen[n], xfer |-> xfer]]
        /\ slotGen' = [slotGen EXCEPT ![n] = @ + 1]
    BY <1>3 DEF RecvOffer
  <1> HIDE DEF n, o
  <1>7. TypeOK'
    <2>1. generation' \in 1 .. MaxTransfers + 1 /\ ctsGen' \in 0 .. MaxTransfers
      BY <1>5, <1>6 DEF Transfers
    <2>2. slotGen[n] + 1 \in 1 .. MaxTransfers + 1
      BY <1>5 DEF Transfers
    <2>3. slotGen' \in [MsgIds -> 1 .. MaxTransfers + 1]
      BY <1>6, <2>2 DEF Base, TypeOK
    <2>4. slotGen[n] \in 0 .. MaxTransfers /\ xfer \in 0 .. MaxTransfers
      BY <1>5 DEF Transfers
    <2>5. slots' \in [MsgIds -> [state : {"NULL_STATE", "ACTIVE", "DEAD"},
                                 gen : 0 .. MaxTransfers, xfer : 0 .. MaxTransfers]]
      BY <1>6, <2>4 DEF Base, TypeOK
    <2>6. NextMsgId(n) \in MsgIds
      BY <1>2, NextIdType
    <2> QED
      BY <1>2, <1>3, <1>6, <2>1, <2>3, <2>5, <2>6, EmptyQueue DEF Base, TypeOK, Queue
  <1>8. Queues' /\ Turns'
    BY <1>3, <1>4, <1>6, EmptyQueue DEF Queues, Turns, Base
  <1>9. Links'
    BY <1>1, <1>6 DEF Links, Base
  <1>10. Counts'
    <2>1. rNextMsg = (generation - 1) % MsgIdSpace
      BY DEF Base, Counts
    <2>2. generation \in Int /\ generation >= 1 /\ generation <= xfer /\ xfer \in Int
      BY <1>5 DEF Transfers
    <2>3. rNextMsg' = generation % MsgIdSpace
      BY <1>6, <2>1, <2>2, NextIdCounts DEF n
    <2>4. (generation + 1) - 1 = generation /\ (generation + 1) - 2 = generation - 1
      BY <2>2
    <2>5. CtsGen(r2s, generation)
      BY <1>2, <1>4, Lacking
    <2>6. xfer >= 1 /\ generation + 1 >= 2 /\ generation + 1 <= xfer + 1
      BY <2>2
    <2> QED
      BY <1>6, <2>1, <2>2, <2>3, <2>4, <2>5, <2>6 DEF Counts, n
  <1>11. Table'
    <2>0. slots'[cur'].state = "ACTIVE"
      BY <1>2, <1>6 DEF Base, TypeOK
    <2> SUFFICES ASSUME NEW k \in MsgIds
                 PROVE  /\ slots'[k].state # "NULL_STATE" => slots'[k].xfer \in Transfers
                        /\ slotGen'[k] <= generation'
                        /\ slots'[k].state # "NULL_STATE" => slots'[k].gen < slotGen'[k]
      BY <2>0 DEF Table
    <2>1. k \in DOMAIN slots /\ k \in DOMAIN slotGen
      BY DEF Base, TypeOK
    <2>2. CASE k = n
      <3>1. slots'[k] = [state |-> "ACTIVE", gen |-> slotGen[n], xfer |-> xfer]
            /\ slotGen'[k] = slotGen[n] + 1
        BY <1>6, <2>1, <2>2
      <3> QED
        BY <1>5, <1>6, <3>1
    <2>3. CASE k # n
      <3>1. slots'[k] = slots[k] /\ slotGen'[k] = slotGen[k]
        BY <1>6, <2>1, <2>3
      <3>2. slotGen[k] \in Nat /\ generation \in Nat
        BY DEF Base, TypeOK
      <3> QED
        BY <1>1, <1>6, <3>1, <3>2 DEF Base, Table
    <2> QED
      BY <2>2, <2>3
  <1> QED
    BY <1>7, <1>8, <1>9, <1>10, <1>11 DEF Base

\* Steps of the receiver that change neither the table nor the counters.
LEMMA RecvBase ==
    ASSUME Base, RecvStart \/ RecvStartFails \/ RecvAccept \/ RecvWaitFails
    PROVE  Base'
  <1> USE RendezvousAssumption
  <1>1. s2r \in Queue /\ r2s \in Queue
    BY DEF Base, TypeOK, Queue
  <1>2. s2r' = s2r \/ (s2r # <<>> /\ s2r' = Tail(s2r) /\ rpc = "await_accept")
    BY DEF RecvStart, RecvStartFails, RecvAccept, RecvWaitFails
  <1>3. /\ s2r' \in Queue /\ S2rOk(s2r', xfer) /\ (Has(s2r', "OFFER") => Has(s2r, "OFFER"))
        /\ (s2r = <<>> => s2r' = <<>>)
    BY <1>1, <1>2, Taken DEF Base, Queues
  <1>4. /\ UNCHANGED <<streaming, spc, sConn, xfer, sNextMsg, result, slots, slotGen, cur, ctsGen,
                       generation, rNextMsg, up, breaks, sameProcess, buf, net, r2s>>
        /\ rConn' = rConn \/ (rConn' = FALSE /\ ~up /\ rpc' = "idle")
        /\ udp' \in {udp, "running", "broken"}
        /\ \/ rpc = "starting" /\ rpc' \in {"send_cts", "idle"}
           \/ rpc = "await_accept" /\ rpc' = "receiving" /\ s2r # <<>>
           \/ rpc' = "idle" /\ ~up
    BY DEF RecvStart, RecvStartFails, RecvAccept, RecvWaitFails
  <1>5. TypeOK'
    <2>1. rConn' \in BOOLEAN /\ udp' \in {"none", "running", "broken"}
      BY <1>4 DEF Base, TypeOK
    <2> QED
      BY <1>3, <1>4, <2>1 DEF Base, TypeOK, Queue
  <1>6. Queues'
    BY <1>3, <1>4 DEF Queues, Base
  <1>7. Turns'
    BY <1>3, <1>4 DEF Turns, Base
  <1>8. Links' /\ Table'
    BY <1>4 DEF Links, Table, Base
  <1>9. Counts'
    BY <1>4 DEF Counts, Base
  <1> QED
    BY <1>5, <1>6, <1>7, <1>8, <1>9 DEF Base

\* The receiver's own messages: CTS and verdicts.
LEMMA WriteBase ==
    ASSUME Base, RecvSendCts \/ PumpAck \/ RecvComplete
    PROVE  Base'
  <1> USE RendezvousAssumption
  <1> DEFINE cts == Message("CTS", ctsGen, 0)
             ack == Message("COMPLETE_ACK", 0, 0)
             nack == Message("INCOMPLETE_NACK", 0, 0)
  <1>1. s2r \in Queue /\ r2s \in Queue /\ ctsGen \in 0 .. MaxTransfers
    BY DEF Base, TypeOK, Queue
  <1>2. /\ UNCHANGED <<streaming, spc, sConn, xfer, sNextMsg, result, rConn, udp, slotGen, cur,
                       ctsGen, generation, rNextMsg, up, breaks, sameProcess, buf, net, s2r>>
        /\ \/ /\ rpc = "send_cts" /\ slots' = slots /\ r2s' = Sent(r2s, cts)
              /\ rpc' = "await_accept" \/ (rpc' = "idle" /\ ~up)
           \/ /\ rpc = "receiving" /\ slots' = slots /\ rpc' = "acked" /\ r2s' = Sent(r2s, ack)
           \/ /\ rpc \in {"receiving", "acked"} /\ rpc' = "idle"
              /\ slots' = [slots EXCEPT ![cur] = [@ EXCEPT !.state = "DEAD"]]
              /\ r2s' = Sent(r2s, ack) \/ r2s' = Sent(r2s, nack)
    BY DEF RecvSendCts, CtsSent, PumpAck, RecvComplete, SlotRetired
  <1>3. /\ cts \in ControlMessages /\ ack \in ControlMessages /\ nack \in ControlMessages
        /\ cts.type = "CTS" /\ ack.type = "COMPLETE_ACK" /\ nack.type = "INCOMPLETE_NACK"
        /\ cts.gen = ctsGen
    BY <1>1 DEF Message, ControlMessages
  <1>4. /\ rpc = "send_cts" => /\ ctsGen \in 1 .. MaxTransfers
                               /\ sameProcess => ctsGen = generation - 1
                               /\ s2r = <<>>
                               /\ up => spc = "await_cts" /\ rpc' = "await_accept"
        /\ up => ~Has(r2s, "CTS")
    <2>1. rpc = "send_cts" => ctsGen \in 1 .. MaxTransfers
      BY <1>1 DEF Base, Counts
    <2> QED
      BY <1>2, <2>1 DEF Base, Counts, Turns
  <1> HIDE DEF cts, ack, nack
  <1>5. /\ r2s' \in Queue /\ R2sOk(r2s')
        /\ Has(r2s', "CTS") => Has(r2s, "CTS") \/ (up /\ rpc = "send_cts")
        /\ sameProcess => CtsGen(r2s', generation - 1)
    <2>1. CASE ~up
      BY <1>1, <1>2, <2>1 DEF Sent, Base, Queues, Counts
    <2>2. CASE up
      <3>1. PICK m \in ControlMessages :
               /\ r2s' = Append(r2s, m)
               /\ \/ m.type \in {"COMPLETE_ACK", "INCOMPLETE_NACK"}
                  \/ rpc = "send_cts" /\ m.type = "CTS" /\ m.gen = ctsGen
        BY <1>2, <1>3, <2>2 DEF Sent
      <3>2. r2s' \in Queue /\ R2sOk(r2s')
        BY <1>1, <1>4, <2>2, <3>1, Appended DEF Base, Queues
      <3>3. Has(r2s', "CTS") => Has(r2s, "CTS") \/ (up /\ rpc = "send_cts")
        BY <1>1, <2>2, <3>1, Appended
      <3>4. sameProcess => CtsGen(r2s', generation - 1)
        BY <1>1, <1>4, <2>2, <3>1, Appended DEF Base, Counts
      <3> QED
        BY <3>2, <3>3, <3>4
    <2> QED
      BY <2>1, <2>2
  <1>6. /\ slots' \in [MsgIds -> [state : {"NULL_STATE", "ACTIVE", "DEAD"},
                                  gen : 0 .. MaxTransfers, xfer : 0 .. MaxTransfers]]
        /\ \A m \in MsgIds : slots'[m].gen = slots[m].gen /\ slots'[m].xfer = slots[m].xfer
    <2>1. slots \in [MsgIds -> [state : {"NULL_STATE", "ACTIVE", "DEAD"},
                                gen : 0 .. MaxTransfers, xfer : 0 .. MaxTransfers]]
          /\ cur \in MsgIds
      BY DEF Base, TypeOK
    <2>2. slots' = slots \/ slots' = [slots EXCEPT ![cur] = [@ EXCEPT !.state = "DEAD"]]
      BY <1>2
    <2>3. CASE slots' = [slots EXCEPT ![cur] = [@ EXCEPT !.state = "DEAD"]]
      <3> DEFINE s == [slots[cur] EXCEPT !.state = "DEAD"]
      <3>1. /\ s \in [state : {"NULL_STATE", "ACTIVE", "DEAD"},
                      gen : 0 .. MaxTransfers, xfer : 0 .. MaxTransfers]
            /\ s.gen = slots[cur].gen /\ s.xfer = slots[cur].xfer
        BY <2>1
      <3>2. slots' = [slots EXCEPT ![cur] = s]
        BY <2>3
      <3> HIDE DEF s
      <3> QED
        BY <2>1, <3>1, <3>2
    <2> QED
      BY <2>1, <2>2, <2>3
  <1>7. TypeOK'
    BY <1>2, <1>5, <1>6 DEF Base, TypeOK, Queue
  <1>8. Queues' /\ Turns'
    BY <1>2, <1>4, <1>5 DEF Queues, Turns, Base
  <1>9. Links'
    BY <1>2 DEF Links, Base
  <1>10. Counts'
    BY <1>2, <1>5 DEF Counts, Base
  <1>11. Table'
    <2>1. rpc # "idle" /\ slots[cur].state = "ACTIVE"
      BY <1>2 DEF Table, Base
    <2>2. \A m \in MsgIds : slots'[m].state # "NULL_STATE" => slots[m].state # "NULL_STATE"
      BY <1>2, <2>1 DEF Base, TypeOK
    <2>3. rpc' # "idle" => slots' = slots
      BY <1>2
    <2> QED
      BY <1>2, <1>6, <2>1, <2>2, <2>3 DEF Table, Base
  <1> QED
    BY <1>7, <1>8, <1>9, <1>10, <1>11 DEF Base

\* A worker fills a buffer.
LEMMA DeliverBase ==
    ASSUME Base, NEW d \in net, Deliver(d)
    PROVE  Base'
  <1>1. d.msg \in MsgIds /\ d.xfer \in Transfers
    BY DEF Base, TypeOK
  <1>2. slots[d.msg].xfer \in Transfers
    BY <1>1 DEF Deliver, Admits, Base, Table
  <1>3. buf' \in [Transfers -> 0 .. MaxTransfers]
    <2>1. d.xfer \in 0 .. MaxTransfers
      BY <1>1, RendezvousAssumption DEF Transfers
    <2>2. buf \in [Transfers -> 0 .. MaxTransfers]
      BY DEF Base, TypeOK
    <2>3. buf' = [buf EXCEPT ![slots[d.msg].xfer] = d.xfer]
      BY DEF Deliver
    <2> QED
      BY <1>2, <2>1, <2>2, <2>3
  <1>4. TypeOK'
    BY <1>3 DEF Deliver, Base, TypeOK
  <1>5. Queues' /\ Turns' /\ Links'
    BY DEF Deliver, Base, Queues, Turns, Links
  <1>6. Counts' /\ Table'
    BY DEF Deliver, Base, Counts, Table
  <1> QED
    BY <1>4, <1>5, <1>6 DEF Base

\* A connection or a process ends.
LEMMA FailureBase ==
    ASSUME Base, Break \/ SenderRestarts \/ ReceiverRestart
    PROVE  Base'
  <1> USE RendezvousAssumption
  <1>1. s2r \in Queue /\ r2s \in Queue
    BY DEF Base, TypeOK, Queue
  <1>2. /\ s2r' \in Queue /\ S2rOk(s2r', xfer) /\ r2s' \in Queue /\ R2sOk(r2s')
        /\ (Has(s2r', "OFFER") => Has(s2r, "OFFER")) /\ (s2r = <<>> => s2r' = <<>>)
        /\ (Has(r2s', "CTS") => Has(r2s, "CTS"))
        /\ \A g : CtsGen(r2s, g) => CtsGen(r2s', g)
    <2>1. CASE Break
      <3>1. PICK i \in 0 .. Len(s2r), j \in 0 .. Len(r2s) :
               s2r' = SubSeq(s2r, 1, i) /\ r2s' = SubSeq(r2s, 1, j)
        BY <2>1 DEF Break
      <3> QED
        BY <1>1, <3>1, Cut DEF Base, Queues
    <2>2. CASE SenderRestarts \/ ReceiverRestart
      BY <1>1, <2>2 DEF SenderRestarts, ReceiverRestart, Base, Queues
    <2> QED
      BY <2>1, <2>2
  <1>3. /\ UNCHANGED <<streaming, xfer, result, slots, slotGen, cur, ctsGen, buf, net>>
        /\ up' = FALSE /\ breaks' = breaks + 1 /\ breaks < MaxBreaks
        /\ (spc' = spc /\ sConn' = sConn /\ sNextMsg' = sNextMsg)
             \/ (spc' = "idle" /\ sConn' = FALSE /\ sNextMsg' = 0)
        /\ \/ UNCHANGED <<rpc, rConn, generation, rNextMsg, sameProcess, udp>>
           \/ /\ rpc' = "idle" /\ rConn' = FALSE /\ rNextMsg' = 0 /\ generation' = 1
              /\ sameProcess' = FALSE /\ udp' = "none"
    BY DEF Break, Fails, SenderRestarts, ReceiverRestart
  <1>4. breaks' \in 0 .. MaxBreaks /\ breaks' # 0
    BY <1>3 DEF Base, TypeOK
  <1>5. 0 \in MsgIds /\ 1 \in 1 .. MaxTransfers + 1 /\ (1 - 1) % MsgIdSpace = 0
    BY DEF MsgIds
  <1>6. TypeOK'
    <2>1. up' \in BOOLEAN /\ sConn' \in BOOLEAN /\ rConn' \in BOOLEAN /\ sameProcess' \in BOOLEAN
      BY <1>3 DEF Base, TypeOK
    <2>2. spc' \in {"idle", "await_cts", "polling"}
      BY <1>3 DEF Base, TypeOK
    <2>3. sNextMsg' \in MsgIds
      BY <1>3, <1>5 DEF Base, TypeOK
    <2>4. /\ rNextMsg' \in MsgIds /\ generation' \in 1 .. MaxTransfers + 1
          /\ udp' \in {"none", "running", "broken"}
          /\ rpc' \in {"idle", "starting", "send_cts", "await_accept", "receiving", "acked"}
      BY <1>3, <1>5 DEF Base, TypeOK
    <2> QED
      BY <1>2, <1>3, <1>4, <2>1, <2>2, <2>3, <2>4 DEF Base, TypeOK, Queue
  <1>7. Queues'
    BY <1>2, <1>3 DEF Queues
  <1>8. Turns'
    <2>1. Has(s2r', "OFFER") => generation' <= xfer'
      <3>1. Has(s2r', "OFFER") => generation <= xfer
        BY <1>2 DEF Base, Turns
      <3>2. generation \in 1 .. MaxTransfers + 1 /\ xfer \in 0 .. MaxTransfers
        BY DEF Base, TypeOK
      <3>3. generation' \in {generation, 1} /\ xfer' = xfer
        BY <1>3
      <3> QED
        BY <3>1, <3>2, <3>3
    <2> QED
      BY <1>2, <1>3, <2>1 DEF Base, Turns
  <1>9. Links'
    BY <1>3, <1>4 DEF Base, Links
  <1>10. Counts'
    <2>1. CASE UNCHANGED <<rpc, generation, rNextMsg, sameProcess>>
      BY <1>2, <1>3, <2>1 DEF Base, Counts
    <2>2. CASE rpc' = "idle" /\ rNextMsg' = 0 /\ generation' = 1 /\ sameProcess' = FALSE
      <3>1. 1 <= xfer + 1
        BY DEF Base, TypeOK
      <3>2. spc' # "idle" => xfer >= 1
        BY <1>3 DEF Base, Counts
      <3> QED
        BY <1>3, <1>5, <2>2, <3>1, <3>2 DEF Counts
    <2> QED
      BY <1>3, <2>1, <2>2
  <1>11. Table'
    BY <1>3 DEF Base, Table
  <1> QED
    BY <1>6, <1>7, <1>8, <1>9, <1>10, <1>11 DEF Base

\* A new connection.
LEMMA ReconnectBase ==
    ASSUME Base, Reconnect
    PROVE  Base'
  <1> USE RendezvousAssumption
  <1>1. /\ UNCHANGED <<streaming, spc, xfer, sNextMsg, result, rpc, rNextMsg, generation, cur, ctsGen,
                       net, buf, breaks, sameProcess>>
        /\ spc = "idle" /\ rpc = "idle" /\ s2r' = <<>> /\ r2s' = <<>> /\ udp' = "none"
        /\ up' = TRUE /\ sConn' = TRUE /\ rConn' = TRUE
        /\ slots' = [m \in MsgIds |-> NoSlot] /\ slotGen' = [m \in MsgIds |-> 1]
    BY DEF Reconnect, Connected, EmptyTable, FirstGenerations
  <1>2. NoSlot \in [state : {"NULL_STATE", "ACTIVE", "DEAD"},
                    gen : 0 .. MaxTransfers, xfer : 0 .. MaxTransfers]
    BY DEF NoSlot
  <1>3. TypeOK'
    BY <1>1, <1>2, EmptyQueue DEF Base, TypeOK, Queue
  <1>4. Queues' /\ Turns'
    BY <1>1, EmptyQueue DEF Queues, Turns
  <1>5. breaks # 0
    BY DEF Reconnect, Base, Links
  <1>6. Links'
    BY <1>1, <1>5 DEF Links
  <1>7. Counts'
    BY <1>1, EmptyQueue DEF Counts, Base
  <1>8. Table'
    <2>1. generation >= 1
      BY DEF Base, TypeOK
    <2>2. NoSlot.state = "NULL_STATE"
      BY DEF NoSlot
    <2> QED
      BY <1>1, <2>1, <2>2 DEF Table
  <1> QED
    BY <1>3, <1>4, <1>6, <1>7, <1>8 DEF Base

\* No step leaves Base.
LEMMA NextBase == Base /\ [Next]_vars => Base'
  <1> SUFFICES ASSUME Base, [Next]_vars PROVE Base'
    OBVIOUS
  <1>1. CASE UNCHANGED vars
    <2>1. TypeOK'
      BY <1>1 DEF vars, Base, TypeOK
    <2>2. Queues' /\ Turns' /\ Links'
      BY <1>1 DEF vars, Base, Queues, Turns, Links
    <2>3. Counts' /\ Table'
      BY <1>1 DEF vars, Base, Counts, Table
    <2> QED
      BY <2>1, <2>2, <2>3 DEF Base
  <1>2. CASE Next
    BY <1>2, OfferBase, AnswerBase, ReadBase, RecvOfferBase, RecvBase, WriteBase, DeliverBase,
       FailureBase, ReconnectBase DEF Next, SenderStep, ReceiverStep
  <1> QED
    BY <1>1, <1>2

-----------------------------------------------------------------------------
(* Preservation of Matching *)

\* The steps of the sender, of the receiver and of the environment.
SenderActs ==
    \/ SendOffer \/ SendOfferFails \/ SendData \/ SendDataFails
    \/ SendSkipsStale \/ StreamStart \/ SendPoll \/ SendPollUnconnected \/ SendWaitFails

ReceiverActs ==
    \/ RecvOffer \/ RecvStart \/ RecvStartFails \/ RecvSendCts \/ RecvAccept
    \/ RecvWaitFails \/ RecvComplete \/ PumpAck

Failures == Break \/ SenderRestarts \/ ReceiverRestart

\* Every step is one of them.
LEMMA NextIs ==
    ASSUME Next
    PROVE  SenderActs \/ ReceiverActs \/ Failures \/ Reconnect \/ \E d \in net : Deliver(d)
  BY DEF Next, SenderStep, ReceiverStep, SenderActs, ReceiverActs, Failures

\* What a step of the sender leaves alone.
LEMMA SenderFrame ==
    ASSUME SenderActs
    PROVE  UNCHANGED <<receiverVars, linkVars, buf>>
  BY DEF SenderActs, SendOffer, SendOfferFails, SendData, SendDataFails, SendSkipsStale,
         StreamStart, SendPoll, SendPollUnconnected, SendWaitFails

\* What a step of the receiver leaves alone.
LEMMA ReceiverFrame ==
    ASSUME ReceiverActs
    PROVE  UNCHANGED <<senderVars, linkVars, net, buf>>
  BY DEF ReceiverActs, RecvOffer, RecvStart, RecvStartFails, RecvSendCts, RecvAccept,
         RecvWaitFails, RecvComplete, PumpAck

\* What a failure leaves alone.
LEMMA FailureFrame ==
    ASSUME Failures
    PROVE  UNCHANGED <<xfer, result, slots, slotGen, cur, ctsGen, net, buf>>
  BY DEF Failures, Break, SenderRestarts, ReceiverRestart

\* Where messages to the sender come from.
LEMMA NewsFromReceiver ==
    ASSUME Base, Next
    PROVE  /\ Has(r2s', "CTS") => Has(r2s, "CTS") \/ (up /\ RecvSendCts)
           /\ Has(r2s', "COMPLETE_ACK") =>
                 Has(r2s, "COMPLETE_ACK") \/ (up /\ (PumpAck \/ (RecvComplete /\ Received)))
  <1>1. r2s \in Queue /\ s2r \in Queue /\ ctsGen \in 0 .. MaxTransfers
    BY DEF Base, TypeOK, Queue
  <1>2. CASE r2s' = r2s \/ (r2s # <<>> /\ r2s' = Tail(r2s)) \/ r2s' = <<>>
    <2>1. CASE r2s' = r2s
      BY <2>1
    <2>2. CASE r2s # <<>> /\ r2s' = Tail(r2s)
      <3>1. \A t : Has(r2s', t) => Has(r2s, t)
        BY <1>1, <2>2, Taken
      <3> QED
        BY <3>1
    <2>3. CASE r2s' = <<>>
      BY <2>3, EmptyQueue
    <2> QED
      BY <1>2, <2>1, <2>2, <2>3
  <1>3. CASE SenderActs
    BY <1>2, <1>3 DEF SenderActs, SendOffer, SendOfferFails, SendData, SendDataFails,
         SendSkipsStale, AfterStale, StreamStart, SendPoll, SendPollUnconnected, SendWaitFails
  <1>4. CASE RecvOffer \/ RecvStart \/ RecvStartFails \/ RecvAccept \/ RecvWaitFails
    BY <1>2, <1>4 DEF RecvOffer, RecvStart, RecvStartFails, RecvAccept, RecvWaitFails
  <1>5. CASE RecvSendCts
    <2>1. Message("CTS", ctsGen, 0) \in ControlMessages /\ Message("CTS", ctsGen, 0).type = "CTS"
      BY <1>1, RendezvousAssumption DEF Message, ControlMessages
    <2>2. r2s' = IF up THEN Append(r2s, Message("CTS", ctsGen, 0)) ELSE r2s
      BY <1>5 DEF RecvSendCts, CtsSent, Sent
    <2> QED
      BY <1>1, <1>5, <2>1, <2>2, Appended
  <1>6. CASE PumpAck \/ RecvComplete
    <2>1. \A t \in {"COMPLETE_ACK", "INCOMPLETE_NACK"} :
             Message(t, 0, 0) \in ControlMessages /\ Message(t, 0, 0).type = t
      BY RendezvousAssumption DEF Message, ControlMessages
    <2>2. CASE PumpAck
      <3>1. r2s' = IF up THEN Append(r2s, Message("COMPLETE_ACK", 0, 0)) ELSE r2s
        BY <2>2 DEF PumpAck, Sent
      <3> QED
        BY <1>1, <2>1, <2>2, <3>1, Appended
    <2>3. CASE RecvComplete
      <3> DEFINE t == IF Received THEN "COMPLETE_ACK" ELSE "INCOMPLETE_NACK"
      <3>1. r2s' = IF up THEN Append(r2s, Message(t, 0, 0)) ELSE r2s
        BY <2>3 DEF RecvComplete, Sent
      <3>2. t \in {"COMPLETE_ACK", "INCOMPLETE_NACK"} /\ (t = "COMPLETE_ACK" => Received)
        OBVIOUS
      <3> HIDE DEF t
      <3> QED
        BY <1>1, <2>1, <2>3, <3>1, <3>2, Appended
    <2> QED
      BY <1>6, <2>2, <2>3
  <1>7. CASE Break
    <2>1. PICK j \in 0 .. Len(r2s) : r2s' = SubSeq(r2s, 1, j)
      BY <1>7 DEF Break
    <2> QED
      BY <1>1, <2>1, Cut
  <1>8. CASE SenderRestarts \/ ReceiverRestart \/ Reconnect \/ \E d \in net : Deliver(d)
    BY <1>2, <1>8 DEF SenderRestarts, ReceiverRestart, Reconnect, Connected, Deliver
  <1> QED
    BY NextIs, <1>3, <1>4, <1>5, <1>6, <1>7, <1>8 DEF ReceiverActs, Failures

\* No OFFER after the last.
LEMMA StuckStays ==
    ASSUME Base, Stuck, SenderActs \/ Failures
    PROVE  Stuck'
  <1>1. s2r = <<>> /\ rpc = "idle" /\ (~up \/ spc = "await_cts")
    BY DEF Stuck
  <1>2. CASE SenderActs
    <2>1. rpc' = "idle" /\ up' = up
      BY <1>1, <1>2, SenderFrame
    <2>2. ~up => s2r' = s2r
      BY <1>2 DEF SenderActs, SendOffer, SendOfferFails, SendData, SendDataFails, Accepting, Sent,
           SendSkipsStale, StreamStart, SendPoll, SendPollUnconnected, SendWaitFails
    <2>3. CASE up
      <3>1. spc = "await_cts"
        BY <1>1, <2>3
      <3>2. ~(SendData \/ SendDataFails)
        <4>1. r2s \in Queue /\ ~Has(r2s, "CTS")
          BY <1>1, <2>3 DEF Base, TypeOK, Turns, Queue
        <4> QED
          BY <4>1, Taken DEF SendData, SendDataFails
      <3>3. SendSkipsStale
        BY <1>2, <2>3, <3>1, <3>2 DEF SenderActs, SendOffer, SendOfferFails, StreamStart, SendPoll,
             SendPollUnconnected, SendWaitFails, SenderReadsEnd
      <3> QED
        BY <1>1, <2>1, <3>1, <3>3 DEF Stuck, SendSkipsStale
    <2> QED
      BY <1>1, <2>1, <2>2, <2>3 DEF Stuck
  <1>3. CASE Failures
    <2>1. rpc' = "idle" /\ up' = FALSE
      BY <1>1, <1>3 DEF Failures, Break, SenderRestarts, ReceiverRestart, Fails
    <2>2. s2r' = <<>>
      <3>1. CASE Break
        <4>1. PICK j \in 0 .. Len(s2r) : s2r' = SubSeq(s2r, 1, j)
          BY <3>1 DEF Break
        <4>2. s2r \in Queue
          BY DEF Base, TypeOK, Queue
        <4> QED
          BY <1>1, <4>1, <4>2, Cut
      <3> QED
        BY <1>1, <1>3, <3>1 DEF Failures, SenderRestarts, ReceiverRestart
    <2> QED
      BY <2>1, <2>2 DEF Stuck
  <1> QED
    BY <1>2, <1>3

\* A slot is left ACTIVE only by the last receive of a connection.
LEMMA ActiveNext ==
    ASSUME Base, ActiveSlots, Next
    PROVE  ActiveSlots'
  <1> SUFFICES ASSUME rConn', NEW m \in MsgIds, slots'[m].state = "ACTIVE"
               PROVE  (rpc' # "idle" /\ m = cur') \/ Stuck'
    BY DEF ActiveSlots
  <1> USE DEF ActiveSlots
  <1>0. slots \in [MsgIds -> [state : {"NULL_STATE", "ACTIVE", "DEAD"},
                              gen : 0 .. MaxTransfers, xfer : 0 .. MaxTransfers]]
        /\ cur \in MsgIds /\ rNextMsg \in MsgIds
    BY DEF Base, TypeOK
  <1>1. CASE SenderActs
    BY <1>1, SenderFrame, StuckStays
  <1>2. CASE Failures
    <2>1. rConn /\ slots' = slots /\ cur' = cur /\ rpc' = rpc
      BY <1>2, FailureFrame DEF Failures, Break, SenderRestarts, ReceiverRestart
    <2> QED
      BY <1>2, <2>1, StuckStays
  <1>3. CASE RecvOffer
    <2>1. rConn /\ ~Stuck /\ rpc = "idle" /\ slots[m].state # "ACTIVE"
      BY <1>3 DEF RecvOffer, Stuck
    <2>2. rpc' = "starting" /\ cur' = rNextMsg
      BY <1>3 DEF RecvOffer
    <2>3. m # rNextMsg => slots'[m] = slots[m]
      BY <1>0, <1>3 DEF RecvOffer
    <2> QED
      BY <2>1, <2>2, <2>3
  <1>4. CASE RecvStart \/ RecvAccept \/ PumpAck
    <2>1. rConn /\ slots' = slots /\ cur' = cur /\ rpc # "idle" /\ rpc' # "idle"
      BY <1>4 DEF RecvStart, RecvAccept, PumpAck
    <2> QED
      BY <2>1 DEF Stuck
  <1>5. CASE RecvStartFails \/ RecvSendCts
    <2>1. /\ rConn /\ slots' = slots /\ cur' = cur /\ rpc \in {"starting", "send_cts"}
          /\ s2r' = s2r /\ up' = up /\ spc' = spc
      BY <1>5 DEF RecvStartFails, RecvSendCts
    <2>2. rpc' = "idle" => Stuck'
      BY <2>1 DEF Base, Turns, Stuck
    <2> QED
      BY <2>1, <2>2 DEF Stuck
  <1>6. CASE RecvWaitFails
    BY <1>6 DEF RecvWaitFails
  <1>7. CASE RecvComplete
    <2>1. rConn /\ rpc # "idle" /\ slots' = [slots EXCEPT ![cur] = SlotRetired(slots[cur])]
      BY <1>7 DEF RecvComplete
    <2>2. SlotRetired(slots[cur]).state = "DEAD"
      BY <1>0 DEF SlotRetired
    <2>3. m # cur /\ slots[m].state = "ACTIVE"
      BY <1>0, <2>1, <2>2
    <2> QED
      BY <2>1, <2>3 DEF Stuck
  <1>8. CASE Reconnect
    BY <1>8 DEF Reconnect, EmptyTable, NoSlot
  <1>9. CASE \E d \in net : Deliver(d)
    BY <1>9 DEF Deliver, Stuck
  <1> QED
    BY NextIs, <1>1, <1>2, <1>3, <1>4, <1>5, <1>6, <1>7, <1>8, <1>9 DEF ReceiverActs

\* The two ends stay with the same transfer.
LEMMA IdentityNext ==
    ASSUME Base, Base', Identity, Next
    PROVE  Identity'
  <1>0. slots \in [MsgIds -> [state : {"NULL_STATE", "ACTIVE", "DEAD"},
                              gen : 0 .. MaxTransfers, xfer : 0 .. MaxTransfers]]
        /\ cur \in MsgIds /\ rNextMsg \in MsgIds /\ s2r \in Queue /\ r2s \in Queue
    BY DEF Base, TypeOK, Queue
  <1>1. Has(r2s', "CTS") => Has(r2s, "CTS") \/ (up /\ RecvSendCts)
    BY NewsFromReceiver
  <1>2. CASE SendOffer \/ SendOfferFails
    <2>1. spc = "idle" /\ sConn /\ spc' # "polling" /\ rpc' = rpc /\ up' = up /\ r2s' = r2s
      BY <1>2 DEF SendOffer, SendOfferFails, SendReturns
    <2>2. ~Has(r2s, "CTS") /\ ~(up /\ rpc \in {"starting", "send_cts"})
      BY <2>1 DEF Base, Turns
    <2> QED
      BY <2>1, <2>2 DEF Identity
  <1>3. CASE SendData \/ SendDataFails
    <2>1. /\ spc = "await_cts" /\ r2s # <<>> /\ Head(r2s).type = "CTS" /\ xfer' = xfer
          /\ slots' = slots /\ cur' = cur
      BY <1>3 DEF SendData, SendDataFails
    <2>2. Has(r2s, "CTS")
      BY <1>0, <2>1, Taken
    <2> QED
      BY <2>1, <2>2 DEF Identity
  <1>4. CASE SendSkipsStale \/ StreamStart \/ SendPoll \/ SendPollUnconnected \/ SendWaitFails
    <2>1. /\ spc' = spc \/ spc' = "idle"
          /\ UNCHANGED <<xfer, rpc, up, slots, cur>>
      BY <1>4 DEF SendSkipsStale, StreamStart, SendPoll, SendPollUnconnected, SendWaitFails,
           SendReturns
    <2>2. ~RecvSendCts \/ r2s' = r2s
      BY <1>4 DEF SendSkipsStale, StreamStart, SendPoll, SendPollUnconnected, SendWaitFails,
           RecvSendCts, SendReturns
    <2> QED
      BY <1>1, <2>1, <2>2 DEF Identity
  <1>5. CASE RecvOffer
    <2>1. s2r # <<>> /\ Head(s2r).type = "OFFER" /\ S2rOk(s2r, xfer)
      BY <1>5 DEF RecvOffer, Base, Queues
    <2>2. Head(s2r).xfer = xfer
      BY <1>0, <2>1, Taken
    <2>3. slots'[cur'].xfer = xfer /\ xfer' = xfer
      BY <1>0, <1>5, <2>2 DEF RecvOffer
    <2> QED
      BY <2>3 DEF Identity
  <1>6. CASE RecvStart \/ RecvStartFails \/ RecvAccept \/ RecvWaitFails \/ RecvSendCts \/ PumpAck
    <2>1. /\ UNCHANGED <<spc, xfer, up, slots, cur>>
          /\ rpc \in {"starting", "send_cts"} => rpc' \in {"send_cts", "await_accept", "idle"}
          /\ rpc \notin {"starting", "send_cts"} => rpc' \notin {"starting", "send_cts"}
          /\ rpc' \in {"await_accept", "receiving", "acked"} =>
                rpc \in {"send_cts", "await_accept", "receiving", "acked"}
      BY <1>6 DEF RecvStart, RecvStartFails, RecvAccept, RecvWaitFails, RecvSendCts, PumpAck
    <2>2. RecvSendCts => rpc = "send_cts"
      BY DEF RecvSendCts
    <2> QED
      BY <1>1, <2>1, <2>2 DEF Identity
  <1>7. CASE RecvComplete
    <2>1. rpc' = "idle" /\ UNCHANGED <<spc, xfer, up, cur>>
          /\ slots' = [slots EXCEPT ![cur] = SlotRetired(slots[cur])] /\ ~RecvSendCts
      BY <1>7 DEF RecvComplete, RecvSendCts
    <2>2. slots'[cur].xfer = slots[cur].xfer
      BY <1>0, <2>1 DEF SlotRetired
    <2> QED
      BY <1>1, <2>1, <2>2 DEF Identity
  <1>8. CASE Failures
    <2>1. /\ up' = FALSE /\ UNCHANGED <<xfer, slots, cur>> /\ spc' \in {spc, "idle"}
          /\ ~up \/ ~RecvSendCts
      BY <1>8, FailureFrame DEF Failures, Break, SenderRestarts, ReceiverRestart, Fails, RecvSendCts
    <2> QED
      BY <1>1, <2>1 DEF Identity
  <1>9. CASE Reconnect
    <2>1. spc' = "idle" /\ rpc' = "idle"
      BY <1>9 DEF Reconnect
    <2> QED
      BY <2>1 DEF Identity
  <1>10. CASE \E d \in net : Deliver(d)
    BY <1>10 DEF Deliver, Identity
  <1> QED
    BY NextIs, <1>2, <1>3, <1>4, <1>5, <1>6, <1>7, <1>8, <1>9, <1>10 DEF SenderActs, ReceiverActs

\* What is received stays received.
LEMMA BufferStays ==
    ASSUME Base, Next
    PROVE  \A x \in Transfers : buf[x] # 0 => buf'[x] # 0
  <1>1. CASE \E d \in net : Deliver(d)
    <2>1. PICK d \in net : Deliver(d)
      BY <1>1
    <2>2. d.xfer \in Transfers /\ buf \in [Transfers -> 0 .. MaxTransfers]
      BY DEF Base, TypeOK
    <2>3. d.xfer # 0
      BY <2>2 DEF Transfers
    <2>4. buf' = [buf EXCEPT ![slots[d.msg].xfer] = d.xfer]
      BY <2>1 DEF Deliver
    <2> QED
      BY <2>2, <2>3, <2>4
  <1>2. CASE SenderActs \/ ReceiverActs \/ Failures \/ Reconnect
    BY <1>2, SenderFrame, ReceiverFrame, FailureFrame DEF Reconnect
  <1> QED
    BY NextIs, <1>1, <1>2

\* The successes sdr_send_poll reads are of its transfer.
LEMMA VerdictsNext ==
    ASSUME Base, Identity, Verdicts, Next
    PROVE  Verdicts'
  <1> SUFFICES ASSUME up', spc' = "polling", Has(r2s', "COMPLETE_ACK")
               PROVE  buf'[xfer'] # 0
    BY DEF Verdicts
  <1>1. /\ Has(r2s, "COMPLETE_ACK") \/ (up /\ (PumpAck \/ (RecvComplete /\ Received)))
        /\ r2s \in Queue /\ s2r \in Queue
    BY NewsFromReceiver DEF Base, TypeOK, Queue
  <1>2. CASE SenderActs
    <2>1. SendData
      BY <1>2 DEF SenderActs, SendOffer, SendOfferFails, SendDataFails, SendSkipsStale, StreamStart,
           SendPoll, SendPollUnconnected, SendWaitFails, SendReturns
    <2>2. r2s' = <<>>
      BY <1>1, <2>1, Taken DEF SendData, Base, Queues
    <2> QED
      BY <2>2, EmptyQueue
  <1>3. CASE ReceiverActs \/ \E d \in net : Deliver(d)
    <2>1. UNCHANGED <<spc, xfer, up>>
      BY <1>3, ReceiverFrame DEF Deliver
    <2>2. xfer \in Transfers
      BY <2>1 DEF Base, TypeOK, Counts, Transfers
    <2>3. buf[xfer] # 0
      <3>1. CASE Has(r2s, "COMPLETE_ACK")
        BY <2>1, <3>1 DEF Verdicts
      <3>2. CASE PumpAck \/ (RecvComplete /\ Received)
        <4>1. rpc \in {"receiving", "acked"} /\ buf[slots[cur].xfer] # 0
          BY <3>2 DEF PumpAck, RecvComplete, Received
        <4>2. slots[cur].xfer = xfer
          BY <2>1, <4>1 DEF Identity
        <4> QED
          BY <4>1, <4>2
      <3> QED
        BY <1>1, <3>1, <3>2
    <2> QED
      BY <2>1, <2>2, <2>3, BufferStays
  <1>4. CASE Failures \/ Reconnect
    BY <1>4 DEF Failures, Break, SenderRestarts, ReceiverRestart, Fails, Reconnect
  <1> QED
    BY NextIs, <1>2, <1>3, <1>4

\* sdr_send_poll returns 0 only on such a success.
LEMMA VerdictMatchesNext ==
    ASSUME Base, Verdicts, VerdictMatches, Next
    PROVE  VerdictMatches'
  <1> SUFFICES ASSUME breaks' = 0, NEW x \in Transfers, result'[x] = "0"
               PROVE  buf'[x] # 0
    BY DEF VerdictMatches
  <1>1. breaks = 0
    <2>1. breaks' = breaks \/ breaks' = breaks + 1
      BY NextIs, SenderFrame, ReceiverFrame
         DEF Failures, Break, SenderRestarts, ReceiverRestart, Fails, Reconnect, Deliver
    <2>2. breaks \in 0 .. MaxBreaks
      BY DEF Base, TypeOK
    <2> QED
      BY <2>1, <2>2, RendezvousAssumption
  <1>2. up /\ sConn
    BY <1>1 DEF Base, Links
  <1>3. CASE result[x] = "0"
    BY <1>1, <1>3, BufferStays DEF VerdictMatches
  <1>4. CASE result[x] # "0"
    <2>0. result \in [Transfers -> {"none", "0", "-1"}] /\ r2s \in Queue
      BY DEF Base, TypeOK, Queue
    <2>1. result' # result
      BY <1>4
    <2>2. SenderActs
      BY <2>1, NextIs, ReceiverFrame, FailureFrame DEF Reconnect, Deliver
    <2>3. PICK r \in {"0", "-1"} : result' = [result EXCEPT ![IF SendOfferFails THEN xfer + 1 ELSE xfer] = r]
                                   /\ (r = "0" => SendPoll \/ SendPollUnconnected)
      BY <2>1, <2>2 DEF SenderActs, SendOffer, SendOfferFails, SendDataFails, SendSkipsStale,
           StreamStart, SendPoll, SendPollUnconnected, SendWaitFails, SendReturns, SendData
    <2>4. r = "0"
      BY <1>4, <2>0, <2>3
    <2>5. SendPoll /\ ~SendOfferFails
      BY <1>2, <2>3, <2>4 DEF SendPollUnconnected, SendPoll, SendOfferFails
    <2>6. x = xfer
      BY <1>4, <2>0, <2>3, <2>5
    <2>7. spc = "polling" /\ r2s # <<>> /\ Head(r2s).type = "COMPLETE_ACK"
      <3>1. Head(r2s).type = "INCOMPLETE_NACK" \/ Head(r2s).type = "COMPLETE_ACK"
        BY <2>5 DEF SendPoll
      <3>2. Head(r2s).type = "INCOMPLETE_NACK" => result' = [result EXCEPT ![xfer] = "-1"]
        BY <2>5 DEF SendPoll, SendReturns
      <3>3. result' # [result EXCEPT ![xfer] = "-1"]
        BY <2>0, <2>6
      <3> QED
        BY <2>5, <3>1, <3>2, <3>3 DEF SendPoll
    <2>8. buf[x] # 0
      BY <1>2, <2>0, <2>6, <2>7, Taken DEF Verdicts
    <2> QED
      BY <2>8, BufferStays
  <1> QED
    BY <1>3, <1>4

-----------------------------------------------------------------------------
(* Preservation of Separate *)

\* Generations do not decrease and failures are not undone within a process.
LEMMA InTimeStays ==
    ASSUME Base, Next
    PROVE  /\ sameProcess' => sameProcess /\ generation' >= generation
           /\ breaks' = 0 => breaks = 0
           /\ generation' # generation => RecvOffer \/ ~sameProcess'
  <1>1. generation \in 1 .. MaxTransfers + 1 /\ breaks \in 0 .. MaxBreaks
    BY DEF Base, TypeOK
  <1>2. CASE SenderActs \/ \E d \in net : Deliver(d)
    BY <1>1, <1>2, SenderFrame DEF Deliver
  <1>3. CASE RecvOffer
    <2>1. generation' = generation + 1 /\ sameProcess' = sameProcess /\ breaks' = breaks
      BY <1>3 DEF RecvOffer
    <2>2. generation + 1 >= generation
      BY <1>1
    <2> QED
      BY <1>3, <2>1, <2>2
  <1>4. CASE ReceiverActs /\ ~RecvOffer
    <2>1. generation' = generation /\ sameProcess' = sameProcess /\ breaks' = breaks
      BY <1>4 DEF ReceiverActs, RecvStart, RecvStartFails, RecvSendCts, RecvAccept, RecvWaitFails,
           RecvComplete, PumpAck
    <2> QED
      BY <1>1, <2>1
  <1>5. CASE Failures
    <2>1. breaks' = breaks + 1 /\ (sameProcess' = FALSE \/ UNCHANGED <<sameProcess, generation>>)
      BY <1>5 DEF Failures, Break, SenderRestarts, ReceiverRestart, Fails
    <2>2. breaks' # 0
      BY <1>1, <2>1, RendezvousAssumption
    <2> QED
      BY <1>1, <2>1, <2>2
  <1>6. CASE Reconnect
    BY <1>1, <1>6 DEF Reconnect
  <1> QED
    BY NextIs, <1>2, <1>3, <1>4, <1>5, <1>6

\* A receive begins with RecvOffer only.
LEMMA AnsweringStays ==
    ASSUME Base, Next, ~RecvOffer, Answering'
    PROVE  Answering
  <1>1. Has(r2s', "CTS") => Answering
    BY NewsFromReceiver DEF RecvSendCts, Answering
  <1>2. rpc' \in {"starting", "send_cts"} => rpc \in {"starting", "send_cts"}
    BY NextIs, SenderFrame DEF ReceiverActs, RecvStart, RecvStartFails, RecvSendCts, RecvAccept,
       RecvWaitFails, RecvComplete, PumpAck, Failures, Break, SenderRestarts, ReceiverRestart,
       Reconnect, Deliver
  <1> QED
    BY <1>1, <1>2 DEF Answering

\* When the CTS is read.
LEMMA ReadingCts ==
    ASSUME Base, SendData \/ SendDataFails
    PROVE  /\ Has(r2s, "CTS") /\ Answering /\ ~Answering' /\ spc = "await_cts"
           /\ Head(r2s).gen \in 1 .. MaxTransfers
           /\ sameProcess => Head(r2s).gen = generation - 1
           /\ up => ~Stuck
           /\ sNextMsg' = NextMsgId(sNextMsg)
           /\ UNCHANGED <<xfer, receiverVars, linkVars>>
  <1>1. r2s \in Queue /\ r2s # <<>> /\ Head(r2s).type = "CTS" /\ r2s' = Tail(r2s) /\ spc = "await_cts"
    BY DEF SendData, SendDataFails, Base, TypeOK, Queue
  <1>2. /\ Has(r2s, "CTS") /\ r2s' = <<>> /\ Head(r2s).gen \in 1 .. MaxTransfers
        /\ sameProcess => Head(r2s).gen = generation - 1
    BY <1>1, Taken DEF Base, Queues, Counts
  <1>3. rpc \notin {"starting", "send_cts"} /\ (up => rpc = "await_accept")
    BY <1>2 DEF Base, Turns
  <1>4. UNCHANGED <<xfer, receiverVars, linkVars>> /\ sNextMsg' = NextMsgId(sNextMsg)
    BY DEF SendData, SendDataFails
  <1>5. Answering /\ ~Answering'
    BY <1>2, <1>3, <1>4, EmptyQueue DEF Answering
  <1> QED
    BY <1>1, <1>2, <1>3, <1>4, <1>5 DEF Stuck

\* Only SendData sends.
LEMMA NetGrows ==
    ASSUME Next
    PROVE  \/ net' = net
           \/ /\ SendData
              /\ net' = net \cup {[msg |-> sNextMsg, gen |-> Head(r2s).gen, xfer |-> xfer]}
  BY NextIs, ReceiverFrame, FailureFrame
     DEF SenderActs, SendOffer, SendOfferFails, SendData, SendDataFails, SendSkipsStale, StreamStart,
         SendPoll, SendPollUnconnected, SendWaitFails, Reconnect, Deliver

\* Message ids are allocated by answering a CTS, and start again at 0.
LEMMA NextMsgStays ==
    ASSUME Base, Next, ~SendData, ~SendDataFails
    PROVE  sNextMsg' = sNextMsg \/ (sNextMsg' = 0 /\ SenderRestarts)
  BY NextIs, ReceiverFrame, StreamFails
     DEF SenderActs, SendOffer, SendOfferFails, SendSkipsStale, SendPoll,
         SendPollUnconnected, SendWaitFails, Failures, Break, SenderRestarts, ReceiverRestart,
         Reconnect, Deliver

\* Generation 1 is message 0.
LEMMA FirstMessageNext ==
    ASSUME Base, Base', FirstMessage, Next
    PROVE  FirstMessage'
  <1> SUFFICES ASSUME sameProcess'
               PROVE  /\ \A d \in net' : d.gen < generation' /\ (d.gen = 1 => d.msg = 0)
                      /\ (generation' = 1 \/ (generation' = 2 /\ Answering')) => sNextMsg' = 0
    BY DEF FirstMessage
  <1>1. /\ sameProcess /\ generation' >= generation /\ (generation' # generation => RecvOffer)
        /\ generation \in 1 .. MaxTransfers + 1 /\ generation' \in Int
    <2>1. sameProcess /\ generation' >= generation /\ (generation' # generation => RecvOffer)
      BY InTimeStays
    <2>2. generation \in 1 .. MaxTransfers + 1 /\ generation' \in 1 .. MaxTransfers + 1
      BY DEF Base, TypeOK
    <2> QED
      BY <2>1, <2>2, RendezvousAssumption
  <1>2. \A d \in net' : d.gen < generation' /\ (d.gen = 1 => d.msg = 0)
    <2> SUFFICES ASSUME NEW d \in net'
                 PROVE  d.gen < generation' /\ (d.gen = 1 => d.msg = 0)
      OBVIOUS
    <2>1. CASE d \in net
      <3>1. d.gen < generation /\ (d.gen = 1 => d.msg = 0) /\ d.gen \in Int
        BY <1>1, <2>1 DEF FirstMessage, Base, TypeOK
      <3> QED
        BY <1>1, <3>1
    <2>2. CASE SendData /\ d = [msg |-> sNextMsg, gen |-> Head(r2s).gen, xfer |-> xfer]
      <3>1. d.gen = generation - 1 /\ Answering
        BY <1>1, <2>2, ReadingCts
      <3>2. d.gen < generation'
        BY <1>1, <3>1
      <3>3. d.gen = 1 => generation = 2
        BY <1>1, <3>1
      <3> QED
        BY <1>1, <2>2, <3>1, <3>2, <3>3 DEF FirstMessage
    <2> QED
      BY NetGrows, <2>1, <2>2
  <1>3. ASSUME generation' = 1 \/ (generation' = 2 /\ Answering')
        PROVE  sNextMsg' = 0
    <2>1. CASE SendData \/ SendDataFails
      <3>1. generation' = generation /\ ~Answering' /\ generation - 1 \in 1 .. MaxTransfers
        BY <1>1, <2>1, ReadingCts
      <3> QED
        BY <1>1, <1>3, <3>1
    <2>2. CASE RecvOffer
      <3>1. generation' = generation + 1 /\ sNextMsg' = sNextMsg
        BY <2>2 DEF RecvOffer
      <3>2. generation = 1
        BY <1>1, <1>3, <3>1
      <3> QED
        BY <1>1, <3>1, <3>2 DEF FirstMessage
    <2>3. CASE ~(SendData \/ SendDataFails \/ RecvOffer)
      <3>1. generation' = generation /\ (Answering' => Answering)
        BY <1>1, <2>3, AnsweringStays
      <3> QED
        BY <1>1, <1>3, <2>3, <3>1, NextMsgStays DEF FirstMessage
    <2> QED
      BY <2>1, <2>2, <2>3
  <1> QED
    BY <1>2, <1>3

\* Both ends allocate message ids in step.
LEMMA AlignedNext ==
    ASSUME Base, Base', Aligned, Next
    PROVE  Aligned'
  <1> DEFINE N == MsgIdSpace
  <1> SUFFICES ASSUME breaks' = 0
               PROVE  /\ \A d \in net' : d.msg = (d.gen - 1) % N
                      /\ \/ Answering' /\ sNextMsg' = (generation' - 2) % N
                         \/ ~Answering' /\ sNextMsg' = (generation' - 1) % N
                         \/ Stuck'
    BY DEF Aligned
  <1>1. /\ breaks = 0 /\ up /\ sConn /\ sameProcess
        /\ generation \in Int /\ generation >= 1 /\ r2s \in Queue
    <2>1. breaks = 0 /\ up /\ sConn /\ sameProcess
      BY InTimeStays DEF Base, Links
    <2> QED
      BY <2>1 DEF Base, TypeOK, Queue
  <1>2. CASE SendData \/ SendDataFails
    <2>1. /\ sNextMsg = (generation - 2) % N /\ Head(r2s).gen = generation - 1
          /\ generation - 1 \in 1 .. MaxTransfers /\ ~Answering'
          /\ sNextMsg' = NextMsgId(sNextMsg) /\ generation' = generation
      BY <1>1, <1>2, ReadingCts DEF Aligned
    <2>2. (generation - 1) - 1 = generation - 2 /\ generation - 1 \in Int /\ generation - 1 >= 1
      BY <1>1, <2>1
    <2>3. sNextMsg' = (generation' - 1) % N
      BY <2>1, <2>2, NextIdCounts
    <2>4. \A d \in net' : d.msg = (d.gen - 1) % N
      BY <1>1, <2>1, <2>2, NetGrows DEF Aligned
    <2> QED
      BY <2>1, <2>3, <2>4
  <1>3. CASE ~(SendData \/ SendDataFails)
    <2>1. net' = net /\ sNextMsg' = sNextMsg
      <3>1. ~SenderRestarts
        BY <1>1, RendezvousAssumption DEF SenderRestarts, Fails
      <3> QED
        BY <1>3, <3>1, NetGrows, NextMsgStays
    <2>2. CASE RecvOffer
      <3>1. ~Stuck /\ ~Answering
        BY <2>2 DEF RecvOffer, Stuck, Answering, Base, Turns
      <3>2. Answering' /\ generation' = generation + 1
        BY <2>2 DEF RecvOffer, Answering
      <3>3. (generation + 1) - 2 = generation - 1
        BY <1>1
      <3> QED
        BY <1>1, <2>1, <3>1, <3>2, <3>3 DEF Aligned
    <2>3. CASE RecvStartFails
      <3>1. Stuck'
        BY <1>1, <2>3 DEF RecvStartFails, Stuck, Base, Turns
      <3> QED
        BY <1>1, <2>1, <3>1 DEF Aligned
    <2>4. CASE ~RecvOffer /\ ~RecvStartFails
      <3>1. generation' = generation
        BY <1>1, <2>4, InTimeStays DEF Base, Links
      <3>2. Answering => Answering'
        <4>1. CASE RecvStart
          BY <4>1 DEF RecvStart, Answering
        <4>2. CASE RecvSendCts
          <5>1. r2s' = Append(r2s, Message("CTS", ctsGen, 0))
            BY <1>1, <4>2 DEF RecvSendCts, CtsSent, Sent
          <5>2. Message("CTS", ctsGen, 0) \in ControlMessages /\ Message("CTS", ctsGen, 0).type = "CTS"
            BY RendezvousAssumption DEF Message, ControlMessages, Base, TypeOK
          <5> QED
            BY <1>1, <5>1, <5>2, Appended DEF Answering
        <4>3. CASE RecvAccept \/ RecvComplete \/ PumpAck
          BY <1>1, <4>3 DEF RecvAccept, RecvComplete, PumpAck, Answering, Base, Turns
        <4>4. CASE RecvWaitFails \/ Failures \/ Reconnect
          BY <1>1, <4>4, RendezvousAssumption
             DEF RecvWaitFails, Failures, Break, SenderRestarts, ReceiverRestart, Fails, Reconnect
        <4>5. CASE \E d \in net : Deliver(d)
          BY <4>5 DEF Deliver, Answering
        <4>6. CASE SenderActs
          <5>1. rpc' = rpc
            BY <4>6, SenderFrame
          <5>2. r2s' = r2s \/ (r2s # <<>> /\ Head(r2s).type # "CTS" /\ r2s' = Tail(r2s))
            BY <1>3, <4>6, StreamFails
               DEF SenderActs, SendOffer, SendOfferFails, SendSkipsStale, AfterStale, SendPoll, SendPollUnconnected, SendWaitFails
          <5>3. Has(r2s, "CTS") => Has(r2s', "CTS")
            BY <1>1, <5>2, Taken
          <5> QED
            BY <5>1, <5>3 DEF Answering
        <4> QED
          BY NextIs, <2>4, <4>1, <4>2, <4>3, <4>4, <4>5, <4>6 DEF ReceiverActs
      <3>3. Answering' => Answering
        BY <2>4, AnsweringStays
      <3>4. Stuck => Stuck'
        <4>1. CASE SenderActs \/ Failures
          BY <4>1, StuckStays
        <4>2. CASE ReceiverActs
          BY <1>1, <2>4, <4>2 DEF ReceiverActs, RecvStart, RecvSendCts, RecvAccept, RecvWaitFails,
             RecvComplete, PumpAck, Stuck
        <4>3. CASE Reconnect \/ \E d \in net : Deliver(d)
          BY <1>1, <4>3 DEF Reconnect, Deliver, Stuck
        <4> QED
          BY NextIs, <4>1, <4>2, <4>3
      <3> QED
        BY <1>1, <2>1, <3>1, <3>2, <3>3, <3>4 DEF Aligned
    <2> QED
      BY <2>2, <2>3, <2>4
  <1> QED
    BY <1>2, <1>3

\* The steps that do not touch the table.
LEMMA TableStays ==
    ASSUME Next, ~RecvOffer, ~RecvComplete, ~Reconnect
    PROVE  slots' = slots /\ slotGen' = slotGen
  BY NextIs, SenderFrame, FailureFrame
     DEF ReceiverActs, RecvStart, RecvStartFails, RecvSendCts, RecvAccept, RecvWaitFails, PumpAck,
         Deliver

\* Retiring a slot keeps whose it was.
LEMMA RetiringKeeps ==
    ASSUME Base, RecvComplete
    PROVE  /\ slotGen' = slotGen
           /\ \A m \in MsgIds : /\ slots'[m].gen = slots[m].gen /\ slots'[m].xfer = slots[m].xfer
                                /\ slots'[m].state # "NULL_STATE" <=> slots[m].state # "NULL_STATE"
  <1>1. slots \in [MsgIds -> [state : {"NULL_STATE", "ACTIVE", "DEAD"},
                              gen : 0 .. MaxTransfers, xfer : 0 .. MaxTransfers]]
        /\ cur \in MsgIds
    BY DEF Base, TypeOK
  <1>2. slots[cur].state = "ACTIVE"
    BY DEF RecvComplete, Base, Table
  <1> DEFINE s == SlotRetired(slots[cur])
  <1>3. s.state = "DEAD" /\ s.gen = slots[cur].gen /\ s.xfer = slots[cur].xfer
    BY <1>1 DEF SlotRetired
  <1>4. slots' = [slots EXCEPT ![cur] = s] /\ slotGen' = slotGen
    BY DEF RecvComplete
  <1> HIDE DEF s
  <1> QED
    BY <1>1, <1>2, <1>3, <1>4

\* What RecvOffer does to the table, before message ids wrap around.
LEMMA OfferInFirstRound ==
    ASSUME Base, FirstRound, RecvOffer, sameProcess, generation <= MsgIdSpace
    PROVE  /\ rNextMsg = generation - 1 /\ slotGen[rNextMsg] = 1
           /\ generation \in Int /\ generation >= 1 /\ rNextMsg \in MsgIds
  <1>1. generation \in Int /\ generation >= 1 /\ MsgIdSpace \in Nat \ {0}
    BY RendezvousAssumption DEF Base, TypeOK
  <1>2. (generation - 1) % MsgIdSpace = generation - 1
    BY <1>1
  <1>3. rNextMsg = generation - 1 /\ rNextMsg \in MsgIds
    BY <1>2 DEF Base, Counts, TypeOK
  <1>4. generation <= MsgIdSpace + 1 /\ rNextMsg >= generation - 1
    BY <1>1, <1>3
  <1> QED
    BY <1>1, <1>3, <1>4 DEF FirstRound

\* Every slot is used once before message ids wrap around.
LEMMA FirstRoundNext ==
    ASSUME Base, Base', FirstRound, Next
    PROVE  FirstRound'
  <1> SUFFICES ASSUME sameProcess', generation' <= MsgIdSpace + 1
               PROVE  /\ \A m \in MsgIds :
                           /\ m >= generation' - 1 =>
                                 slots'[m].state = "NULL_STATE" /\ slotGen'[m] = 1
                           /\ slots'[m].state # "NULL_STATE" => slots'[m].gen = 1
                      /\ (breaks' = 0 /\ generation' >= 2) => slotGen'[0] = 2
    BY DEF FirstRound
  <1>0. /\ generation \in Int /\ generation >= 1 /\ generation' \in Int /\ MsgIdSpace \in Nat \ {0}
        /\ MsgIds \subseteq Int /\ 0 \in MsgIds
    BY RendezvousAssumption DEF Base, TypeOK, MsgIds
  <1>1. sameProcess /\ (breaks' = 0 => breaks = 0) /\ (generation' # generation => RecvOffer)
    BY InTimeStays
  <1>2. generation <= MsgIdSpace + 1
    <2>1. generation' >= generation
      BY InTimeStays
    <2> QED
      BY <1>0, <2>1
  <1>3. CASE RecvOffer
    <2> DEFINE n == rNextMsg
    <2>1. generation' = generation + 1 /\ breaks' = breaks
      BY <1>3 DEF RecvOffer
    <2>2. generation <= MsgIdSpace
      BY <1>0, <2>1
    <2>3. n = generation - 1 /\ slotGen[n] = 1 /\ n \in MsgIds
      BY <1>1, <1>3, <2>2, OfferInFirstRound
    <2>4. /\ slots'[n].state = "ACTIVE" /\ slots'[n].gen = 1 /\ slotGen'[n] = 2
          /\ \A m \in MsgIds \ {n} : slots'[m] = slots[m] /\ slotGen'[m] = slotGen[m]
      BY <1>3, <2>3 DEF RecvOffer, Base, TypeOK
    <2>5. \A m \in MsgIds : m >= generation' - 1 => m # n /\ m >= generation - 1
      BY <1>0, <2>1, <2>3
    <2>6. \A m \in MsgIds :
             /\ m >= generation' - 1 => slots'[m].state = "NULL_STATE" /\ slotGen'[m] = 1
             /\ slots'[m].state # "NULL_STATE" => slots'[m].gen = 1
      BY <1>1, <1>2, <2>4, <2>5 DEF FirstRound
    <2>7. breaks = 0 => slotGen'[0] = 2
      <3>1. CASE generation = 1
        BY <2>3, <2>4, <3>1
      <3>2. CASE generation >= 2
        <4>1. n # 0
          BY <1>0, <2>3, <3>2
        <4> QED
          BY <1>0, <1>1, <1>2, <2>4, <3>2, <4>1 DEF FirstRound
      <3> QED
        BY <1>0, <3>1, <3>2
    <2> QED
      BY <2>1, <2>6, <2>7
  <1>4. CASE Reconnect
    <2>1. breaks # 0 /\ breaks' = breaks
      BY <1>4 DEF Reconnect, Base, Links
    <2>2. \A m \in MsgIds : slots'[m].state = "NULL_STATE" /\ slotGen'[m] = 1
      BY <1>4 DEF Reconnect, EmptyTable, NoSlot, FirstGenerations
    <2> QED
      BY <2>1, <2>2
  <1>5. CASE RecvComplete
    <2>1. generation' = generation
      BY <1>5 DEF RecvComplete
    <2> QED
      BY <1>1, <1>2, <1>5, <2>1, RetiringKeeps DEF FirstRound
  <1>6. CASE ~RecvOffer /\ ~RecvComplete /\ ~Reconnect
    BY <1>1, <1>2, <1>6, TableStays DEF FirstRound
  <1> QED
    BY <1>3, <1>4, <1>5, <1>6

\* A datagram's generation is that of another transfer's slot only too late.
LEMMA MatchNext ==
    ASSUME Base, Base', Identity, Separate, Next
    PROVE  Match'
  <1> USE DEF Separate
  <1> SUFFICES ASSUME InTime', NEW d \in net',
                      slots'[d.msg].state # "NULL_STATE", slots'[d.msg].gen = d.gen
               PROVE  slots'[d.msg].xfer = d.xfer
    BY DEF Match
  <1>0. /\ generation \in Int /\ generation >= 1 /\ generation' \in Int /\ MsgIdSpace \in Nat \ {0}
        /\ d.msg \in MsgIds /\ d.gen \in Int /\ d.gen >= 1
    BY RendezvousAssumption DEF Base, TypeOK
  <1>1. sameProcess /\ (breaks' = 0 => breaks = 0) /\ generation' >= generation
    BY InTimeStays DEF InTime
  <1>2. InTime
    <2>1. generation' <= MsgIdSpace + (IF breaks' = 0 THEN 2 ELSE 1)
      BY DEF InTime
    <2>2. generation <= MsgIdSpace + (IF breaks = 0 THEN 2 ELSE 1)
      BY <1>0, <1>1, <2>1
    <2> QED
      BY <1>1, <2>2 DEF InTime
  <1>3. CASE SendData
    <2>1. /\ slots' = slots /\ Head(r2s).gen = generation - 1 /\ Answering /\ Has(r2s, "CTS")
          /\ spc = "await_cts" /\ (up => ~Stuck)
      BY <1>1, <1>3, ReadingCts
    <2>2. CASE d \in net
      BY <1>2, <2>1, <2>2 DEF Match
    <2>3. CASE d = [msg |-> sNextMsg, gen |-> Head(r2s).gen, xfer |-> xfer]
      <3>1. d.msg = sNextMsg /\ d.gen = generation - 1 /\ d.xfer = xfer
        BY <2>1, <2>3
      <3>2. slots[cur].xfer = xfer /\ generation >= 2
        BY <1>0, <2>1, <3>1 DEF Identity
      <3>3. sNextMsg = cur
        <4>1. CASE generation <= MsgIdSpace + 1
          <5>1. slots[d.msg].gen = 1
            BY <1>0, <1>1, <2>1, <4>1 DEF FirstRound
          <5>2. generation = 2
            BY <1>0, <2>1, <3>1, <5>1
          <5>3. sNextMsg = 0
            BY <1>1, <2>1, <5>2 DEF FirstMessage
          <5>4. (generation - 2) % MsgIdSpace = 0
            BY <1>0, <5>2
          <5>5. cur = 0
            BY <1>1, <3>2, <5>4 DEF Base, Counts
          <5> QED
            BY <5>3, <5>5
        <4>2. CASE ~(generation <= MsgIdSpace + 1)
          <5>1. breaks = 0
            BY <1>0, <1>2, <4>2 DEF InTime
          <5>2. sNextMsg = (generation - 2) % MsgIdSpace
            BY <2>1, <5>1 DEF Aligned, Base, Links
          <5> QED
            BY <1>1, <3>2, <5>2 DEF Base, Counts
        <4> QED
          BY <4>1, <4>2
      <3> QED
        BY <2>1, <3>1, <3>2, <3>3
    <2> QED
      BY <1>3, <2>2, <2>3, NetGrows
  <1>4. CASE RecvOffer
    <2> DEFINE n == rNextMsg
    <2>1. net' = net /\ generation' = generation + 1 /\ breaks' = breaks
      BY <1>4 DEF RecvOffer
    <2>2. n \in MsgIds /\ slots'[n].gen = slotGen[n] /\ \A m \in MsgIds \ {n} : slots'[m] = slots[m]
      BY <1>4 DEF RecvOffer, Base, TypeOK
    <2>3. d \in net /\ d.gen < generation /\ (d.gen = 1 => d.msg = 0)
      BY <1>1, <2>1 DEF FirstMessage
    <2>4. CASE d.msg # n
      BY <1>0, <1>2, <2>2, <2>3, <2>4 DEF Match
    <2>5. CASE d.msg = n
      <3>1. d.gen = slotGen[n]
        BY <2>2, <2>5
      <3>2. CASE generation <= MsgIdSpace
        <4>1. n = generation - 1 /\ slotGen[n] = 1
          BY <1>1, <1>4, <3>2, OfferInFirstRound
        <4>2. generation = 1
          BY <1>0, <2>3, <2>5, <3>1, <4>1
        <4> QED
          BY <1>0, <2>3, <4>2
      <3>3. CASE ~(generation <= MsgIdSpace)
        <4>1. breaks = 0 /\ generation = MsgIdSpace + 1
          <5>1. generation' <= MsgIdSpace + (IF breaks' = 0 THEN 2 ELSE 1)
            BY DEF InTime
          <5> QED
            BY <1>0, <2>1, <3>3, <5>1
        <4>2. slotGen[0] = 2
          BY <1>0, <1>1, <4>1 DEF FirstRound
        <4>3. n = 0
          <5>1. (generation - 1) % MsgIdSpace = 0
            BY <1>0, <4>1
          <5> QED
            BY <5>1 DEF Base, Counts
        <4>4. d.gen = 2 /\ d.msg = 0
          BY <2>5, <3>1, <4>2, <4>3
        <4>5. (2 - 1) % MsgIdSpace = 0
          BY <2>3, <4>1, <4>4 DEF Aligned
        <4>6. MsgIdSpace = 1
          BY <1>0, <4>5
        <4> QED
          BY <1>0, <2>3, <4>1, <4>4, <4>6
      <3> QED
        BY <3>2, <3>3
    <2> QED
      BY <2>4, <2>5
  <1>5. CASE Reconnect
    BY <1>0, <1>5 DEF Reconnect, EmptyTable, NoSlot
  <1>6. CASE RecvComplete
    <2>1. net' = net
      BY <1>6 DEF RecvComplete
    <2> QED
      BY <1>0, <1>2, <1>6, <2>1, RetiringKeeps DEF Match
  <1>7. CASE ~RecvOffer /\ ~RecvComplete /\ ~Reconnect /\ ~SendData
    BY <1>2, <1>7, NetGrows, TableStays DEF Match
  <1> QED
    BY <1>3, <1>4, <1>5, <1>6, <1>7

\* What is written is of the slot's transfer.
LEMMA NoCrossTalkNext ==
    ASSUME Base, Base', Match, NoCrossTalk, Next
    PROVE  NoCrossTalk'
  <1> SUFFICES ASSUME InTime', NEW x \in Transfers
               PROVE  buf'[x] \in {0, x}
    BY DEF NoCrossTalk, InTime
  <1>1. InTime
    <2>0. generation \in Int /\ generation' \in Int /\ MsgIdSpace \in Nat
      BY RendezvousAssumption DEF Base, TypeOK
    <2>1. sameProcess /\ (breaks' = 0 => breaks = 0) /\ generation' >= generation
      BY InTimeStays DEF InTime
    <2>2. generation' <= MsgIdSpace + (IF breaks' = 0 THEN 2 ELSE 1)
      BY DEF InTime
    <2>3. generation <= MsgIdSpace + (IF breaks = 0 THEN 2 ELSE 1)
      BY <2>0, <2>1, <2>2
    <2> QED
      BY <2>1, <2>3 DEF InTime
  <1>2. buf[x] \in {0, x}
    BY <1>1 DEF NoCrossTalk, InTime
  <1>3. CASE \E d \in net : Deliver(d)
    <2>1. PICK d \in net : Deliver(d)
      BY <1>3
    <2>2. /\ buf' = [buf EXCEPT ![slots[d.msg].xfer] = d.xfer]
          /\ slots[d.msg].state = "ACTIVE" /\ slots[d.msg].gen = d.gen
      BY <2>1 DEF Deliver, Admits
    <2>3. slots[d.msg].xfer = d.xfer
      BY <1>1, <2>2 DEF Match
    <2>4. buf \in [Transfers -> 0 .. MaxTransfers]
      BY DEF Base, TypeOK
    <2> QED
      BY <1>2, <2>2, <2>3, <2>4
  <1>4. CASE SenderActs \/ ReceiverActs \/ Failures \/ Reconnect
    BY <1>2, <1>4, SenderFrame, ReceiverFrame, FailureFrame DEF Reconnect
  <1> QED
    BY NextIs, <1>3, <1>4

-----------------------------------------------------------------------------
(* Theorems *)

\* The initial state.
LEMMA InitInv == Init => IInv
  <1> SUFFICES ASSUME Init PROVE IInv
    OBVIOUS
  <1>1. Base
    BY InitBase
  <1>2. /\ \A t : ~Has(r2s, t) /\ ~Has(s2r, t)
        /\ \A m \in MsgIds : slots[m].state = "NULL_STATE" /\ slotGen[m] = 1
    BY EmptyQueue DEF Init, EmptyTable, NoSlot, FirstGenerations
  <1>3. ActiveSlots /\ Identity /\ Verdicts
    BY <1>2 DEF Init, ActiveSlots, Identity, Verdicts
  <1>4. VerdictMatches /\ NoCrossTalk
    BY DEF Init, VerdictMatches, NoCrossTalk
  <1>5. FirstMessage /\ Match
    BY DEF Init, FirstMessage, Match
  <1>6. Aligned
    <2>1. (1 - 1) % MsgIdSpace = 0
      BY RendezvousAssumption
    <2> QED
      BY <1>2, <2>1 DEF Init, Aligned, Answering
  <1>7. FirstRound
    BY <1>2 DEF Init, FirstRound
  <1> QED
    BY <1>1, <1>3, <1>4, <1>5, <1>6, <1>7 DEF IInv, Matching, Separate

\* No step leaves the invariant.
LEMMA NextInv == IInv /\ [Next]_vars => IInv'
  <1> SUFFICES ASSUME IInv, [Next]_vars PROVE IInv'
    OBVIOUS
  <1>1. Base'
    BY NextBase DEF IInv
  <1>2. CASE Next
    <2>1. Matching'
      BY <1>1, <1>2, ActiveNext, IdentityNext, VerdictsNext, VerdictMatchesNext DEF IInv, Matching
    <2>2. Separate'
      BY <1>1, <1>2, FirstMessageNext, AlignedNext, FirstRoundNext, MatchNext, NoCrossTalkNext
         DEF IInv, Matching, Separate
    <2> QED
      BY <1>1, <2>1, <2>2 DEF IInv
  <1>3. CASE UNCHANGED vars
    <2>1. Matching'
      BY <1>3 DEF vars, IInv, Matching, ActiveSlots, Identity, Verdicts, VerdictMatches, Stuck
    <2>2. FirstMessage' /\ Aligned' /\ FirstRound'
      BY <1>3 DEF vars, IInv, Separate, FirstMessage, Aligned, FirstRound, Answering, Stuck
    <2>3. Match' /\ NoCrossTalk'
      BY <1>3 DEF vars, IInv, Separate, Match, NoCrossTalk, InTime
    <2> QED
      BY <1>1, <2>1, <2>2, <2>3 DEF IInv, Separate
  <1> QED
    BY <1>2, <1>3

\* The inductive invariant holds throughout.
THEOREM Invariance == Spec => []IInv
  BY InitInv, NextInv, PTL DEF Spec

\* Types, with generations and message ids within the number of transfers.
THEOREM TypeCorrect == Spec => []TypeOK
  <1>1. IInv => TypeOK
    BY DEF IInv, Base
  <1> QED
    BY <1>1, Invariance, PTL

\* No buffer receives another transfer's datagram, as long as NoCrossTalk says.
THEOREM BuffersAreTheirOwn == Spec => []NoCrossTalk
  <1>1. IInv => NoCrossTalk
    BY DEF IInv, Separate
  <1> QED
    BY <1>1, Invariance, PTL

\* On an unbroken connection sdr_send_poll's success is its own transfer's.
THEOREM VerdictsAreTheirOwn == Spec => []VerdictMatches
  <1>1. IInv => VerdictMatches
    BY DEF IInv, Matching
  <1> QED
    BY <1>1, Invariance, PTL

\* allocate_message_slot never refuses.
THEOREM SlotsAlwaysSuffice == Spec => []SlotsSuffice
  <1>1. IInv => SlotsSuffice
    <2> SUFFICES ASSUME IInv, rpc = "idle", rConn, s2r # <<>>
                 PROVE  SlotFree(rNextMsg)
      BY DEF SlotsSuffice
    <2>1. rNextMsg \in MsgIds /\ slotGen[rNextMsg] \in Int /\ slots[rNextMsg].gen \in Int
          /\ generation \in Int
      BY DEF IInv, Base, TypeOK
    <2>2. slots[rNextMsg].state # "ACTIVE"
      BY <2>1 DEF IInv, Matching, ActiveSlots, Stuck
    <2>3. slots[rNextMsg].state = "DEAD" =>
             slots[rNextMsg].gen < slotGen[rNextMsg] /\ slotGen[rNextMsg] <= generation
      BY <2>1 DEF IInv, Base, Table
    <2> QED
      BY <2>1, <2>2, <2>3 DEF SlotFree
  <1> QED
    BY <1>1, Invariance, PTL

\* No CTS is left for the next sdr_send_post, nor for sdr_send_stream_start.
THEOREM NoCtsBetweenTransfers == Spec => []NoStaleCts
  <1>1. IInv => NoStaleCts
    BY DEF IInv, Base, Turns, Has, NoStaleCts
  <1> QED
    BY <1>1, Invariance, PTL

-----------------------------------------------------------------------------
(* Nobody waits in vain *)

\* What a waiting side waits for is on its way, or the other side is about to
\* send it.
Pending ==
    /\ up /\ Has(s2r, "ACCEPT") => rpc = "await_accept"
    /\ (up /\ udp # "broken") =>
          /\ spc = "await_cts" =>
                 Has(s2r, "OFFER") \/ rpc \in {"starting", "send_cts"} \/ Has(r2s, "CTS")
          /\ rpc = "await_accept" => Has(r2s, "CTS") \/ Has(s2r, "ACCEPT")
          /\ spc = "polling" =>
                 Has(s2r, "ACCEPT") \/ rpc \in {"receiving", "acked"} \/ r2s # <<>>

\* The head of what the sender has written.
LEMMA HeadOfS2r ==
    ASSUME NEW q \in Queue, NEW x, S2rOk(q, x)
    PROVE  /\ \A t : Has(q, t) => q # <<>>
           /\ Has(q, "ACCEPT") => Head(q).type = "ACCEPT"
           /\ q # <<>> => Head(q).type \in {"OFFER", "ACCEPT"} /\ ~Has(Tail(q), "ACCEPT")
  <1>1. \A t : Has(q, t) => q # <<>>
    BY EmptyQueue
  <1>2. Has(q, "ACCEPT") => q[1].type = "ACCEPT"
    BY DEF Has, S2rOk
  <1>3. ASSUME q # <<>>
        PROVE  Head(q) = q[1] /\ 1 \in DOMAIN q /\ Tail(q) \in Queue
               /\ \A i \in DOMAIN Tail(q) : Tail(q)[i] = q[i + 1] /\ i + 1 \in DOMAIN q /\ i + 1 # 1
    BY <1>3 DEF Queue
  <1> QED
    BY <1>1, <1>2, <1>3 DEF Has, S2rOk

\* Every step keeps a message or a turn for whoever waits.
LEMMA PendingNext ==
    ASSUME Base, Pending, Next
    PROVE  Pending'
  <1>0. s2r \in Queue /\ r2s \in Queue /\ S2rOk(s2r, xfer) /\ R2sOk(r2s) /\ Turns /\ Links
        /\ ctsGen \in 0 .. MaxTransfers /\ xfer \in 0 .. MaxTransfers
    BY DEF Base, TypeOK, Queues, Queue
  <1>1. CASE ~up'
    BY <1>1 DEF Pending
  <1>2. CASE Reconnect
    BY <1>2, EmptyQueue DEF Reconnect, Connected, Pending
  <1> SUFFICES ASSUME up', ~Reconnect PROVE Pending'
    BY <1>1, <1>2
  <1>3. up /\ sConn /\ rConn /\ ~Failures /\ (SenderActs \/ ReceiverActs \/ \E d \in net : Deliver(d))
    <2>1. ~Failures
      BY DEF Failures, Break, SenderRestarts, ReceiverRestart, Fails
    <2>2. SenderActs \/ ReceiverActs \/ \E d \in net : Deliver(d)
      BY <2>1, NextIs
    <2>3. up' = up
      BY <2>2, SenderFrame, ReceiverFrame DEF Deliver
    <2> QED
      BY <1>0, <2>1, <2>2, <2>3 DEF Links
  <1>4. CASE SendOffer
    <2>1. Message("OFFER", 0, xfer') \in ControlMessages /\ Message("OFFER", 0, xfer').type = "OFFER"
      BY <1>0, <1>4, RendezvousAssumption DEF SendOffer, Message, ControlMessages
    <2>2. s2r' = Append(s2r, Message("OFFER", 0, xfer')) /\ spc' = "await_cts"
          /\ UNCHANGED <<rpc, udp, r2s, up>>
      BY <1>3, <1>4 DEF SendOffer, Sent
    <2>3. \A t : Has(s2r', t) <=> Has(s2r, t) \/ "OFFER" = t
      BY <1>0, <2>1, <2>2, Appended
    <2> QED
      BY <2>2, <2>3 DEF Pending
  <1>5. CASE SendData \/ SendDataFails
    <2> DEFINE m == Message("ACCEPT", Head(r2s).gen, xfer)
    <2>1. /\ r2s # <<>> /\ Head(r2s).type = "CTS" /\ s2r' = Append(s2r, m)
          /\ spc' \in {"polling", "idle"} /\ UNCHANGED <<rpc, udp, up>>
      BY <1>3, <1>5 DEF SendData, SendDataFails, SendReturns, Accepting, Sent
    <2>2. Has(r2s, "CTS") /\ Head(r2s) \in ControlMessages
      BY <1>0, <2>1, Taken
    <2>3. rpc = "await_accept"
      BY <1>0, <1>3, <2>2 DEF Turns
    <2>4. m \in ControlMessages /\ m.type = "ACCEPT"
      BY <1>0, <2>2 DEF Message, ControlMessages
    <2> HIDE DEF m
    <2>5. Has(s2r', "ACCEPT")
      BY <1>0, <2>1, <2>4, Appended
    <2> QED
      BY <2>1, <2>3, <2>5 DEF Pending
  <1>6. CASE SendSkipsStale \/ StreamStart \/ SendPoll
    <2>1. /\ r2s' = r2s \/ (r2s # <<>> /\ r2s' = Tail(r2s) /\ Head(r2s).type # "CTS")
          /\ spc' # "polling" /\ (spc' = "await_cts" => spc = "await_cts")
          /\ UNCHANGED <<s2r, rpc, udp, up>>
      <3>1. CASE StreamStart
        BY <1>0, <3>1, StreamFails DEF StreamStart
      <3>2. CASE SendSkipsStale \/ SendPoll
        BY <3>2 DEF SendSkipsStale, AfterStale, SendPoll, SendReturns
      <3> QED
        BY <1>6, <3>1, <3>2
    <2>2. Has(r2s, "CTS") => Has(r2s', "CTS")
      BY <1>0, <2>1, Taken
    <2> QED
      BY <2>1, <2>2 DEF Pending
  <1>7. ~(SendOfferFails \/ SendPollUnconnected \/ SendWaitFails \/ RecvWaitFails)
    BY <1>3 DEF SendOfferFails, SendPollUnconnected, SendWaitFails, SenderReadsEnd, RecvWaitFails
  <1>8. CASE RecvOffer
    <2>1. /\ rpc = "idle" /\ s2r # <<>> /\ Head(s2r).type = "OFFER" /\ s2r' = Tail(s2r)
          /\ rpc' = "starting" /\ UNCHANGED <<spc, udp, up, r2s>>
      BY <1>8 DEF RecvOffer
    <2>2. Has(s2r, "OFFER") /\ (Has(s2r', "ACCEPT") => Has(s2r, "ACCEPT"))
      BY <1>0, <2>1, Taken
    <2>3. spc = "await_cts"
      BY <1>0, <1>3, <2>2 DEF Turns
    <2> QED
      BY <1>3, <2>1, <2>2, <2>3 DEF Pending
  <1>9. CASE RecvStart \/ RecvStartFails
    <2>1. /\ rpc = "starting" /\ UNCHANGED <<spc, up, s2r, r2s>>
          /\ \/ rpc' = "send_cts" /\ (udp' # "broken" => udp # "broken")
             \/ rpc' = "idle" /\ udp' = "broken"
      BY <1>9 DEF RecvStart, RecvStartFails
    <2>2. spc = "await_cts"
      BY <1>0, <1>3, <2>1 DEF Turns
    <2> QED
      BY <1>3, <2>1, <2>2 DEF Pending
  <1>10. CASE RecvSendCts
    <2>1. Message("CTS", ctsGen, 0) \in ControlMessages /\ Message("CTS", ctsGen, 0).type = "CTS"
      BY <1>0, RendezvousAssumption DEF Message, ControlMessages
    <2>2. /\ rpc = "send_cts" /\ rpc' = "await_accept" /\ UNCHANGED <<spc, up, udp, s2r>>
          /\ r2s' = Append(r2s, Message("CTS", ctsGen, 0))
      BY <1>3, <1>10 DEF RecvSendCts, CtsSent, Sent
    <2>3. Has(r2s', "CTS")
      BY <1>0, <2>1, <2>2, Appended
    <2>4. spc = "await_cts"
      BY <1>0, <1>3, <2>2 DEF Turns
    <2> QED
      BY <2>2, <2>3, <2>4 DEF Pending
  <1>11. CASE RecvAccept
    <2>1. /\ rpc = "await_accept" /\ s2r # <<>> /\ Head(s2r).type = "ACCEPT" /\ s2r' = Tail(s2r)
          /\ rpc' = "receiving" /\ UNCHANGED <<spc, up, udp, r2s>>
      BY <1>11 DEF RecvAccept
    <2>2. ~Has(s2r', "ACCEPT")
      BY <1>0, <2>1, HeadOfS2r
    <2>3. Has(s2r, "OFFER") => Has(s2r', "OFFER")
      BY <1>0, <2>1, Taken
    <2> QED
      BY <2>1, <2>2, <2>3 DEF Pending
  <1>12. CASE PumpAck \/ RecvComplete
    <2>1. PICK t \in {"COMPLETE_ACK", "INCOMPLETE_NACK"} : r2s' = Append(r2s, Message(t, 0, 0))
      BY <1>3, <1>12 DEF PumpAck, RecvComplete, Sent
    <2>2. Message(t, 0, 0) \in ControlMessages
      BY RendezvousAssumption DEF Message, ControlMessages
    <2>3. r2s' # <<>> /\ (Has(r2s, "CTS") => Has(r2s', "CTS"))
      <3>1. Has(r2s', Message(t, 0, 0).type) /\ (Has(r2s, "CTS") => Has(r2s', "CTS"))
        BY <1>0, <2>1, <2>2, Appended
      <3> QED
        BY <3>1, EmptyQueue
    <2>4. rpc \in {"receiving", "acked"} /\ rpc' \in {"idle", "acked"} /\ UNCHANGED <<spc, up, udp, s2r>>
      BY <1>12 DEF PumpAck, RecvComplete
    <2> QED
      BY <1>3, <2>3, <2>4 DEF Pending
  <1>13. CASE \E d \in net : Deliver(d)
    BY <1>13 DEF Deliver, Pending
  <1> QED
    BY <1>3, <1>4, <1>5, <1>6, <1>7, <1>8, <1>9, <1>10, <1>11, <1>12, <1>13
    DEF SenderActs, ReceiverActs

\* On a working connection there is always a message to read or a step to take
\* for one of the two while a post or a poll waits: the handshake does not
\* deadlock, for any number of transfers, failures and restarts.
THEOREM NobodyWaitsInVain == Spec => []NoMutualWait
  <1>1. Init => Pending
    BY EmptyQueue DEF Init, Pending
  <1>2. IInv /\ Pending /\ [Next]_vars => Pending'
    <2>1. Pending /\ UNCHANGED vars => Pending'
      BY DEF vars, Pending
    <2> QED
      BY <2>1, PendingNext DEF IInv
  <1>3. IInv /\ Pending => NoMutualWait
    <2> SUFFICES ASSUME IInv, Pending, up, udp # "broken", spc # "idle" \/ rpc = "await_accept",
                        rpc \notin {"starting", "send_cts", "receiving", "acked"}
                 PROVE  NoMutualWait
      BY DEF NoMutualWait
    <2>1. /\ s2r \in Queue /\ r2s \in Queue /\ S2rOk(s2r, xfer) /\ Turns /\ sConn
          /\ rpc \in {"idle", "await_accept"} /\ spc \in {"idle", "await_cts", "polling"}
      BY DEF IInv, Base, TypeOK, Queues, Queue, Links
    <2>2. /\ \A t : Has(s2r, t) => s2r # <<>>
          /\ Has(s2r, "ACCEPT") => Head(s2r).type = "ACCEPT"
          /\ s2r # <<>> => Head(s2r).type \in {"OFFER", "ACCEPT"}
                            /\ Has(s2r, Head(s2r).type)
      BY <2>1, HeadOfS2r, Taken
    <2>3. /\ Has(r2s, "CTS") => spc = "await_cts" /\ r2s # <<>>
          /\ r2s # <<>> => Has(r2s, Head(r2s).type)
      BY <2>1, EmptyQueue, Taken DEF Turns
    <2>4. CASE rpc = "await_accept"
      BY <2>2, <2>3, <2>4 DEF Pending, NoMutualWait
    <2>5. CASE rpc = "idle"
      <3>1. ~Has(s2r, "ACCEPT")
        BY <2>5 DEF Pending
      <3>2. CASE spc = "await_cts"
        BY <2>2, <2>3, <2>5, <3>1, <3>2 DEF Pending, NoMutualWait
      <3>3. CASE spc = "polling"
        BY <2>3, <2>5, <3>1, <3>3 DEF Pending, NoMutualWait
      <3> QED
        BY <2>1, <2>5, <3>2, <3>3
    <2> QED
      BY <2>1, <2>4, <2>5
  <1> QED
    BY <1>1, <1>2, <1>3, Invariance, PTL DEF Spec

-----------------------------------------------------------------------------
(* Results are final *)

\* A transfer has no result before its post or poll returns.
Open ==
    /\ \A x \in Transfers : x > xfer => result[x] = "none"
    /\ spc # "idle" => result[xfer] = "none"

\* What sdr_send_post or sdr_send_poll returned for a transfer is never
\* overwritten by a later one, although the sender's process may end in the
\* middle of a transfer and start again.
ResultsFinal == [][\A x \in Transfers : result[x] # "none" => result'[x] = result[x]]_vars

\* Only the transfer in hand gets a result.
LEMMA OpenNext ==
    ASSUME IInv, Open, [Next]_vars
    PROVE  Open' /\ \A x \in Transfers : result[x] # "none" => result'[x] = result[x]
  <1>0. /\ result \in [Transfers -> {"none", "0", "-1"}] /\ xfer \in 0 .. MaxTransfers
        /\ (spc # "idle" => xfer >= 1) /\ MaxTransfers \in Nat
    BY RendezvousAssumption DEF IInv, Base, TypeOK, Counts
  <1>1. CASE SendOffer
    <2>1. xfer' = xfer + 1 /\ result' = result /\ xfer' \in Transfers
      BY <1>0, <1>1 DEF SendOffer, Transfers
    <2> QED
      BY <1>0, <2>1 DEF Open, Transfers
  <1>2. CASE SendOfferFails
    <2>1. xfer' = xfer + 1 /\ spc' = "idle" /\ xfer + 1 \in Transfers
          /\ result' = [result EXCEPT ![xfer + 1] = "-1"]
      BY <1>0, <1>2 DEF SendOfferFails, SendReturns, Transfers
    <2>2. result[xfer + 1] = "none"
      BY <1>0, <2>1 DEF Open
    <2> QED
      BY <1>0, <2>1, <2>2 DEF Open, Transfers
  <1>3. CASE SendDataFails \/ SendPoll \/ SendPollUnconnected \/ SendWaitFails
    <2>1. /\ spc # "idle" /\ spc' = "idle" /\ xfer' = xfer
          /\ \E r : result' = [result EXCEPT ![xfer] = r]
      BY <1>3 DEF SendDataFails, SendPoll, SendPollUnconnected, SendWaitFails, SendReturns
    <2>2. xfer \in Transfers /\ result[xfer] = "none"
      BY <1>0, <2>1 DEF Open, Transfers
    <2> QED
      BY <1>0, <2>1, <2>2 DEF Open, Transfers
  <1>4. CASE UNCHANGED <<xfer, result>> /\ (spc' # "idle" => spc # "idle")
    BY <1>4 DEF Open
  <1>5. CASE SendData \/ SendSkipsStale \/ StreamStart
    BY <1>4, <1>5 DEF SendData, SendSkipsStale, StreamStart
  <1>6. CASE ReceiverActs
    BY <1>4, <1>6, ReceiverFrame
  <1>7. CASE Failures
    <2>1. spc' # "idle" => spc # "idle"
      BY <1>7 DEF Failures, Break, SenderRestarts, ReceiverRestart
    <2> QED
      BY <1>4, <1>7, <2>1, FailureFrame
  <1>8. CASE Reconnect \/ (\E d \in net : Deliver(d)) \/ UNCHANGED vars
    BY <1>4, <1>8 DEF Reconnect, Deliver, vars
  <1> QED
    BY <1>1, <1>2, <1>3, <1>5, <1>6, <1>7, <1>8, NextIs DEF SenderActs

\* Each transfer has at most one result, for any number of them and whatever
\* fails and restarts in between.
THEOREM ResultsAreFinal == Spec => ResultsFinal
  <1>1. Init => Open
    BY DEF Init, Open
  <1>2. IInv /\ Open /\ [Next]_vars
          => Open' /\ [\A x \in Transfers : result[x] # "none" => result'[x] = result[x]]_vars
    BY OpenNext
  <1> QED
    BY <1>1, <1>2, Invariance, PTL DEF Spec, ResultsFinal
=============================================================================
