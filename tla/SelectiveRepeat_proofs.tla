----------------------- MODULE SelectiveRepeat_proofs -----------------------
(***************************************************************************)
(* Proofs about SelectiveRepeat for any number of chunks, any window and   *)
(* any limits of the control messages.                                     *)
(***************************************************************************)
EXTENDS SelectiveRepeat, FiniteSetTheorems, TLAPS

USE DEF senderVars, receiverVars

\* Loops over chunk ids only pick chunks they range over.
LEMMA FirstFewSubset ==
    ASSUME NEW S, NEW n
    PROVE  FirstFew(S, n) \subseteq S
  BY DEF FirstFew

\* An interval below the number of chunks holds only chunks.
LEMMA IntervalOfChunks ==
    ASSUME NEW a \in 0 .. TotalChunks, NEW b \in 0 .. TotalChunks
    PROVE  a .. b - 1 \subseteq Chunks
  <1>1. TotalChunks \in Nat
    BY SRAssumption
  <1> QED
    BY <1>1 DEF Chunks

\* What the sender resends are chunks of the message.
LEMMA ResendsAreChunks ==
    ASSUME NEW m \in Messages, NEW known
    PROVE  Resends(m, known) \subseteq Chunks
  <1>1. Named(m) \subseteq Chunks \X Chunks
    BY DEF Named
  <1>2. GapResends(m, known) \subseteq Chunks
    BY <1>1 DEF GapResends
  <1>3. MissingResends(known, GapResends(m, known)) \subseteq Chunks
    BY FirstFewSubset DEF MissingResends
  <1> QED
    BY <1>2, <1>3 DEF Resends

\* The gaps a message lists are of the message's type.
LEMMA GapsAreTyped ==
    ASSUME NEW S, NEW room
    PROVE  ListedGaps(S, room) \in SUBSET [at : Chunks, start : Nat, len : Nat]
  <1> DEFINE missing == Chunks \ S
             runUpTo(c) == {d \in missing : d .. c \subseteq missing /\ d <= c}
             starts == {c \in missing : Cardinality(runUpTo(c)) % FieldSpace = 1 % FieldSpace}
             length(c) == Cardinality({d \in c .. c + FieldSpace - 2 : c .. d \subseteq missing})
  <1>1. ListedGaps(S, room) =
          {[at |-> c, start |-> c % FieldSpace, len |-> length(c)] : c \in FirstFew(starts, room)}
    BY DEF ListedGaps
  <1>2. FirstFew(starts, room) \subseteq Chunks
    BY FirstFewSubset
  <1>3. ASSUME NEW c \in Chunks PROVE c % FieldSpace \in Nat /\ length(c) \in Nat
    <2>1. c \in Nat /\ c + FieldSpace - 2 \in Int
      BY SRAssumption DEF Chunks
    <2>2. IsFiniteSet(c .. c + FieldSpace - 2)
      BY <2>1, FS_Interval
    <2>3. IsFiniteSet({d \in c .. c + FieldSpace - 2 : c .. d \subseteq missing})
      BY <2>2, FS_Subset
    <2>4. length(c) \in Nat
      BY <2>3, FS_CardinalityType
    <2> QED
      BY <2>1, <2>4, SRAssumption
  <1> HIDE DEF length, starts
  <1> QED
    BY <1>1, <1>2, <1>3

\* The number of complete chunks is at most the number of chunks.
LEMMA CountInRange ==
    ASSUME NEW S \in SUBSET Chunks
    PROVE  Cardinality(S) \in 0 .. TotalChunks
  <1>1. TotalChunks \in Nat \ {0}
    BY SRAssumption
  <1>2. IsFiniteSet(Chunks) /\ Cardinality(Chunks) = TotalChunks
    BY <1>1, FS_Interval DEF Chunks
  <1>3. Cardinality(S) \in Nat /\ Cardinality(S) <= TotalChunks
    BY <1>2, FS_Subset, FS_CardinalityType
  <1> QED
    BY <1>1, <1>3

\* Counting the complete chunks tells whether all of them are.
LEMMA CountIsAll ==
    ASSUME NEW S \in SUBSET Chunks, AllCounted(S)
    PROVE  S = Chunks
  <1>1. TotalChunks \in Nat \ {0}
    BY SRAssumption
  <1>2. IsFiniteSet(Chunks) /\ Cardinality(Chunks) = TotalChunks
    BY <1>1, FS_Interval DEF Chunks
  <1>3. Cardinality(S) = Cardinality(Chunks)
    BY <1>1, <1>2, CountInRange DEF AllCounted
  <1> QED
    BY <1>2, <1>3, FS_Subset

\* The window stays within the message.
LEMMA WindowInRange ==
    ASSUME NEW base \in 0 .. TotalChunks, nextChunk \in 0 .. TotalChunks
    PROVE  WindowEnd(base) \in 0 .. TotalChunks
  <1>1. Window \in Nat
    BY SRAssumption DEF Window
  <1> QED
    BY <1>1, SRAssumption DEF WindowEnd

\* Reading the head of a queue of messages.
LEMMA QueueFacts ==
    ASSUME NEW q \in Seq(Messages), q # <<>>
    PROVE  /\ Head(q) \in Messages /\ Head(q) = q[1] /\ 1 \in DOMAIN q
           /\ Tail(q) \in Seq(Messages)
           /\ \A i \in DOMAIN Tail(q) : Tail(q)[i] = q[i + 1] /\ i + 1 \in DOMAIN q
  OBVIOUS

-----------------------------------------------------------------------------
(* The inductive invariant *)

\* What a control message claims is true of the receiver when it is read.
MessageTrue(m) ==
    /\ m.bitmap \subseteq shown
    /\ 0 .. m.prefix - 1 \subseteq shown
    /\ m.type = "COMPLETE_ACK" => shown = Chunks

QueueTrue == \A i \in DOMAIN ctrl : MessageTrue(ctrl[i])

SuccessTrue == ret = "0" /\ ~hungUp /\ FieldsSuffice => shown = Chunks

Inv == TypeOK /\ AcksSound /\ QueueTrue /\ SuccessTrue /\ seen \subseteq shown

\* A chunk that arrives makes nothing false.
LEMMA QueueStaysTrue ==
    ASSUME Inv, shown \subseteq shown', shown' \subseteq Chunks, ctrl' \in Seq(Messages),
           \A i \in DOMAIN ctrl' : \/ \E j \in DOMAIN ctrl : ctrl'[i] = ctrl[j]
                                   \/ MessageTrue(ctrl'[i])
    PROVE  QueueTrue'
  BY DEF Inv, QueueTrue, MessageTrue

\* Taking a message off the queue.
LEMMA ReceivedFacts ==
    ASSUME TypeOK, NEW t, Received(t)
    PROVE  /\ ctrl' \in Seq(Messages)
           /\ Head(ctrl) \in Messages /\ Head(ctrl).type = t
           /\ 1 \in DOMAIN ctrl /\ Head(ctrl) = ctrl[1]
           /\ \A i \in DOMAIN ctrl' : \E j \in DOMAIN ctrl : ctrl'[i] = ctrl[j]
  BY QueueFacts DEF Received, TypeOK

\* Putting a message on the queue.
LEMMA SendFacts ==
    ASSUME TypeOK, NEW m \in Messages, Send(m)
    PROVE  /\ ctrl' \in Seq(Messages)
           /\ \A i \in DOMAIN ctrl' : ctrl'[i] = m \/ \E j \in DOMAIN ctrl : ctrl'[i] = ctrl[j]
  <1>1. ctrl \in Seq(Messages)
    BY DEF TypeOK
  <1>2. CASE ctrl' = ctrl
    BY <1>1, <1>2
  <1>3. CASE ctrl' = Append(ctrl, m)
    <2>1. DOMAIN ctrl' = 1 .. Len(ctrl) + 1 /\ DOMAIN ctrl = 1 .. Len(ctrl) /\ Len(ctrl) \in Nat
      BY <1>1, <1>3
    <2>2. \A i \in 1 .. Len(ctrl) : ctrl'[i] = ctrl[i]
      BY <1>1, <1>3
    <2>3. ctrl'[Len(ctrl) + 1] = m
      BY <1>1, <1>3
    <2>4. \A i \in DOMAIN ctrl' : i \in DOMAIN ctrl \/ i = Len(ctrl) + 1
      BY <2>1
    <2> QED
      BY <1>1, <1>3, <2>1, <2>2, <2>3, <2>4
  <1> QED
    BY <1>2, <1>3 DEF Send

\* The invariant holds initially.
LEMMA InvInit == Init => Inv
  <1> SUFFICES ASSUME Init PROVE Inv
    OBVIOUS
  <1>1. ctrl \in Seq(Messages) /\ DOMAIN ctrl = {}
    BY DEF Init
  <1>2. hungUp \in BOOLEAN /\ timedOut \in BOOLEAN
    BY Zenon DEF Init
  <1> QED
    BY <1>1, <1>2, SRAssumption DEF Init, Inv, TypeOK, AcksSound, QueueTrue, SuccessTrue, Chunks

\* A step of the network preserves the invariant.
LEMMA NetworkStep ==
    ASSUME Inv, NEW c \in Chunks, Arrive(c) \/ Lose(c) \/ GuardExpires(c)
    PROVE  Inv'
  <1>1. TypeOK'
    BY DEF Inv, TypeOK, Arrive, Lose, GuardExpires
  <1>2. shown \subseteq shown' /\ shown' \subseteq Chunks /\ ctrl' = ctrl
    BY DEF Inv, TypeOK, Arrive, Lose, GuardExpires
  <1>3. QueueTrue'
    BY <1>1, <1>2, QueueStaysTrue DEF TypeOK
  <1>4. UNCHANGED <<acked, ackBase, ret, hungUp, seen>>
    BY DEF Arrive, Lose, GuardExpires
  <1>5. AcksSound' /\ seen' \subseteq shown'
    BY <1>2, <1>4 DEF Inv, AcksSound
  <1>6. SuccessTrue'
    BY <1>2, <1>4 DEF Inv, SuccessTrue, TypeOK
  <1> QED
    BY <1>1, <1>3, <1>5, <1>6 DEF Inv

\* An SR_ACK that ends poll acknowledges every chunk, when their number fits
\* the 16-bit field it is compared with.
LEMMA SrAckIsTrue ==
    ASSUME TypeOK, FieldsSuffice, NEW m \in Messages, MessageTrue(m), SrAckEnds(m)
    PROVE  shown = Chunks
  <1>1. TotalField = TotalChunks
    BY SRAssumption DEF TotalField, FieldsSuffice
  <1>2. m.prefix \in 0 .. TotalChunks /\ TotalChunks \in Nat
    BY SRAssumption DEF Messages
  <1>3. m.prefix = TotalChunks
    BY <1>1, <1>2 DEF SrAckEnds
  <1> QED
    BY <1>3 DEF MessageTrue, Chunks, TypeOK

\* Handling an SR_NACK or an SR_ACK preserves the invariant.
LEMMA AcknowledgePreserves ==
    ASSUME Inv, NEW t, Received(t), NEW resent \in SUBSET Chunks,
           Acknowledge(Head(ctrl), AckedAfter(Head(ctrl)), resent),
           UNCHANGED <<timedOut, rpc, counted, seen, shown, hungUp>>,
           \/ UNCHANGED <<spc, ret>>
           \/ spc' = "done" /\ ret' = "0" /\ (FieldsSuffice => shown = Chunks)
    PROVE  Inv'
  <1> USE DEF Inv
  <1> DEFINE m == Head(ctrl)
  <1>1. /\ ctrl' \in Seq(Messages) /\ m \in Messages /\ MessageTrue(m)
        /\ \A i \in DOMAIN ctrl' : \E j \in DOMAIN ctrl : ctrl'[i] = ctrl[j]
    BY ReceivedFacts DEF QueueTrue
  <1>2. /\ acked' = AckedAfter(m)
        /\ ackBase' = IF m.prefix > ackBase THEN m.prefix ELSE ackBase
        /\ nextChunk' = WindowEnd(ackBase')
        /\ \E sent : /\ sent = resent \cup ((nextChunk .. nextChunk' - 1) \ AckedAfter(m))
                     /\ net' = net \cup sent /\ recent' = recent \cup sent
    BY DEF Acknowledge, Transmitted
  <1> HIDE DEF m
  <1>3. m.prefix \in 0 .. TotalChunks /\ m.bitmap \subseteq Chunks
    BY <1>1 DEF Messages
  <1>4. 0 .. m.prefix - 1 \subseteq shown /\ m.bitmap \subseteq shown
    BY <1>1 DEF MessageTrue
  <1>5. ackBase' \in 0 .. TotalChunks
    BY <1>2, <1>3 DEF TypeOK
  <1>6. nextChunk' \in 0 .. TotalChunks
    BY <1>2, <1>5, WindowInRange DEF TypeOK
  <1>7. nextChunk .. nextChunk' - 1 \subseteq Chunks
    BY <1>6, IntervalOfChunks DEF TypeOK
  <1>8. net' \subseteq Chunks /\ recent' \subseteq Chunks
    BY <1>2, <1>7 DEF TypeOK
  <1>9. acked' \subseteq shown'
    BY <1>2, <1>4 DEF AckedAfter, AcksSound
  <1>10. 0 .. ackBase' - 1 \subseteq acked'
    BY <1>2, <1>3 DEF AckedAfter, AcksSound, TypeOK
  <1>11. TypeOK'
    BY <1>1, <1>2, <1>5, <1>6, <1>8, <1>9 DEF TypeOK
  <1>12. QueueTrue'
    BY <1>1, QueueStaysTrue DEF TypeOK
  <1>13. SuccessTrue'
    BY DEF SuccessTrue
  <1> QED
    BY <1>9, <1>10, <1>11, <1>12, <1>13 DEF AcksSound

\* A step of the sender preserves the invariant.
LEMMA SenderPreserves ==
    ASSUME Inv, SenderStep \/ ControlTimeout
    PROVE  Inv'
  <1> USE DEF Inv
  <1>1. CASE StartSend
    <2>1. Window \in Nat
      BY SRAssumption DEF Window
    <2>2. nextChunk' \in 0 .. TotalChunks
      BY <1>1, <2>1, SRAssumption DEF StartSend
    <2>3. 0 .. nextChunk' - 1 \subseteq Chunks
      BY <2>2, SRAssumption, IntervalOfChunks, 0 \in 0 .. TotalChunks
    <2> QED
      BY <1>1, <2>2, <2>3 DEF StartSend, Transmitted, TypeOK, AcksSound, QueueTrue, MessageTrue, SuccessTrue
  <1>2. CASE HandleNack
    <2>1. Head(ctrl) \in Messages
      BY <1>2, ReceivedFacts DEF HandleNack
    <2>2. Resends(Head(ctrl), AckedAfter(Head(ctrl))) \in SUBSET Chunks
      BY <2>1, ResendsAreChunks
    <2> QED
      BY <1>2, <2>2, AcknowledgePreserves DEF HandleNack
  <1>7. CASE HandleSrAck
    <2> DEFINE m == Head(ctrl)
    <2>1. m \in Messages /\ MessageTrue(m)
      BY <1>7, ReceivedFacts DEF HandleSrAck, QueueTrue
    <2>2. MissingResends(AckedAfter(m), {}) \in SUBSET Chunks
      BY FirstFewSubset DEF MissingResends
    <2>3. \/ UNCHANGED <<spc, ret>>
          \/ spc' = "done" /\ ret' = "0" /\ (FieldsSuffice => shown = Chunks)
      BY <1>7, <2>1, SrAckIsTrue DEF HandleSrAck, Return
    <2> QED
      BY <1>7, <2>2, <2>3, AcknowledgePreserves DEF HandleSrAck
  <1>3. CASE HandleComplete \/ SendPollCompletes
    <2>1. Received("COMPLETE_ACK")
      BY <1>3 DEF HandleComplete, SendPollCompletes
    <2>2. shown = Chunks
      BY <2>1, ReceivedFacts DEF QueueTrue, MessageTrue
    <2>3. UNCHANGED <<acked, ackBase, nextChunk, recent, timedOut, rpc, counted, seen, shown, net, hungUp>>
          /\ spc' = "done" /\ ret' = "0"
      BY <1>3 DEF HandleComplete, SendPollCompletes, Return
    <2>4. ctrl' \in Seq(Messages) /\ QueueTrue'
      BY <2>1, <2>3, ReceivedFacts, QueueStaysTrue DEF TypeOK
    <2> QED
      BY <2>2, <2>3, <2>4 DEF TypeOK, AcksSound, SuccessTrue
  <1>4. CASE HandleIncomplete \/ SendPollSkips \/ (SendPollFails /\ ctrl' # ctrl)
    <2>1. PICK t : Received(t)
      BY <1>4 DEF HandleIncomplete, SendPollSkips, SendPollFails
    <2>2. UNCHANGED <<acked, ackBase, nextChunk, recent, timedOut, rpc, counted, seen, shown, net, hungUp>>
          /\ spc' \in {"done", "rto", spc} /\ ret' \in {"-1", ret}
      BY <1>4 DEF HandleIncomplete, SendPollSkips, SendPollFails, Return, IncompleteReturns
    <2>3. ctrl' \in Seq(Messages) /\ QueueTrue'
      BY <2>1, <2>2, ReceivedFacts, QueueStaysTrue DEF TypeOK
    <2> QED
      BY <2>2, <2>3 DEF TypeOK, AcksSound, SuccessTrue
  <1>5. CASE ConnectionClosed \/ ControlTimeout \/ (SendPollFails /\ ctrl' = ctrl)
    <2>1. UNCHANGED <<acked, ackBase, nextChunk, recent, rpc, counted, seen, shown, net, hungUp, ctrl>>
      BY <1>5 DEF ConnectionClosed, ControlTimeout, SendPollFails
    <2>2. spc' \in {"done", "rto", "send_poll"} /\ (ret' = ret \/ (ret' = "0" /\ hungUp))
      BY <1>5 DEF ConnectionClosed, ControlTimeout, SendPollFails, Return
    <2>3. QueueTrue'
      BY <2>1 DEF QueueTrue, MessageTrue
    <2>6. timedOut' \in BOOLEAN
      BY <1>5 DEF ConnectionClosed, ControlTimeout, SendPollFails, TypeOK
    <2>4. TypeOK' /\ AcksSound' /\ seen' \subseteq shown'
      BY <2>1, <2>2, <2>6 DEF TypeOK, AcksSound
    <2>5. SuccessTrue'
      BY <2>1, <2>2 DEF SuccessTrue
    <2> QED
      BY <2>3, <2>4, <2>5
  <1>6. CASE RtoResend
    BY <1>6 DEF RtoResend, Transmitted, TypeOK, AcksSound, QueueTrue, MessageTrue, SuccessTrue
  <1> QED
    BY <1>1, <1>2, <1>3, <1>4, <1>5, <1>6, <1>7 DEF SenderStep

\* What pump sends is true of the chunks that are complete then.
LEMMA PumpIsTrue ==
    ASSUME Inv, PumpSends
    PROVE  \E m \in Messages : Send(m) /\ MessageTrue(m) /\ m.type # "INCOMPLETE_NACK"
  <1>0. TypeOK
    BY DEF Inv
  <1>1. PICK bits \in SUBSET shown, first \in SUBSET shown, again \in SUBSET shown,
             gaps \in SUBSET shown, done \in SUBSET shown, cum \in SUBSET shown,
             n \in 0 .. TotalChunks, room \in 0 .. MaxGaps :
           /\ IsPrefix(n, cum)
           /\ Send(PumpMessage(PumpType(first, again, done), n, bits, ListedGaps(gaps, room)))
    BY Zenon DEF PumpSends, SubsetsBetween
  <1>2. CASE PumpType(first, again, done) = "COMPLETE_ACK"
    <2>1. AllCounted(done)
      BY <1>2 DEF PumpType
    <2>2. shown = Chunks
      BY <1>0, <2>1, CountIsAll DEF TypeOK
    <2>3. Verdict("COMPLETE_ACK") \in Messages /\ MessageTrue(Verdict("COMPLETE_ACK"))
          /\ Verdict("COMPLETE_ACK").type # "INCOMPLETE_NACK"
      BY <2>2, SRAssumption DEF Verdict, Report, Messages, MessageTrue
    <2> QED
      BY <1>1, <1>2, <2>3 DEF PumpMessage
  <1>3. CASE PumpType(first, again, done) # "COMPLETE_ACK"
    <2> DEFINE type == PumpType(first, again, done)
               listed == ListedGaps(gaps, room)
               m == Report(type, n, bits \cap 0 .. BitmapCap - 1, listed)
    <2>1. type \in {"SR_NACK", "SR_ACK"}
      BY <1>3 DEF PumpType
    <2>2. listed \in SUBSET [at : Chunks, start : Nat, len : Nat]
      BY GapsAreTyped
    <2>3. 0 .. n - 1 \subseteq shown
      BY <1>1 DEF IsPrefix
    <2>4. Send(m)
      BY <1>1, <1>3 DEF PumpMessage
    <2> HIDE DEF type, listed
    <2>5. m \in Messages
      BY <1>0, <1>1, <2>1, <2>2 DEF Report, Messages, TypeOK
    <2>6. MessageTrue(m) /\ m.type # "INCOMPLETE_NACK"
      BY <1>1, <2>1, <2>3 DEF Report, MessageTrue
    <2> QED
      BY <2>4, <2>5, <2>6
  <1> QED
    BY <1>2, <1>3

\* A step of the receiver preserves the invariant: each scan of a pump sees
\* chunks that are complete, and stay so until the message is read.
LEMMA ReceiverPreserves ==
    ASSUME Inv, ReceiverStep \/ PumpSkips \/ GiveUp
    PROVE  Inv'
  <1> USE DEF Inv
  <1>1. CASE ReadProgress \/ PumpSkips \/ PumpStarts \/ GiveUp \/ HangUp
    <2>1. counted' \in 0 .. TotalChunks
      BY <1>1, CountInRange DEF ReadProgress, PumpSkips, PumpStarts, GiveUp, HangUp, TypeOK
    <2>2. TypeOK'
      BY <1>1, <2>1 DEF ReadProgress, PumpSkips, PumpStarts, GiveUp, HangUp, TypeOK
    <2> QED
      BY <1>1, <2>2 DEF ReadProgress, PumpSkips, PumpStarts, GiveUp, HangUp,
          AcksSound, QueueTrue, MessageTrue, SuccessTrue, TypeOK
  <1>2. ASSUME NEW m \in Messages, Send(m), MessageTrue(m), seen' \in {seen, {}},
               rpc' \in {"complete", "read", "closing"},
               UNCHANGED <<senderVars, counted, shown, net, hungUp>>
        PROVE  Inv'
    <2>1. ctrl' \in Seq(Messages) /\ QueueTrue'
      <3>1. ctrl' \in Seq(Messages)
            /\ \A i \in DOMAIN ctrl' : ctrl'[i] = m \/ \E j \in DOMAIN ctrl : ctrl'[i] = ctrl[j]
        BY <1>2, SendFacts
      <3> QED
        BY <1>2, <3>1, QueueStaysTrue DEF TypeOK
    <2> QED
      BY <1>2, <2>1 DEF TypeOK, AcksSound, SuccessTrue
  <1>3. CASE PumpSends
    <2>1. PICK m \in Messages : Send(m) /\ MessageTrue(m)
      BY <1>3, PumpIsTrue
    <2>2. seen' = {} /\ rpc' \in {"complete", "read"}
          /\ UNCHANGED <<senderVars, counted, shown, net, hungUp>>
      BY <1>3 DEF PumpSends, AfterPump
    <2> QED
      BY <1>2, <2>1, <2>2
  <1>4. CASE Complete
    <2>1. Verdict(CompletionType) \in Messages /\ MessageTrue(Verdict(CompletionType))
      BY SRAssumption DEF CompletionType, Verdict, Report, Messages, MessageTrue
    <2> QED
      BY <1>2, <1>4, <2>1 DEF Complete
  <1> QED
    BY <1>1, <1>3, <1>4 DEF ReceiverStep

\* The invariant is inductive.
LEMMA InvStep == Inv /\ [Next]_vars => Inv'
  <1> SUFFICES ASSUME Inv, [Next]_vars PROVE Inv'
    OBVIOUS
  <1>1. CASE UNCHANGED vars
    BY <1>1 DEF vars, Inv, TypeOK, AcksSound, QueueTrue, MessageTrue, SuccessTrue
  <1> QED
    BY <1>1, NetworkStep, SenderPreserves, ReceiverPreserves DEF Next

-----------------------------------------------------------------------------
(* The verdict the receiver leaves behind *)

\* A receiver that stopped short of completion has left INCOMPLETE_NACK as the
\* last message of the queue, and only a sender that timed out reads past it.
VerdictPending ==
    (rpc \in {"closing", "closed"} /\ spc # "done" /\ ~timedOut /\ shown # Chunks)
        => Len(ctrl) > 0 /\ ctrl[Len(ctrl)].type = "INCOMPLETE_NACK"

VerdictInv ==
    /\ ~timedOut => spc \notin {"send_poll", "rto"}
    /\ hungUp => rpc = "closed"
    /\ ret # "none" => spc = "done"
    /\ VerdictPending
    /\ SuccessMeansComplete

\* Reading a message other than INCOMPLETE_NACK leaves the last one in place.
LEMMA LastStays ==
    ASSUME TypeOK, NEW t, Received(t), t # "INCOMPLETE_NACK",
           Len(ctrl) > 0, ctrl[Len(ctrl)].type = "INCOMPLETE_NACK"
    PROVE  Len(ctrl') > 0 /\ ctrl'[Len(ctrl')].type = "INCOMPLETE_NACK"
  <1>1. ctrl \in Seq(Messages) /\ ctrl # <<>> /\ ctrl[1].type = t /\ ctrl' = Tail(ctrl)
    BY QueueFacts DEF TypeOK, Received
  <1>2. Len(ctrl) # 1
    BY <1>1
  <1>3. Len(ctrl') = Len(ctrl) - 1 /\ \A i \in 1 .. Len(ctrl') : ctrl'[i] = ctrl[i + 1]
    BY <1>1
  <1>4. Len(ctrl') \in Nat \ {0} /\ Len(ctrl') + 1 = Len(ctrl)
    BY <1>1, <1>2, <1>3
  <1> QED
    BY <1>3, <1>4

\* Every step preserves it: sdr_recv_complete sends the verdict before the
\* connection closes and after polling has stopped.
LEMMA VerdictStep == Inv /\ VerdictInv /\ [Next]_vars => VerdictInv'
  <1> SUFFICES ASSUME Inv, VerdictInv, [Next]_vars PROVE VerdictInv'
    OBVIOUS
  <1> USE DEF VerdictInv, VerdictPending, SuccessMeansComplete
  <1>0. TypeOK
    BY DEF Inv
  <1>1. CASE UNCHANGED vars
    BY <1>1 DEF vars
  <1>2. ASSUME NEW c \in Chunks, Arrive(c) \/ Lose(c) \/ GuardExpires(c)
        PROVE  VerdictInv'
    <2>1. CASE Arrive(c)
      <3>1. rpc \notin {"closing", "closed"} /\ UNCHANGED <<spc, ret, timedOut, rpc, hungUp>>
            /\ shown' = shown \cup {c}
        BY <2>1 DEF Arrive
      <3>2. shown = Chunks => shown' = Chunks
        BY <1>2, <3>1
      <3> QED
        BY <3>1, <3>2
    <2>2. CASE Lose(c) \/ GuardExpires(c)
      BY <2>2 DEF Lose, GuardExpires
    <2> QED
      BY <1>2, <2>1, <2>2
  <1>3. CASE StartSend
    BY <1>3 DEF StartSend
  <1>4. CASE HandleNack
    <2>1. Received("SR_NACK") /\ UNCHANGED <<spc, ret, timedOut, rpc, shown, hungUp>>
      BY <1>4 DEF HandleNack
    <2> QED
      BY <1>0, <2>1, LastStays
  <1>13. CASE HandleSrAck
    <2> DEFINE m == Head(ctrl)
    <2>1. Received("SR_ACK") /\ UNCHANGED <<timedOut, rpc, shown, hungUp>>
      BY <1>13 DEF HandleSrAck
    <2>2. m \in Messages /\ MessageTrue(m)
      BY <1>0, <2>1, ReceivedFacts DEF Inv, QueueTrue
    <2>3. CASE UNCHANGED <<spc, ret>>
      BY <1>0, <2>1, <2>3, LastStays
    <2>4. CASE SrAckEnds(m) /\ spc' = "done"
      BY <1>0, <2>1, <2>2, <2>4, SrAckIsTrue
    <2> QED
      BY <1>13, <2>3, <2>4 DEF HandleSrAck, Return
  <1>5. CASE HandleComplete \/ SendPollCompletes
    <2>1. Received("COMPLETE_ACK") /\ UNCHANGED <<timedOut, rpc, shown, hungUp>> /\ spc' = "done"
      BY <1>5 DEF HandleComplete, SendPollCompletes, Return
    <2>2. shown = Chunks
      BY <1>0, <2>1, ReceivedFacts DEF Inv, QueueTrue, MessageTrue
    <2> QED
      BY <2>1, <2>2
  <1>6. CASE HandleIncomplete
    BY <1>6 DEF HandleIncomplete, Return, IncompleteReturns
  <1>7. CASE ConnectionClosed
    <2>1. ctrl = <<>> /\ hungUp /\ spc = "poll"
          /\ UNCHANGED <<timedOut, rpc, shown, hungUp>> /\ spc' = "done"
      BY <1>7 DEF ConnectionClosed, Return
    <2>2. ~(Len(ctrl) > 0)
      BY <2>1
    <2> QED
      BY <2>1, <2>2
  <1>8. CASE ControlTimeout
    BY <1>8 DEF ControlTimeout
  <1>9. CASE SendPollSkips \/ SendPollFails \/ RtoResend
    <2>1. timedOut /\ UNCHANGED <<ret, timedOut, rpc, shown, hungUp>> /\ spc # "done"
      BY <1>9 DEF SendPollSkips, SendPollFails, RtoResend
    <2> QED
      BY <2>1
  <1>10. CASE ReadProgress \/ PumpSkips \/ PumpStarts \/ GiveUp \/ HangUp
    BY <1>10 DEF ReadProgress, PumpSkips, PumpStarts, GiveUp, HangUp
  <1>11. CASE PumpSends
    <2>1. rpc = "scan" /\ rpc' \in {"complete", "read"} /\ UNCHANGED <<senderVars, shown, hungUp>>
      BY <1>11 DEF PumpSends, AfterPump
    <2> QED
      BY <2>1
  <1>12. CASE Complete
    <2>1. /\ rpc = "complete" /\ rpc' = "closing" /\ UNCHANGED <<senderVars, shown, hungUp>>
          /\ spc # "done" /\ shown # Chunks => ctrl' = Append(ctrl, Verdict("INCOMPLETE_NACK"))
      BY <1>12 DEF Complete, CompletionType, Send
    <2>2. Verdict("INCOMPLETE_NACK") \in Messages /\ Verdict("INCOMPLETE_NACK").type = "INCOMPLETE_NACK"
      BY SRAssumption DEF Verdict, Report, Messages
    <2>3. spc # "done" /\ shown # Chunks =>
             Len(ctrl') > 0 /\ ctrl'[Len(ctrl')].type = "INCOMPLETE_NACK"
      BY <1>0, <2>1, <2>2 DEF TypeOK
    <2> QED
      BY <2>1, <2>3
  <1> QED
    BY <1>1, <1>2, <1>3, <1>4, <1>5, <1>6, <1>7, <1>8, <1>9, <1>10, <1>11, <1>12, <1>13
    DEF Next, SenderStep, ReceiverStep

-----------------------------------------------------------------------------
(* The theorems *)

\* The invariant holds in every reachable state.
THEOREM Invariance == Spec => []Inv
  BY InvInit, InvStep, PTL DEF Spec

\* Type correctness of the Selective Repeat layer.
THEOREM TypeCorrect == Spec => []TypeOK
  <1>1. Inv => TypeOK
    BY DEF Inv
  <1> QED
    BY <1>1, Invariance, PTL

\* The sender's acknowledged chunks and ack_base_ never run ahead of the
\* receiver's chunk bitmap, for any message, window and message limits.
THEOREM AcksAreSound == Spec => []AcksSound
  <1>1. Inv => AcksSound
    BY DEF Inv
  <1> QED
    BY <1>1, Invariance, PTL

\* Until the receiver hangs up, success at the sender means that the receiver
\* has every chunk, if their number fits 16 bits; a COMPLETE_ACK always does.
THEOREM CompletionIsSound == Spec => []CompletionSound
  <1>1. Inv => CompletionSound
    BY DEF Inv, CompletionSound, SuccessTrue, QueueTrue, MessageTrue
  <1> QED
    BY <1>1, Invariance, PTL

\* poll returns success only when the receiver has every chunk, for messages
\* whose number of chunks fits 16 bits and as long as control messages never
\* pause for 200 ms: the INCOMPLETE_NACK of a receiver
\* that gave up is read before the end of the connection can be taken for
\* success.
THEOREM SuccessIsDelivery == Spec => []SuccessMeansComplete
  <1>1. Init => VerdictInv
    BY DEF Init, VerdictInv, VerdictPending, SuccessMeansComplete
  <1>2. VerdictInv => SuccessMeansComplete
    BY DEF VerdictInv
  <1> QED
    BY <1>1, <1>2, VerdictStep, Invariance, PTL DEF Spec

\* A loop with a limit serves the least member of what it ranges over.
LEMMA LeastIsFirst ==
    ASSUME NEW S \in SUBSET Int, NEW n \in Nat, n > 0, NEW c \in S, \A d \in S : c <= d
    PROVE  c \in FirstFew(S, n)
  <1>0. \A d \in S : ~(d < c)
    <2> TAKE d \in S
    <2>1. c \in Int /\ d \in Int /\ c <= d
      OBVIOUS
    <2> QED
      BY <2>1
  <1>1. {d \in S : d < c} = {}
    BY <1>0, Zenon
  <1>2. Cardinality({d \in S : d < c}) = 0
    BY <1>1, FS_EmptySet
  <1> QED
    BY <1>2 DEF FirstFew

\* Every SR_NACK or SR_ACK that is read brings the lowest overdue chunk back on
\* its way, for any message and any limits: the chunk that holds up ack_base_
\* cannot starve behind those listed as gaps.
THEOREM LowestIsResent == Spec => LowestResent
  <1> DEFINE P == (HandleNack \/ HandleSrAck) /\ MissingLimit > 0 =>
                    LET overdue == (Chunks \ acked') \ recent
                    IN  \A c \in overdue : (\A d \in overdue : c <= d) => c \in net' \cap recent'
  <1>1. [Next]_vars => [P]_vars
    <2> SUFFICES ASSUME HandleNack \/ HandleSrAck, MissingLimit > 0,
                        NEW c \in (Chunks \ acked') \ recent,
                        \A d \in (Chunks \ acked') \ recent : c <= d
                 PROVE  c \in net' \cap recent'
      OBVIOUS
    <2> DEFINE m == Head(ctrl)
               overdue == (Chunks \ acked') \ recent
    <2>1. ASSUME NEW gapped, Acknowledge(m, AckedAfter(m), gapped \cup MissingResends(AckedAfter(m), gapped))
          PROVE  c \in net' \cap recent'
      <3>1. acked' = AckedAfter(m)
            /\ gapped \cup MissingResends(acked', gapped) \subseteq net' \cap recent'
        BY <2>1 DEF Acknowledge, Transmitted
      <3>2. MissingResends(acked', gapped) = FirstFew(overdue \ gapped, MissingLimit)
        BY DEF MissingResends
      <3>3. CASE c \in gapped
        BY <3>1, <3>3
      <3>4. CASE c \notin gapped
        <4>1. overdue \ gapped \in SUBSET Int /\ c \in overdue \ gapped /\ MissingLimit \in Nat
          BY <3>4, SRAssumption DEF Chunks
        <4>2. \A d \in overdue \ gapped : c <= d
          OBVIOUS
        <4> HIDE DEF overdue
        <4>3. c \in FirstFew(overdue \ gapped, MissingLimit)
          BY <4>1, <4>2, LeastIsFirst
        <4> QED
          BY <3>1, <3>2, <4>3
      <3> QED
        BY <3>3, <3>4
    <2>2. CASE HandleNack
      BY <2>1, <2>2 DEF HandleNack, Resends
    <2>3. CASE HandleSrAck
      <3>1. Acknowledge(m, AckedAfter(m), MissingResends(AckedAfter(m), {}))
        BY <2>3 DEF HandleSrAck
      <3>2. MissingResends(AckedAfter(m), {}) = {} \cup MissingResends(AckedAfter(m), {})
        OBVIOUS
      <3> QED
        BY <2>1, <3>1, <3>2
    <2> QED
      BY <2>2, <2>3
  <1> QED
    BY <1>1, PTL DEF Spec, LowestResent

-----------------------------------------------------------------------------
(* Refinement of ReliableTransfer *)

\* INCOMPLETE_NACK is only on its way when the receive is over, with chunks
\* missing.
Told ==
    \A i \in DOMAIN ctrl :
        ctrl[i].type = "INCOMPLETE_NACK" => rpc \in {"closing", "closed"} /\ shown # Chunks

LEMMA ToldStep == Inv /\ Told /\ [Next]_vars => Told'
  <1> SUFFICES ASSUME Inv, Told, [Next]_vars PROVE Told'
    OBVIOUS
  <1>0. TypeOK
    BY DEF Inv
  <1>1. ASSUME \A i \in DOMAIN ctrl' : \E j \in DOMAIN ctrl : ctrl'[i] = ctrl[j],
               rpc \in {"closing", "closed"} => rpc' \in {"closing", "closed"} /\ shown' = shown
        PROVE  Told'
    BY <1>1 DEF Told
  <1>2. CASE PumpSends
    <2>1. PICK m \in Messages : Send(m) /\ m.type # "INCOMPLETE_NACK"
      BY <1>2, PumpIsTrue
    <2>2. rpc = "scan"
      BY <1>2 DEF PumpSends
    <2> QED
      BY <1>0, <2>1, <2>2, SendFacts DEF Told
  <1>3. CASE Complete
    <2>1. Verdict(CompletionType) \in Messages
          /\ (Verdict(CompletionType).type = "INCOMPLETE_NACK" => shown # Chunks)
      BY SRAssumption DEF CompletionType, Verdict, Report, Messages
    <2>2. Send(Verdict(CompletionType)) /\ rpc = "complete" /\ rpc' = "closing" /\ shown' = shown
      BY <1>3 DEF Complete
    <2> QED
      BY <1>0, <2>1, <2>2, SendFacts DEF Told
  <1>4. CASE HandleNack \/ HandleSrAck \/ HandleComplete \/ HandleIncomplete \/ SendPollSkips
             \/ SendPollCompletes \/ (SendPollFails /\ ctrl' # ctrl)
    <2>1. PICK t : Received(t)
      BY <1>4 DEF HandleNack, HandleSrAck, HandleComplete, HandleIncomplete, SendPollSkips, SendPollCompletes,
          SendPollFails
    <2>2. UNCHANGED <<rpc, shown>>
      BY <1>4 DEF HandleNack, HandleSrAck, HandleComplete, HandleIncomplete, SendPollSkips, SendPollCompletes,
          SendPollFails
    <2> QED
      BY <1>0, <1>1, <2>1, <2>2, ReceivedFacts
  <1>5. ASSUME NEW c \in Chunks, Arrive(c) \/ Lose(c) \/ GuardExpires(c) PROVE Told'
    BY <1>1, <1>5 DEF Arrive, Lose, GuardExpires
  <1>6. CASE StartSend \/ ConnectionClosed \/ ControlTimeout \/ (SendPollFails /\ ctrl' = ctrl)
             \/ RtoResend
    BY <1>1, <1>6 DEF StartSend, ConnectionClosed, ControlTimeout, SendPollFails, RtoResend
  <1>7. CASE ReadProgress \/ PumpSkips \/ PumpStarts \/ GiveUp \/ HangUp
    BY <1>1, <1>7 DEF ReadProgress, PumpSkips, PumpStarts, GiveUp, HangUp
  <1>8. CASE UNCHANGED vars
    BY <1>1, <1>8 DEF vars
  <1> QED
    BY <1>2, <1>3, <1>4, <1>5, <1>6, <1>7, <1>8 DEF Next, SenderStep, ReceiverStep

\* Steps that neither complete the transfer nor decide it nor end poll are
\* stuttering steps.
LEMMA Stutters ==
    ASSUME UNCHANGED <<shown, ret>>, (timedOut /\ hungUp)' = (timedOut /\ hungUp),
           rpc' \in {"closing", "closed"} <=> rpc \in {"closing", "closed"}
    PROVE  UNCHANGED Transfer!vars
  BY DEF Transfer!vars

\* Selective Repeat implements ReliableTransfer, for any message whose number of
\* chunks fits 16 bits, any window and message limits and under any loss.
THEOREM TransferRefinement ==
    ASSUME FieldsSuffice
    PROVE  Spec => ImplementsTransfer
  <1>1. Init => Transfer!Init
    <2> SUFFICES ASSUME Init PROVE Transfer!Init
      OBVIOUS
    <2>1. 0 \in Chunks /\ shown # Chunks
      BY SRAssumption DEF Init, Chunks
    <2> QED
      BY <2>1 DEF Init, Transfer!Init
  <1>2. Inv /\ VerdictInv /\ Told /\ [Next]_vars => [Transfer!Next]_Transfer!vars
    <2> SUFFICES ASSUME Inv, VerdictInv, Told, [Next]_vars
                 PROVE  [Transfer!Next]_Transfer!vars
      OBVIOUS
    <2>0. TypeOK
      BY DEF Inv
    <2>1. ASSUME NEW c \in Chunks, Arrive(c) PROVE [Transfer!Next]_Transfer!vars
      <3>1. rpc \notin {"closing", "closed"} /\ UNCHANGED <<rpc, ret, timedOut, hungUp>>
        BY <2>1 DEF Arrive
      <3>2. CASE shown' = Chunks
        <4>1. Transfer!Finish
          BY <3>1, <3>2 DEF Transfer!Finish
        <4> QED
          BY <4>1 DEF Transfer!Next
      <3>3. CASE shown' # Chunks
        <4>1. shown # Chunks
          BY <2>0, <2>1, <3>3 DEF Arrive, TypeOK
        <4> QED
          BY <3>1, <3>3, <4>1 DEF Transfer!vars
      <3> QED
        BY <3>2, <3>3
    <2>2. ASSUME NEW c \in Chunks, Lose(c) \/ GuardExpires(c) PROVE UNCHANGED Transfer!vars
      BY <2>2, Stutters DEF Lose, GuardExpires
    <2>3. CASE StartSend \/ HandleNack \/ SendPollSkips \/ SendPollFails \/ RtoResend
      BY <2>3, Stutters DEF StartSend, HandleNack, SendPollSkips, SendPollFails, RtoResend
    <2>4. CASE ReadProgress \/ PumpSkips \/ PumpStarts \/ GiveUp \/ PumpSends
      BY <2>4, Stutters DEF ReadProgress, PumpSkips, PumpStarts, GiveUp, PumpSends, AfterPump
    <2>5. CASE ControlTimeout
      <3>1. (timedOut /\ hungUp)' = (timedOut /\ hungUp)
        BY <2>0, <2>5 DEF ControlTimeout, TypeOK
      <3> QED
        BY <2>5, <3>1, Stutters DEF ControlTimeout
    <2>6. ASSUME spc \in {"poll", "send_poll"}, ret' = "0", shown = Chunks \/ (timedOut /\ hungUp),
                 UNCHANGED <<timedOut, rpc, shown, hungUp>>
          PROVE  Transfer!Next
      <3>1. ret = "none"
        BY <2>6 DEF VerdictInv
      <3>2. Transfer!Succeed
        BY <2>6, <3>1 DEF Transfer!Succeed
      <3> QED
        BY <3>2 DEF Transfer!Next
    <2>7. CASE HandleComplete \/ SendPollCompletes
      <3>1. Received("COMPLETE_ACK")
        BY <2>7 DEF HandleComplete, SendPollCompletes
      <3>2. shown = Chunks
        BY <2>0, <3>1, ReceivedFacts DEF Inv, QueueTrue, MessageTrue
      <3> QED
        BY <2>6, <2>7, <3>2 DEF HandleComplete, SendPollCompletes, Return
    <2>13. CASE HandleSrAck
      <3>1. /\ spc = "poll" /\ Received("SR_ACK") /\ UNCHANGED <<timedOut, rpc, counted, seen, shown, hungUp>>
            /\ IF SrAckEnds(Head(ctrl)) THEN ret' = "0" ELSE UNCHANGED <<spc, ret>>
        BY <2>13 DEF HandleSrAck, Return
      <3>2. CASE SrAckEnds(Head(ctrl))
        <4>1. Head(ctrl) \in Messages /\ MessageTrue(Head(ctrl))
          BY <2>0, <3>1, ReceivedFacts DEF Inv, QueueTrue
        <4>2. shown = Chunks
          BY <2>0, <3>2, <4>1, SrAckIsTrue
        <4> QED
          BY <2>6, <3>1, <3>2, <4>2
      <3>3. CASE ~SrAckEnds(Head(ctrl))
        BY <3>1, <3>3, Stutters
      <3> QED
        BY <3>2, <3>3
    <2>8. CASE ConnectionClosed
      <3>1. spc = "poll" /\ hungUp /\ ~(Len(ctrl) > 0)
        BY <2>8 DEF ConnectionClosed
      <3>2. shown = Chunks \/ timedOut
        BY <3>1 DEF VerdictInv, VerdictPending
      <3> QED
        BY <2>6, <2>8, <3>1, <3>2 DEF ConnectionClosed, Return
    <2>9. CASE HandleIncomplete
      <3>1. rpc \in {"closing", "closed"} /\ shown # Chunks
        BY <2>0, <2>9, ReceivedFacts DEF HandleIncomplete, Told
      <3>2. ret = "none" /\ ret' = "-1" /\ UNCHANGED <<timedOut, rpc, shown, hungUp>>
        BY <2>9 DEF HandleIncomplete, Return, IncompleteReturns, VerdictInv
      <3>3. Transfer!Fail
        BY <3>1, <3>2 DEF Transfer!Fail
      <3> QED
        BY <3>3 DEF Transfer!Next
    <2>10. CASE Complete
      <3>1. rpc = "complete" /\ rpc' = "closing" /\ UNCHANGED <<ret, shown, timedOut, hungUp>>
        BY <2>10 DEF Complete
      <3>2. Transfer!Decide
        BY <3>1 DEF Transfer!Decide
      <3> QED
        BY <3>2 DEF Transfer!Next
    <2>11. CASE HangUp
      <3>1. rpc = "closing" /\ rpc' = "closed" /\ hungUp' = TRUE /\ UNCHANGED <<ret, shown, timedOut>>
        BY <2>11 DEF HangUp
      <3>2. CASE timedOut
        <4>1. Transfer!Part
          BY <3>1, <3>2 DEF Transfer!Part
        <4> QED
          BY <4>1 DEF Transfer!Next
      <3>3. CASE ~timedOut
        BY <3>1, <3>3, Stutters
      <3> QED
        BY <3>2, <3>3
    <2>12. CASE UNCHANGED vars
      BY <2>12, Stutters DEF vars
    <2> QED
      BY <2>1, <2>2, <2>3, <2>4, <2>5, <2>7, <2>8, <2>9, <2>10, <2>11, <2>12, <2>13
      DEF Next, SenderStep, ReceiverStep
  <1>3. Init => VerdictInv /\ Told
    BY DEF Init, VerdictInv, VerdictPending, SuccessMeansComplete, Told
  <1> QED
    BY <1>1, <1>2, <1>3, VerdictStep, ToldStep, Invariance, PTL
    DEF Spec, ImplementsTransfer, Transfer!Spec
=============================================================================
