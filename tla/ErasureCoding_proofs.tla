------------------------- MODULE ErasureCoding_proofs -------------------------
(***************************************************************************)
(* Proofs about ErasureCoding for any number of data chunks, any stripe    *)
(* (K, M) and any limits on retries and gaps.                              *)
(***************************************************************************)
EXTENDS ErasureCoding, FiniteSetTheorems, TLAPS

USE DEF senderVars, decoderVars, SenderOnly, ReceiverOnly

Messages == [type : Types, gaps : SUBSET Data]

-----------------------------------------------------------------------------
(* Chunks, ranks and queues *)

\* There is a data chunk, and the data chunks come first.
LEMMA ChunkFacts ==
    /\ DataChunks \in Nat \ {0} /\ K \in Nat \ {0} /\ M \in Nat \ {0}
    /\ Stripes \in Nat /\ Stripes * M \in Nat
    /\ 0 \in Data /\ Data \subseteq All /\ All \subseteq Nat
    /\ IsFiniteSet(Data) /\ IsFiniteSet(All)
  <1>1. DataChunks \in Nat \ {0} /\ K \in Nat \ {0} /\ M \in Nat \ {0}
    BY ECAssumption
  <1>2. Stripes \in Nat
    BY <1>1 DEF Stripes
  <1>3. Stripes * M \in Nat
    BY <1>1, <1>2
  <1> QED
    BY <1>1, <1>2, <1>3, FS_Interval DEF Data, All

\* A parity chunk equals a data chunk; a data chunk is itself.
LEMMA ContentFacts ==
    ASSUME NEW c
    PROVE  Content(c) \in Data /\ (c \in Data => Content(c) = c)
  BY ChunkFacts DEF Content

\* Decoding puts the content of some data chunk, or of none, in a buffer.
LEMMA SourceContentType ==
    ASSUME TypeOK, NEW i
    PROVE  SourceContent(i) \in All \cup {Nothing}
  <1> DEFINE s == CHOOSE c \in Sources : Rank(c, Sources) = i
  <1>1. SourceContent(i) = IF s \in Data THEN buf[s] ELSE Content(s)
    BY DEF SourceContent
  <1> HIDE DEF s
  <1>2. CASE s \in Data
    BY <1>1, <1>2 DEF TypeOK
  <1>3. CASE s \notin Data
    BY <1>1, <1>3, ContentFacts, ChunkFacts
  <1> QED
    BY <1>2, <1>3

\* The listed gaps name data chunks only.
LEMMA GapsAreData == ASSUME NEW S PROVE ListedGaps(S) \subseteq Data
  BY DEF ListedGaps, NamedBy

\* If all but at most M data chunks have arrived, and the first K + M chunks
\* are data chunks, then the K first chunks to have arrived are among them.
LEMMA SourcesAreEarly ==
    ASSUME shown \subseteq All, Cardinality(Missing) <= M, DataChunks >= K + M,
           NEW s \in Sources
    PROVE  s < K + M
  <1> DEFINE early == 0 .. K + M - 1
             below == {d \in shown : d < s}
  <1> USE ChunkFacts
  <1>1. s \in shown /\ s \in Nat /\ Cardinality(below) < K
    BY DEF Sources, FirstFew, Rank
  <1> SUFFICES ASSUME K + M <= s PROVE FALSE
    BY <1>1
  <1>2. IsFiniteSet(early) /\ Cardinality(early) = K + M
    BY FS_Interval
  <1>3. early \subseteq Data
    BY DEF Data
  <1>4. early \cap shown \subseteq below
    BY <1>1
  <1>5. IsFiniteSet(below) /\ IsFiniteSet(Missing)
    BY FS_Subset DEF Missing
  <1>6. early \ shown \subseteq Missing
    BY <1>3 DEF Missing
  <1>7. Cardinality(early \cap shown) <= Cardinality(below)
        /\ Cardinality(early \ shown) <= Cardinality(Missing)
    BY <1>4, <1>5, <1>6, FS_Subset
  <1>8. Cardinality(early \ shown) = Cardinality(early) - Cardinality(early \cap shown)
    BY <1>2, FS_Difference
  <1>9. Cardinality(early \cap shown) \in Nat /\ Cardinality(below) \in Nat
        /\ Cardinality(Missing) \in Nat
    BY <1>2, <1>5, FS_Intersection, FS_CardinalityType
  <1> QED
    BY <1>1, <1>2, <1>7, <1>8, <1>9

\* Reading the head of a queue.
LEMMA QueueFacts ==
    ASSUME NEW q \in Seq(Messages), q # <<>>
    PROVE  /\ Head(q) \in Messages /\ Head(q) = q[1] /\ 1 \in DOMAIN q
           /\ Tail(q) \in Seq(Messages) /\ Len(Tail(q)) = Len(q) - 1
           /\ \A i \in DOMAIN Tail(q) : Tail(q)[i] = q[i + 1] /\ i + 1 \in DOMAIN q
  OBVIOUS

\* Adding to the end of a queue.
LEMMA AppendFacts ==
    ASSUME NEW q \in Seq(Messages), NEW m \in Messages
    PROVE  /\ Append(q, m) \in Seq(Messages)
           /\ Len(Append(q, m)) = Len(q) + 1 /\ Len(q) \in Nat
           /\ Append(q, m)[Len(q) + 1] = m
           /\ \A i \in DOMAIN Append(q, m) :
                 i = Len(q) + 1 \/ (i \in DOMAIN q /\ Append(q, m)[i] = q[i])
  OBVIOUS

-----------------------------------------------------------------------------
(* The inductive invariant *)

\* Attempts are left while the receiver may still ask.
Retrying == (rpc \in {"read", "decode"} /\ ~fallback) => attempts < MaxRetries

\* Until chunks are decoded, what has arrived is in its place, and a transfer
\* is completed only when all data has arrived.
InPlace ==
    ~decoded => /\ \A c \in Data \cap shown : buf[c] = c
                /\ state = "COMPLETED" => Data \subseteq shown

\* Decoding was started with few enough losses, and losses only get fewer.
FewLost == rpc = "decode" => Cardinality(Missing) <= M

\* A receiver that completed the transfer leaves COMPLETE_ACK as the last
\* message of the queue for a sender that is still waiting.
AckPending ==
    /\ state = "COMPLETED" => rpc \in {"complete", "closing", "closed"}
    /\ hungUp => rpc = "closed"
    /\ (rpc \in {"closing", "closed"} /\ spc # "done" /\ IsComplete)
          => Len(ctrl) > 0 /\ ctrl[Len(ctrl)].type = "COMPLETE_ACK"
    /\ ret = "-1" => rpc = "closed" /\ ~IsComplete
    /\ ret # "none" => spc = "done"

Inv ==
    /\ TypeOK /\ Retrying /\ CompletionSound /\ InPlace /\ FewLost /\ AckPending

\* Taking a message off the queue leaves the rest of it, and its last message
\* unless that is the one taken.
LEMMA ReceivedFacts ==
    ASSUME TypeOK, NEW types, Received(types)
    PROVE  /\ ctrl' \in Seq(Messages)
           /\ Head(ctrl) \in Messages /\ Head(ctrl).type \in types
           /\ 1 \in DOMAIN ctrl /\ Head(ctrl) = ctrl[1]
           /\ \A i \in DOMAIN ctrl' : \E j \in DOMAIN ctrl : ctrl'[i] = ctrl[j]
           /\ (Len(ctrl) > 0 /\ ctrl[Len(ctrl)].type = "COMPLETE_ACK" /\ "COMPLETE_ACK" \notin types)
                 => Len(ctrl') > 0 /\ ctrl'[Len(ctrl')].type = "COMPLETE_ACK"
  <1>1. ctrl \in Seq(Messages) /\ ctrl # <<>> /\ ctrl' = Tail(ctrl) /\ Head(ctrl).type \in types
    BY DEF TypeOK, Received, Messages
  <1>2. /\ Head(ctrl) \in Messages /\ Head(ctrl) = ctrl[1] /\ 1 \in DOMAIN ctrl
        /\ ctrl' \in Seq(Messages) /\ Len(ctrl') = Len(ctrl) - 1
        /\ \A i \in DOMAIN ctrl' : ctrl'[i] = ctrl[i + 1] /\ i + 1 \in DOMAIN ctrl
    BY <1>1, QueueFacts
  <1>3. ASSUME ctrl[Len(ctrl)].type = "COMPLETE_ACK", "COMPLETE_ACK" \notin types
        PROVE  Len(ctrl') > 0 /\ ctrl'[Len(ctrl')].type = "COMPLETE_ACK"
    <2>1. Len(ctrl) # 1 /\ Len(ctrl) \in Nat \ {0}
      BY <1>1, <1>2, <1>3
    <2>2. Len(ctrl') \in DOMAIN ctrl' /\ Len(ctrl') + 1 = Len(ctrl)
      BY <1>2, <2>1
    <2> QED
      BY <1>2, <1>3, <2>1, <2>2
  <1> QED
    BY <1>1, <1>2, <1>3

\* Putting a message on the queue.
LEMMA SendFacts ==
    ASSUME TypeOK, NEW m \in Messages, Send(m)
    PROVE  /\ ctrl' \in Seq(Messages)
           /\ \A i \in DOMAIN ctrl' : ctrl'[i] = m \/ \E j \in DOMAIN ctrl : ctrl'[i] = ctrl[j]
           /\ spc # "done" => Len(ctrl') > 0 /\ ctrl'[Len(ctrl')] = m
  <1>1. ctrl \in Seq(Messages)
    BY DEF TypeOK, Messages
  <1>2. CASE spc = "done"
    BY <1>1, <1>2 DEF Send
  <1>3. CASE spc # "done"
    <2>1. ctrl' = Append(ctrl, m)
      BY <1>3 DEF Send
    <2> QED
      BY <1>1, <2>1, AppendFacts
  <1> QED
    BY <1>2, <1>3

\* The claims of the queue stay true when nothing false is added.
LEMMA ClaimsStay ==
    ASSUME CompletionSound, ctrl' \in Seq(Messages), IsComplete => IsComplete',
           \A i \in DOMAIN ctrl' : \/ \E j \in DOMAIN ctrl : ctrl'[i] = ctrl[j]
                                   \/ ctrl'[i].type \in {"EC_ACK", "COMPLETE_ACK"} => IsComplete',
           ret' = "0" /\ ~hungUp' => (ret = "0" /\ ~hungUp) \/ IsComplete'
    PROVE  CompletionSound'
  BY DEF CompletionSound

LEMMA InvInit == Init => Inv
  <1> SUFFICES ASSUME Init PROVE Inv
    OBVIOUS
  <1>1. fallback \in BOOLEAN /\ decoded \in BOOLEAN /\ hungUp \in BOOLEAN
    BY Zenon DEF Init
  <1>2. ctrl \in Seq([type : Types, gaps : SUBSET Data]) /\ DOMAIN ctrl = {}
    BY DEF Init
  <1>3. TypeOK
    BY <1>1, <1>2, ECAssumption DEF Init, TypeOK
  <1> QED
    BY <1>1, <1>2, <1>3, ECAssumption DEF Init, Inv, Retrying, CompletionSound, InPlace, FewLost, AckPending

\* A step of the network: losses get fewer.
LEMMA NetworkStep ==
    ASSUME Inv, NEW c \in All, Arrive(c) \/ Lose(c)
    PROVE  Inv'
  <1> USE DEF Inv
  <1>1. UNCHANGED <<spc, ret, rpc, lost, attempts, fallback, state, decoded, ctrl, hungUp>>
        /\ shown' \in {shown, shown \cup {c}} /\ net' = net \ {c}
    BY DEF Arrive, Lose
  <1>2. \/ buf' = buf /\ (shown' = shown \/ c \notin Data \/ c \in shown)
        \/ c \in Data /\ c \notin shown /\ shown' = shown \cup {c} /\ buf' = [buf EXCEPT ![c] = c]
    BY ContentFacts DEF Arrive, Lose
  <1>3. buf' \in [Data -> All \cup {Nothing}]
    BY <1>2, ChunkFacts DEF TypeOK
  <1>4. TypeOK'
    BY <1>1, <1>3 DEF TypeOK
  <1>5. InPlace'
    BY <1>1, <1>2 DEF InPlace, TypeOK
  <1>6. FewLost'
    <2>1. Missing' \subseteq Missing /\ IsFiniteSet(Missing)
      BY <1>1, ChunkFacts, FS_Difference DEF Missing
    <2>2. Cardinality(Missing') <= Cardinality(Missing) /\ Cardinality(Missing') \in Nat
          /\ Cardinality(Missing) \in Nat
      BY <2>1, FS_Subset, FS_CardinalityType
    <2> QED
      BY <1>1, <2>2, ChunkFacts DEF FewLost
  <1>7. IsComplete => IsComplete'
    BY <1>1 DEF IsComplete, TypeOK
  <1>8. CompletionSound'
    BY <1>1, <1>4, <1>7, ClaimsStay DEF TypeOK, Messages
  <1>9. Retrying' /\ AckPending'
    <2>1. rpc \in {"closing", "closed"} => shown' = shown
      BY DEF Arrive, Lose
    <2> QED
      BY <1>1, <2>1 DEF Retrying, AckPending, IsComplete
  <1> QED
    BY <1>4, <1>5, <1>6, <1>8, <1>9

\* A step of the sender changes nothing at the receiver.
LEMMA SenderPreserves ==
    ASSUME Inv, SenderStep \/ ControlTimeout
    PROVE  Inv'
  <1> USE DEF Inv
  <1>0. UNCHANGED <<rpc, lost, attempts, fallback, state, decoded, shown, buf, hungUp>>
    BY DEF SenderStep, EncodeAndSend, HandleAck, HandleNack, IgnoreIncomplete, ConnectionClosed,
        SendPollSkips, SendPollCompletes, SendPollFails, SendPollClosed, ControlTimeout
  <1>1. Retrying' /\ InPlace' /\ FewLost' /\ (IsComplete <=> IsComplete')
    BY <1>0 DEF Retrying, InPlace, FewLost, Missing, IsComplete
  <1>2. ASSUME ctrl' \in Seq(Messages), net' \subseteq All,
               spc' \in {"poll", "send_poll", "done"}, ret' \in {ret, "0", "-1"},
               \A i \in DOMAIN ctrl' : \E j \in DOMAIN ctrl : ctrl'[i] = ctrl[j],
               ret' = "0" /\ ret # "0" => hungUp \/ IsComplete,
               ret' = "-1" /\ ret # "-1" => hungUp /\ ~IsComplete,
               spc = "done" => spc' = "done", ret' # ret => spc' = "done",
               spc' = "done" \/ (Len(ctrl) > 0 /\ ctrl[Len(ctrl)].type = "COMPLETE_ACK"
                                   => Len(ctrl') > 0 /\ ctrl'[Len(ctrl')].type = "COMPLETE_ACK")
        PROVE  Inv'
    <2>1. TypeOK'
      BY <1>0, <1>2 DEF TypeOK, Messages
    <2>2. CompletionSound'
      BY <1>0, <1>1, <1>2, ClaimsStay
    <2>3. AckPending'
      BY <1>0, <1>1, <1>2 DEF AckPending
    <2> QED
      BY <1>1, <2>1, <2>2, <2>3
  <1>3. CASE EncodeAndSend
    BY <1>2, <1>3 DEF EncodeAndSend, TypeOK, Messages
  <1>4. CASE HandleAck \/ SendPollCompletes
    <2>1. Received({"EC_ACK", "COMPLETE_ACK"}) \/ Received({"COMPLETE_ACK"})
      BY <1>4 DEF HandleAck, SendPollCompletes
    <2>2. /\ ctrl' \in Seq(Messages) /\ 1 \in DOMAIN ctrl
          /\ ctrl[1].type \in {"EC_ACK", "COMPLETE_ACK"}
          /\ \A i \in DOMAIN ctrl' : \E j \in DOMAIN ctrl : ctrl'[i] = ctrl[j]
      BY <2>1, ReceivedFacts
    <2>3. IsComplete
      BY <2>2 DEF CompletionSound
    <2>4. spc' = "done" /\ ret' = "0" /\ net' = net
      BY <1>4 DEF HandleAck, SendPollCompletes, Return
    <2> QED
      BY <1>2, <2>2, <2>3, <2>4 DEF TypeOK
  <1>5. CASE HandleNack
    <2>1. Received({"EC_NACK", "EC_FALLBACK_SR"}) /\ spc' = spc /\ ret' = ret /\ spc = "poll"
          /\ net' = net \cup Head(ctrl).gaps
      BY <1>5 DEF HandleNack
    <2>2. Head(ctrl) \in Messages
      BY <2>1, ReceivedFacts
    <2>3. net' \subseteq All
      BY <2>1, <2>2, ChunkFacts DEF Messages, TypeOK
    <2> QED
      BY <1>2, <2>1, <2>3, ReceivedFacts
  <1>6. CASE IgnoreIncomplete \/ SendPollFails
    <2>1. Received({"INCOMPLETE_NACK"}) /\ spc' = "poll" /\ ret' = ret /\ net' = net
          /\ spc # "done"
      BY <1>6 DEF IgnoreIncomplete, SendPollFails
    <2> QED
      BY <1>2, <2>1, ReceivedFacts DEF TypeOK
  <1>7. CASE SendPollSkips
    <2>1. Received({"EC_ACK", "EC_NACK", "EC_FALLBACK_SR"}) /\ spc' = spc /\ ret' = ret
          /\ net' = net /\ spc = "send_poll"
      BY <1>7 DEF SendPollSkips
    <2> QED
      BY <1>2, <2>1, ReceivedFacts DEF TypeOK
  <1>8. CASE ConnectionClosed
    BY <1>2, <1>8 DEF ConnectionClosed, ReadsEnd, Return, TypeOK, Messages
  <1>9. CASE ControlTimeout
    BY <1>2, <1>9 DEF ControlTimeout, TypeOK, Messages
  <1>10. CASE SendPollClosed
    <2>1. ctrl = <<>> /\ hungUp /\ spc = "send_poll" /\ spc' = "done" /\ ret' = "-1"
          /\ net' = net /\ ctrl' = ctrl
      BY <1>10 DEF SendPollClosed, ReadsEnd, Return
    <2>2. ~IsComplete
      BY <2>1 DEF AckPending
    <2> QED
      BY <1>2, <2>1, <2>2 DEF TypeOK, Messages
  <1> QED
    BY <1>3, <1>4, <1>5, <1>6, <1>7, <1>8, <1>9, <1>10 DEF SenderStep

\* A step of the receiver: only a completed transfer is acknowledged.
LEMMA ReceiverPreserves ==
    ASSUME Inv, ReceiverStep \/ GiveUp
    PROVE  Inv'
  <1> USE DEF Inv
  <1>0. UNCHANGED <<spc, ret, shown, net>> /\ (IsComplete => IsComplete')
    BY DEF ReceiverStep, GiveUp, AllPresent, RequestResend, StartDecode, Decode, DecodeFails,
        Complete, HangUp, IsComplete
  <1>1. CASE AllPresent
    <2>1. Message("EC_ACK", {}) \in Messages /\ Message("EC_ACK", {}).type = "EC_ACK"
      BY DEF Message, Messages, Types
    <2>2. /\ rpc = "read" /\ Data \subseteq shown /\ state' = "COMPLETED" /\ fallback' = FALSE
          /\ Send(Message("EC_ACK", {})) /\ rpc' = "complete"
          /\ UNCHANGED <<lost, attempts, decoded, buf, hungUp>>
      BY <1>1 DEF AllPresent, Missing
    <2>3. CompletionSound' /\ ctrl' \in Seq(Messages)
      BY <1>0, <2>1, <2>2, SendFacts, ClaimsStay DEF IsComplete
    <2>4. fallback' \in BOOLEAN
      BY <2>2
    <2>5. TypeOK'
      BY <1>0, <2>2, <2>3, <2>4 DEF TypeOK, Messages
    <2> QED
      BY <1>0, <2>2, <2>3, <2>5 DEF Retrying, InPlace, FewLost, AckPending
  <1>2. CASE RequestResend
    <2> DEFINE m == Message(IF LastAttempt THEN "EC_FALLBACK_SR" ELSE "EC_NACK", ListedGaps(Missing))
    <2>1. m \in Messages /\ m.type \notin {"EC_ACK", "COMPLETE_ACK"}
      BY GapsAreData DEF Message, Messages, Types
    <2> HIDE DEF m
    <2>2. /\ rpc = "read" /\ ~fallback /\ Send(m) /\ fallback' = LastAttempt
          /\ attempts' = attempts + 1
          /\ UNCHANGED <<rpc, lost, state, decoded, buf, hungUp>>
      BY <1>2 DEF RequestResend, m
    <2>3. CompletionSound' /\ ctrl' \in Seq(Messages)
      BY <1>0, <2>1, <2>2, SendFacts, ClaimsStay
    <2>4. attempts' \in 0 .. MaxRetries /\ fallback' \in BOOLEAN
          /\ (~fallback' => attempts' < MaxRetries)
      <3>1. attempts \in Nat /\ attempts < MaxRetries /\ MaxRetries \in Nat
        BY <2>2, ECAssumption DEF Retrying, TypeOK
      <3>2. fallback' = (attempts + 1 >= MaxRetries)
        BY <2>2 DEF LastAttempt
      <3>3. fallback' \in BOOLEAN
        BY <3>2
      <3>4. ~fallback' => ~(attempts + 1 >= MaxRetries)
        BY <3>2
      <3> QED
        BY <2>2, <3>1, <3>3, <3>4
    <2>5. TypeOK'
      BY <1>0, <2>2, <2>3, <2>4 DEF TypeOK, Messages
    <2> QED
      BY <1>0, <2>2, <2>3, <2>4, <2>5 DEF Retrying, InPlace, FewLost, AckPending
  <1>3. CASE StartDecode
    <2>1. Cardinality(Missing) <= M
      <3>1. IsFiniteSet(Missing)
        BY ChunkFacts, FS_Difference DEF Missing
      <3> QED
        BY <1>3, <3>1, ChunkFacts, FS_CardinalityType DEF StartDecode, TooMany
    <2>2. rpc = "read" /\ rpc' = "decode" /\ lost' \subseteq Data
          /\ UNCHANGED <<attempts, fallback, state, decoded, buf, ctrl, hungUp>>
      BY <1>3 DEF StartDecode, Missing
    <2>3. TypeOK'
      BY <1>0, <2>2 DEF TypeOK
    <2> QED
      BY <1>0, <2>1, <2>2, <2>3 DEF Retrying, InPlace, FewLost, AckPending, CompletionSound,
          IsComplete, Missing
  <1>4. CASE Decode
    <2>1. Message("EC_ACK", {}) \in Messages /\ Message("EC_ACK", {}).type = "EC_ACK"
      BY DEF Message, Messages, Types
    <2>2. /\ rpc = "decode" /\ decoded' = TRUE /\ state' = "COMPLETED"
          /\ Send(Message("EC_ACK", {})) /\ rpc' = "complete"
          /\ UNCHANGED <<lost, attempts, fallback, hungUp>>
          /\ buf' = [c \in Data |-> IF c \in lost THEN SourceContent(Rank(c, lost)) ELSE buf[c]]
      BY <1>4 DEF Decode
    <2>3. CompletionSound' /\ ctrl' \in Seq(Messages)
      BY <1>0, <2>1, <2>2, SendFacts, ClaimsStay DEF IsComplete
    <2>4. buf' \in [Data -> All \cup {Nothing}]
      BY <2>2, SourceContentType DEF TypeOK
    <2>5. decoded' \in BOOLEAN
      BY <2>2
    <2>6. TypeOK'
      BY <1>0, <2>2, <2>3, <2>4, <2>5 DEF TypeOK, Messages
    <2> QED
      BY <1>0, <2>2, <2>3, <2>6 DEF Retrying, InPlace, FewLost, AckPending
  <1>5. CASE DecodeFails \/ GiveUp
    <2>1. /\ rpc \in {"read", "decode"} /\ rpc' \in {"read", "complete"} /\ lost' \subseteq Data
          /\ UNCHANGED <<attempts, fallback, state, decoded, buf, ctrl, hungUp>>
      BY <1>5 DEF DecodeFails, GiveUp, TypeOK
    <2>2. TypeOK'
      BY <1>0, <2>1 DEF TypeOK
    <2> QED
      BY <1>0, <2>1, <2>2 DEF Retrying, InPlace, FewLost, AckPending, CompletionSound, IsComplete
  <1>6. CASE Complete
    <2> DEFINE m == Message(CompletionType, {})
    <2>1. m \in Messages /\ (m.type \in {"EC_ACK", "COMPLETE_ACK"} <=> IsComplete)
          /\ (IsComplete => m.type = "COMPLETE_ACK")
      BY DEF Message, Messages, Types, CompletionType, IsComplete
    <2> HIDE DEF m
    <2>2. /\ rpc = "complete" /\ rpc' = "closing" /\ Send(m)
          /\ UNCHANGED <<lost, attempts, fallback, state, decoded, buf, hungUp>>
      BY <1>6 DEF Complete, m
    <2>3. CompletionSound' /\ ctrl' \in Seq(Messages)
      BY <1>0, <2>1, <2>2, SendFacts, ClaimsStay
    <2>4. TypeOK'
      BY <1>0, <2>2, <2>3 DEF TypeOK, Messages
    <2>5. AckPending'
      BY <1>0, <2>1, <2>2, SendFacts DEF AckPending, IsComplete
    <2> QED
      BY <1>0, <2>2, <2>3, <2>4, <2>5 DEF Retrying, InPlace, FewLost
  <1>7. CASE HangUp
    <2>1. /\ rpc = "closing" /\ rpc' = "closed" /\ hungUp' = TRUE
          /\ UNCHANGED <<lost, attempts, fallback, state, decoded, buf, ctrl>>
      BY <1>7 DEF HangUp
    <2>2. hungUp' \in BOOLEAN
      BY <2>1
    <2>3. TypeOK'
      BY <1>0, <2>1, <2>2 DEF TypeOK
    <2> QED
      BY <1>0, <2>1, <2>3 DEF Retrying, InPlace, FewLost, AckPending, CompletionSound, IsComplete
  <1> QED
    BY <1>1, <1>2, <1>3, <1>4, <1>5, <1>6, <1>7 DEF ReceiverStep

\* The invariant is inductive.
LEMMA InvStep == Inv /\ [Next]_vars => Inv'
  <1> SUFFICES ASSUME Inv, [Next]_vars PROVE Inv'
    OBVIOUS
  <1>1. CASE UNCHANGED vars
    BY <1>1 DEF vars, Inv, TypeOK, Retrying, CompletionSound, InPlace, FewLost, AckPending,
        IsComplete, Missing
  <1> QED
    BY <1>1, NetworkStep, SenderPreserves, ReceiverPreserves DEF Next

-----------------------------------------------------------------------------
(* The theorems *)

\* The invariant holds in every reachable state.
THEOREM Invariance == Spec => []Inv
  BY InvInit, InvStep, PTL DEF Spec

\* Type correctness; in particular decode_attempts_ never exceeds max_retries.
THEOREM TypeCorrect == Spec => []TypeOK
  <1>1. Inv => TypeOK
    BY DEF Inv
  <1> QED
    BY <1>1, Invariance, PTL

\* Until the receiver hangs up, success at the sender means that the receiver
\* completed the transfer.
THEOREM CompletionIsSound == Spec => []CompletionSound
  <1>1. Inv => CompletionSound
    BY DEF Inv
  <1> QED
    BY <1>1, Invariance, PTL

\* A transfer completed without decoding has all its data in place.
THEOREM UndecodedIsSound == Spec => []UndecodedSound
  <1>1. Inv => UndecodedSound
    BY DEF Inv, InPlace, UndecodedSound
  <1> QED
    BY <1>1, Invariance, PTL

\* The decoder stays within the rows of its matrix, for one stripe and for
\* messages of at least K + M data chunks.
THEOREM RowsAreInMatrix == Spec => []RowsInMatrix
  <1>1. Inv => RowsInMatrix
    <2> SUFFICES ASSUME Inv, rpc = "decode", Stripes = 1 \/ DataChunks >= K + M, NEW s \in Sources
                 PROVE  s < K + M
      BY DEF RowsInMatrix
    <2>1. shown \subseteq All /\ Cardinality(Missing) <= M
      BY DEF Inv, TypeOK, FewLost
    <2>2. CASE DataChunks >= K + M
      BY <2>1, <2>2, SourcesAreEarly
    <2>3. CASE Stripes = 1
      <3>1. DataChunks <= K
        BY <2>3, ChunkFacts DEF Stripes
      <3>2. s \in All
        BY <2>1 DEF Sources, FirstFew
      <3> QED
        BY <2>3, <3>1, <3>2, ChunkFacts DEF All
    <2> QED
      BY <2>2, <2>3
  <1> QED
    BY <1>1, Invariance, PTL

\* ECSender::poll never reports the failure of a transfer the receiver
\* completed, although sdr_send_poll may swallow its EC_ACK.
THEOREM FailuresAreReal == Spec => []FailureIsReal
  <1>1. Inv => FailureIsReal
    BY DEF Inv, AckPending, IsComplete, FailureIsReal
  <1> QED
    BY <1>1, Invariance, PTL

\* Every start and every length of a gap fits its field.
FieldsSuffice == DataChunks < FieldSpace

\* The first run of missing chunks is listed, and names its first chunk.
LEMMA FirstGapListed ==
    ASSUME FieldsSuffice, NEW S \in SUBSET Data, NEW c \in S, \A d \in S : c <= d
    PROVE  c \in ListedGaps(S)
  <1> DEFINE starts == {d \in S : d - 1 \notin S}
             run(s) == {d \in S : s <= d /\ s .. d \subseteq S}
  <1>0. /\ c \in Nat /\ c < FieldSpace /\ FieldSpace \in Nat \ {0} /\ DataChunks \in Nat
        /\ \A d \in S : d \in Nat /\ c <= d
    BY ECAssumption DEF Data, FieldsSuffice
  <1>1. c \in FirstFew(starts, MaxGaps)
    <2>1. c \in starts
      BY <1>0
    <2>2. {d \in starts : d < c} = {}
      <3>1. \A d \in S : ~(d < c)
        BY <1>0
      <3> QED
        BY <3>1, Zenon
    <2>3. Rank(c, starts) = 0
      BY <2>2, FS_EmptySet DEF Rank
    <2>4. 0 < MaxGaps
      BY ECAssumption
    <2> QED
      BY <2>1, <2>3, <2>4 DEF FirstFew
  <1>2. Cardinality(run(c)) \in 1 .. DataChunks
    <2>1. IsFiniteSet(Data) /\ Cardinality(Data) = DataChunks
      BY <1>0, FS_Interval DEF Data
    <2>2. /\ IsFiniteSet(run(c)) /\ Cardinality(run(c)) \in Nat
          /\ Cardinality(run(c)) <= DataChunks
      BY <2>1, FS_Subset, FS_CardinalityType
    <2>3. c \in run(c)
      BY <1>0
    <2>4. Cardinality(run(c)) # 0
      BY <2>2, <2>3, FS_EmptySet
    <2> QED
      BY <1>0, <2>2, <2>4
  <1>3. c \in NamedBy(c, Cardinality(run(c)))
    <2> DEFINE n == Cardinality(run(c))
    <2>1. n \in Nat \ {0} /\ n < FieldSpace
      BY <1>0, <1>2 DEF FieldsSuffice
    <2> HIDE DEF n
    <2>2. c % FieldSpace = c /\ n % FieldSpace = n
      BY <1>0, <2>1
    <2>3. c \in c .. c + n - 1
      BY <1>0, <2>1
    <2>4. c \in NamedBy(c, n)
      BY <2>2, <2>3 DEF NamedBy
    <2> QED
      BY <2>4 DEF n
  <1>4. ListedGaps(S) = UNION {NamedBy(s, Cardinality(run(s))) : s \in FirstFew(starts, MaxGaps)}
    BY DEF ListedGaps
  <1> HIDE DEF run, starts
  <1> QED
    BY <1>1, <1>3, <1>4, Zenon

\* A receiver with too many losses asks for the lowest chunk it misses, however
\* few gaps a message has room for.
LowestAsked ==
    [][RequestResend /\ spc # "done" =>
          \A c \in Missing : (\A d \in Missing : c <= d) => c \in ctrl'[Len(ctrl')].gaps]_vars

\* EC_NACK and EC_FALLBACK_SR name the lowest missing data chunk, for any code
\* and any number of gaps per message, of a message of fewer data chunks than
\* the 16-bit fields of a gap can count.
THEOREM LowestIsAsked ==
    ASSUME FieldsSuffice
    PROVE  Spec => LowestAsked
  <1> DEFINE P == RequestResend /\ spc # "done" =>
                    \A c \in Missing : (\A d \in Missing : c <= d) => c \in ctrl'[Len(ctrl')].gaps
  <1>1. Inv /\ [Next]_vars => [P]_vars
    <2> SUFFICES ASSUME Inv, RequestResend, spc # "done", NEW c \in Missing,
                        \A d \in Missing : c <= d
                 PROVE  c \in ctrl'[Len(ctrl')].gaps
      OBVIOUS
    <2> DEFINE m == Message(IF LastAttempt THEN "EC_FALLBACK_SR" ELSE "EC_NACK", ListedGaps(Missing))
    <2>1. m \in Messages /\ m.gaps = ListedGaps(Missing)
      BY GapsAreData DEF Message, Messages, Types
    <2>2. Send(m)
      BY DEF RequestResend
    <2> HIDE DEF m
    <2>3. ctrl'[Len(ctrl')] = m
      BY <2>1, <2>2, SendFacts DEF Inv
    <2>4. c \in ListedGaps(Missing)
      BY FirstGapListed DEF Missing
    <2> QED
      BY <2>1, <2>3, <2>4
  <1> QED
    BY <1>1, Invariance, PTL DEF Spec, LowestAsked

-----------------------------------------------------------------------------
(* Refinement of ReliableTransfer *)

\* Steps that neither complete the transfer nor decide it nor end poll are
\* stuttering steps.
LEMMA Stutters ==
    ASSUME UNCHANGED <<state, shown, ret, hungUp>>,
           rpc' \in {"closing", "closed"} <=> rpc \in {"closing", "closed"}
    PROVE  UNCHANGED Transfer!vars
  BY DEF Transfer!vars, IsComplete

\* The erasure coding layer implements ReliableTransfer, for any message and
\* code, under any loss and whether or not chunks are decoded.
THEOREM TransferRefinement == Spec => ImplementsTransfer
  <1>1. Init => Transfer!Init
    <2> SUFFICES ASSUME Init PROVE Transfer!Init
      OBVIOUS
    <2>1. ~IsComplete
      BY ChunkFacts DEF Init, IsComplete
    <2> QED
      BY <2>1 DEF Init, Transfer!Init
  <1>2. Inv /\ [Next]_vars => [Transfer!Next]_Transfer!vars
    <2> SUFFICES ASSUME Inv, [Next]_vars PROVE [Transfer!Next]_Transfer!vars
      OBVIOUS
    <2>0. TypeOK /\ CompletionSound /\ AckPending
      BY DEF Inv
    <2>1. ASSUME rpc \notin {"closing", "closed"}, rpc' \notin {"closing", "closed"},
                 UNCHANGED <<ret, hungUp>>, IsComplete => IsComplete'
          PROVE  [Transfer!Next]_Transfer!vars
      <3>1. CASE IsComplete'
        <4>1. Transfer!Finish
          BY <2>1, <3>1 DEF Transfer!Finish
        <4> QED
          BY <4>1 DEF Transfer!Next
      <3>2. CASE ~IsComplete'
        <4>1. IsComplete' = IsComplete
          BY <2>1, <3>2 DEF IsComplete
        <4> QED
          BY <2>1, <4>1 DEF Transfer!vars
      <3> QED
        BY <3>1, <3>2
    <2>2. ASSUME NEW c \in All, Arrive(c) PROVE [Transfer!Next]_Transfer!vars
      <3>1. IsComplete => IsComplete'
        BY <2>0, <2>2 DEF Arrive, IsComplete, TypeOK
      <3> QED
        BY <2>1, <2>2, <3>1 DEF Arrive
    <2>3. CASE AllPresent \/ Decode
      <3>1. IsComplete'
        BY <2>3 DEF AllPresent, Decode, IsComplete
      <3> QED
        BY <2>1, <2>3, <3>1 DEF AllPresent, Decode
    <2>4. ASSUME NEW c \in All, Lose(c) PROVE UNCHANGED Transfer!vars
      BY <2>4, Stutters DEF Lose
    <2>5. CASE EncodeAndSend \/ HandleNack \/ IgnoreIncomplete \/ ControlTimeout \/ SendPollSkips
               \/ SendPollFails
      BY <2>5, Stutters DEF EncodeAndSend, HandleNack, IgnoreIncomplete, ControlTimeout,
          SendPollSkips, SendPollFails
    <2>6. CASE RequestResend \/ StartDecode \/ DecodeFails \/ GiveUp
      BY <2>6, Stutters DEF RequestResend, StartDecode, DecodeFails, GiveUp
    <2>7. ASSUME spc # "done", ret' = "0", IsComplete \/ hungUp,
                 UNCHANGED <<rpc, state, shown, hungUp>>
          PROVE  Transfer!Next
      <3>1. ret = "none" /\ (IsComplete <=> IsComplete')
        BY <2>0, <2>7 DEF AckPending, IsComplete
      <3>2. Transfer!Succeed
        BY <2>7, <3>1 DEF Transfer!Succeed
      <3> QED
        BY <3>2 DEF Transfer!Next
    <2>8. CASE HandleAck \/ SendPollCompletes
      <3>1. Received({"EC_ACK", "COMPLETE_ACK"}) \/ Received({"COMPLETE_ACK"})
        BY <2>8 DEF HandleAck, SendPollCompletes
      <3>2. IsComplete
        BY <2>0, <3>1, ReceivedFacts DEF CompletionSound
      <3> QED
        BY <2>7, <2>8, <3>2 DEF HandleAck, SendPollCompletes, Return
    <2>9. CASE ConnectionClosed
      BY <2>7, <2>9 DEF ConnectionClosed, ReadsEnd, Return
    <2>10. CASE SendPollClosed
      <3>1. /\ ctrl = <<>> /\ hungUp /\ spc = "send_poll" /\ ret' = "-1"
            /\ UNCHANGED <<rpc, state, shown, hungUp>>
        BY <2>10 DEF SendPollClosed, ReadsEnd, Return
      <3>2. rpc = "closed" /\ ret = "none" /\ ~IsComplete /\ IsComplete' = IsComplete
        BY <2>0, <3>1 DEF AckPending, IsComplete
      <3>3. Transfer!Fail
        BY <3>1, <3>2 DEF Transfer!Fail
      <3> QED
        BY <3>3 DEF Transfer!Next
    <2>11. CASE Complete
      <3>1. rpc = "complete" /\ rpc' = "closing" /\ UNCHANGED <<ret, state, shown, hungUp>>
        BY <2>11 DEF Complete
      <3>2. IsComplete <=> IsComplete'
        BY <3>1 DEF IsComplete
      <3>3. Transfer!Decide
        BY <3>1, <3>2 DEF Transfer!Decide
      <3> QED
        BY <3>3 DEF Transfer!Next
    <2>12. CASE HangUp
      <3>1. rpc = "closing" /\ rpc' = "closed" /\ hungUp' = TRUE /\ UNCHANGED <<ret, state, shown>>
        BY <2>12 DEF HangUp
      <3>2. IsComplete <=> IsComplete'
        BY <3>1 DEF IsComplete
      <3>3. Transfer!Part
        BY <3>1, <3>2 DEF Transfer!Part
      <3> QED
        BY <3>3 DEF Transfer!Next
    <2>13. CASE UNCHANGED vars
      BY <2>13, Stutters DEF vars
    <2> QED
      BY <2>2, <2>3, <2>4, <2>5, <2>6, <2>8, <2>9, <2>10, <2>11, <2>12, <2>13
      DEF Next, SenderStep, ReceiverStep
  <1> QED
    BY <1>1, <1>2, Invariance, PTL DEF Spec, ImplementsTransfer, Transfer!Spec
=============================================================================
