------------------------- MODULE ReceivePath_proofs -------------------------
(***************************************************************************)
(* Proofs about ReceivePath for any number of workers, any buffer size,    *)
(* MTU and chunk size, and any sender message that fits the header field.  *)
(***************************************************************************)
EXTENDS ReceivePath, FiniteSetTheorems, TLAPS

-----------------------------------------------------------------------------
(* Arithmetic of the sizes *)

\* Multiplying by a natural number is monotonic.
LEMMA TimesMonotonic ==
    ASSUME NEW m \in Int, NEW n \in Int, NEW b \in Nat, m <= n
    PROVE  m * b <= n * b
  OBVIOUS

\* What division rounding down returns.
LEMMA DivBounds ==
    ASSUME NEW x \in Nat, NEW b \in Nat \ {0}
    PROVE  /\ x \div b \in Nat
           /\ (x \div b) * b <= x
           /\ x < (x \div b) * b + b
  OBVIOUS

\* calculate_bitmap_sizes rounds up: the bit index bound p < total_packets and
\* the byte bound of write_packet_to_buffer, p * mtu < buffer_size, agree.
LEMMA CeilDivBounds ==
    ASSUME NEW a \in Nat \ {0}, NEW b \in Nat \ {0}
    PROVE  /\ CeilDiv(a, b) \in Nat \ {0}
           /\ \A p \in Nat : p < CeilDiv(a, b) <=> p * b < a
  <1> DEFINE q == CeilDiv(a, b)
  <1>1. q \in Nat /\ q * b <= a + b - 1 /\ a + b - 1 < q * b + b
    BY DivBounds, a + b - 1 \in Nat DEF CeilDiv
  <1> HIDE DEF q
  <1>2. ASSUME NEW p \in Nat, p < q PROVE p * b < a
    <2>1. (p + 1) * b <= q * b
      BY <1>1, <1>2, TimesMonotonic, p + 1 <= q, p + 1 \in Int
    <2>2. (p + 1) * b = p * b + b
      OBVIOUS
    <2>3. p * b \in Int /\ q * b \in Int
      BY <1>1
    <2> QED
      BY <1>1, <2>1, <2>2, <2>3
  <1>3. ASSUME NEW p \in Nat, p * b < a PROVE p < q
    <2> SUFFICES ASSUME q <= p PROVE FALSE
      BY <1>1
    <2>1. q * b <= p * b
      BY <1>1, TimesMonotonic
    <2>2. p * b \in Int /\ q * b \in Int
      BY <1>1
    <2> QED
      BY <1>1, <1>3, <2>1, <2>2
  <1>4. q # 0
    <2>1. 0 < q
      BY <1>3, 0 \in Nat, 0 * b = 0
    <2> QED BY <2>1
  <1> QED
    BY <1>1, <1>2, <1>3, <1>4 DEF q

-----------------------------------------------------------------------------
(* Facts about packets and chunks *)

\* The sizes are positive and the two bounds checks agree.
LEMMA SizeFacts ==
    /\ TotalPackets \in Nat \ {0}
    /\ TotalChunks \in Nat \ {0}
    /\ \A p \in Nat : p \in Packets <=> InBuffer(p)
  <1>1. TotalPackets \in Nat \ {0} /\ \A p \in Nat : p < TotalPackets <=> p * Mtu < BufferSize
    BY SizesAssumption, CeilDivBounds DEF TotalPackets
  <1>2. TotalChunks \in Nat \ {0}
    BY <1>1, SizesAssumption, CeilDivBounds DEF TotalChunks
  <1> QED
    BY <1>1, <1>2 DEF Packets, InBuffer

\* A packet of the sender keeps its index in the header: the field is wide
\* enough for the messages considered.
LEMMA HeaderFacts ==
    ASSUME NEW d \in Datagrams
    PROVE  /\ HeaderOffset(d) = d[2]
           /\ HeaderOffset(d) \in Nat
           /\ d[1] = "this" => d = <<"this", HeaderOffset(d)>>
  <1>1. d[2] \in 0 .. SentPackets - 1 /\ d = <<d[1], d[2]>>
    BY DEF Datagrams
  <1>2. d[2] % OffsetSpace = d[2]
    BY <1>1, SizesAssumption, OffsetAssumption
  <1> QED
    BY <1>1, <1>2 DEF HeaderOffset

\* The chunks cover the message: every packet belongs to a chunk.
LEMMA ChunksCover ==
    ASSUME NEW p \in Packets
    PROVE  \E c \in Chunks : p \in PacketsOf(c)
  <1> DEFINE c == p \div PacketsPerChunk
  <1>1. p \in Nat /\ p < TotalPackets
    BY SizeFacts DEF Packets
  <1>2. c \in Nat /\ c * PacketsPerChunk <= p /\ p < c * PacketsPerChunk + PacketsPerChunk
    BY <1>1, SizesAssumption, DivBounds
  <1> HIDE DEF c
  <1>3. c * PacketsPerChunk < TotalPackets
    BY <1>1, <1>2, SizesAssumption, SizeFacts
  <1>4. c < TotalChunks
    BY <1>2, <1>3, SizesAssumption, SizeFacts, CeilDivBounds DEF TotalChunks
  <1>5. c \in Chunks
    BY <1>2, <1>4, SizeFacts DEF Chunks
  <1>6. p \in PacketsOf(c)
    BY <1>1, <1>2, SizesAssumption, SizeFacts DEF PacketsOf, ChunkEnd
  <1> QED
    BY <1>5, <1>6

\* A chunk has only packets of the message.
LEMMA ChunkPackets ==
    ASSUME NEW c \in Chunks
    PROVE  PacketsOf(c) \subseteq Packets
  <1>1. c \in Nat
    BY SizeFacts DEF Chunks
  <1>2. c * PacketsPerChunk \in Nat
    BY <1>1, SizesAssumption
  <1> QED
    BY <1>2, SizesAssumption, SizeFacts DEF PacketsOf, ChunkEnd, Packets

\* The place of a packet's bit in the bitmap.
LEMMA BitPlace ==
    ASSUME NEW p \in Nat
    PROVE  /\ p \div WordSize \in Nat
           /\ p % WordSize \in 0 .. WordSize - 1
           /\ p = (p \div WordSize) * WordSize + (p % WordSize)
  BY SizesAssumption

\* A word index and a bit position name one packet.
LEMMA PlaceUnique ==
    ASSUME NEW i \in Nat, NEW b \in 0 .. WordSize - 1
    PROVE  /\ i * WordSize + b \in Nat
           /\ (i * WordSize + b) \div WordSize = i
           /\ (i * WordSize + b) % WordSize = b
  BY SizesAssumption

\* Later packets are not in earlier words.
LEMMA WordsInOrder ==
    ASSUME NEW p \in Nat, NEW q \in Nat, p <= q
    PROVE  p \div WordSize <= q \div WordSize
  <1>1. (p \div WordSize) * WordSize <= p /\ q < (q \div WordSize) * WordSize + WordSize
    BY SizesAssumption, DivBounds
  <1>2. p \div WordSize \in Nat /\ q \div WordSize \in Nat
    BY BitPlace
  <1> SUFFICES ASSUME q \div WordSize + 1 <= p \div WordSize PROVE FALSE
    BY <1>2
  <1>3. (q \div WordSize + 1) * WordSize <= (p \div WordSize) * WordSize
    BY <1>2, SizesAssumption, TimesMonotonic
  <1> QED
    BY <1>1, <1>2, <1>3, SizesAssumption

\* check_chunk_range, with its masks and whole words, answers whether every
\* packet of the range is marked, wherever the range starts and ends in a word.
LEMMA RangeCheck ==
    ASSUME NEW first \in Nat, NEW end \in Nat, first < end
    PROVE  CheckChunkRange(first, end) <=> first .. end - 1 \subseteq backend
  <1> DEFINE last == end - 1
             sw == first \div WordSize
             sb == first % WordSize
             ew == last \div WordSize
             eb == last % WordSize
  <1>1. last \in Nat /\ first <= last
    OBVIOUS
  <1>2. /\ sw \in Nat /\ sb \in 0 .. WordSize - 1 /\ first = sw * WordSize + sb
        /\ ew \in Nat /\ eb \in 0 .. WordSize - 1 /\ last = ew * WordSize + eb
        /\ sw <= ew
    BY <1>1, BitPlace, WordsInOrder
  <1>3. CheckChunkRange(first, end) <=>
          IF sw = ew THEN sb .. (eb + 1) - 1 \subseteq Word(sw)
          ELSE /\ sb .. WordSize - 1 \subseteq Word(sw)
               /\ \A i \in sw + 1 .. ew - 1 : Word(i) = 0 .. WordSize - 1
               /\ 0 .. (eb + 1) - 1 \subseteq Word(ew)
    BY DEF CheckChunkRange
  <1> HIDE DEF sw, sb, ew, eb, last
  <1>4. WordSize \in Nat \ {0}
    BY SizesAssumption
  <1>5. ASSUME first .. last \subseteq backend PROVE CheckChunkRange(first, end)
    <2>1. ASSUME NEW i \in Nat, NEW b \in 0 .. WordSize - 1,
                 first <= i * WordSize + b, i * WordSize + b <= last
          PROVE  b \in Word(i)
      BY <1>1, <1>4, <1>5, <2>1, PlaceUnique DEF Word
    <2>2. CASE sw = ew
      <3>1. ASSUME NEW b \in sb .. eb PROVE b \in Word(sw)
        BY <1>2, <1>4, <2>1, <2>2, <3>1
      <3> QED
        BY <1>2, <1>3, <2>2, <3>1
    <2>3. CASE sw # ew
      <3>0. sw + 1 <= ew /\ (sw + 1) * WordSize <= ew * WordSize
            /\ (sw + 1) * WordSize = sw * WordSize + WordSize
        BY <1>2, <1>4, <2>3, TimesMonotonic
      <3>1. ASSUME NEW b \in sb .. WordSize - 1 PROVE b \in Word(sw)
        BY <1>2, <1>4, <2>1, <3>0, <3>1
      <3>2. ASSUME NEW b \in 0 .. eb PROVE b \in Word(ew)
        BY <1>2, <1>4, <2>1, <3>0, <3>2
      <3>3. ASSUME NEW i \in sw + 1 .. ew - 1 PROVE Word(i) = 0 .. WordSize - 1
        <4>1. (sw + 1) * WordSize <= i * WordSize /\ (i + 1) * WordSize <= ew * WordSize
          BY <1>2, <1>4, <3>3, TimesMonotonic
        <4>2. (i + 1) * WordSize = i * WordSize + WordSize /\ i \in Nat
          BY <1>2, <1>4, <3>3
        <4>3. ASSUME NEW b \in 0 .. WordSize - 1 PROVE b \in Word(i)
          BY <1>2, <1>4, <2>1, <3>0, <4>1, <4>2, <4>3
        <4> QED
          BY <4>3 DEF Word
      <3> QED
        BY <1>2, <1>3, <2>3, <3>1, <3>2, <3>3
    <2> QED
      BY <2>2, <2>3
  <1>6. ASSUME CheckChunkRange(first, end), NEW p \in first .. last PROVE p \in backend
    <2> DEFINE i == p \div WordSize
               b == p % WordSize
    <2>1. i \in Nat /\ b \in 0 .. WordSize - 1 /\ p = i * WordSize + b /\ sw <= i /\ i <= ew
      BY <1>1, BitPlace, WordsInOrder DEF sw, ew
    <2> HIDE DEF i, b
    <2>2. i = sw => sb <= b
      BY <1>2, <1>4, <2>1
    <2>3. i = ew => b <= eb
      BY <1>1, <1>2, <1>4, <2>1
    <2>4. b \in Word(i)
      BY <1>2, <1>3, <1>4, <1>6, <2>1, <2>2, <2>3
    <2> QED
      BY <2>1, <2>4 DEF Word
  <1> QED
    BY <1>5, <1>6 DEF last

\* The poller's test of a chunk tells whether all its packets are marked.
LEMMA ChunkCompleteIsMarked ==
    ASSUME NEW c \in Chunks
    PROVE  ChunkComplete(c) <=> PacketsOf(c) \subseteq backend
  <1>1. c \in Nat /\ c < TotalChunks
    BY SizeFacts DEF Chunks
  <1>2. c * PacketsPerChunk \in Nat /\ c * PacketsPerChunk < TotalPackets
    BY <1>1, SizesAssumption, SizeFacts, CeilDivBounds DEF TotalChunks
  <1>3. ChunkEnd(c) \in Nat /\ c * PacketsPerChunk < ChunkEnd(c)
    BY <1>2, SizesAssumption, SizeFacts DEF ChunkEnd
  <1> QED
    BY <1>2, <1>3, RangeCheck DEF ChunkComplete, PacketsOf

\* Counting the completed chunks tells whether all of them are.
LEMMA CountChunks ==
    ASSUME NEW S \in SUBSET Chunks
    PROVE  (TotalChunks > 0 /\ Cardinality(S) >= TotalChunks) <=> S = Chunks
  <1>1. IsFiniteSet(Chunks) /\ Cardinality(Chunks) = TotalChunks
    BY SizeFacts, FS_Interval DEF Chunks
  <1>2. Cardinality(S) <= Cardinality(Chunks) /\ (Cardinality(S) = Cardinality(Chunks) => S = Chunks)
    BY <1>1, FS_Subset
  <1>3. Cardinality(S) \in Nat
    BY <1>1, FS_Subset, FS_CardinalityType
  <1> QED
    BY <1>1, <1>2, <1>3, SizeFacts

-----------------------------------------------------------------------------
(* The inductive invariant *)

Closing == {"destroying", "destroy_notifying", "destroy_joining", "closed"}

\* Before allocation nothing runs and nothing is marked.
Unstarted ==
    app = "offered" => backend = {} /\ \A w \in Workers : wpc[w] = "off"

\* A worker past the checks holds a packet of this transfer.
HeldPackets ==
    \A w \in Workers : wpc[w] \in {"dup", "bounds", "copy", "mark"}
        => pkt[w] \in Datagrams /\ pkt[w][1] = "this"

\* A worker about to copy has an offset inside the buffer and, until the
\* redirection, the pointer to the user buffer.
ReadyToCopy ==
    \A w \in Workers : wpc[w] = "copy"
        => /\ HeaderOffset(pkt[w]) \in Packets
           /\ target # "sink" => ptr[w] = "user" /\ target = "user"

\* A worker about to mark has copied its packet, unless the message was
\* redirected meanwhile.
ReadyToMark ==
    \A w \in Workers : wpc[w] = "mark" /\ target # "sink" /\ HeaderOffset(pkt[w]) \in Packets
        => Landed(HeaderOffset(pkt[w]))

\* No packet is put in another packet's place but past the null sink.
OwnPlace == ~overrun => \A p \in Packets : userbuf[p] \in {Untouched, <<"this", p>>}

\* Until the redirection marked packets are in the buffer.
MarkedLanded == target # "sink" => \A p \in backend : Landed(p)

\* Before the redirection no copy goes to the null sink.
OverrunLate == overrun => target = "sink"

\* The poller is joined before the message is redirected.
JoinedFirst ==
    /\ app \in {"deciding", "redirecting", "replying", "completed"} => poller = "joined"
    /\ target = "sink" => /\ poller = "joined"
                          /\ app \in {"replying", "completed", "stopping"} \cup Closing
    /\ app = "replying" => target = "sink"
    /\ target = "null" => app = "offered"

\* What is_complete and the reply mean.
Decided ==
    /\ app \in {"redirecting", "replying"} => (isComplete <=> frontend = Chunks)
    /\ outcome = "COMPLETE_ACK" => frontend = Chunks
    /\ outcome # "none" => /\ app \in {"completed", "stopping"} \cup Closing
                           /\ poller = "joined"

\* The order of teardown.
TornDown ==
    /\ app \in Closing => \A w \in Workers : wpc[w] \in {"off", "done"}
    /\ slot = "freed" => app = "closed"
    /\ app = "closed" => poller \in {"off", "joined"}

Inv ==
    /\ TypeOK /\ Unstarted /\ HeldPackets /\ ReadyToCopy /\ ReadyToMark
    /\ OwnPlace /\ MarkedLanded /\ OverrunLate /\ JoinedFirst /\ Decided /\ TornDown /\ ChunkSound

USE DEF workerVars, pollerVars, bufferVars, WorkerOnly, PollerOnly

\* Types are preserved by every step.
LEMMA TypeStep == TypeOK /\ [Next]_vars => TypeOK'
  <1> SUFFICES ASSUME TypeOK, [Next]_vars PROVE TypeOK'
    OBVIOUS
  <1>1. CASE PostAllocate
    BY <1>1 DEF TypeOK, AppStates, PostAllocate
  <1>2. CASE PostStartPolling
    BY <1>2 DEF TypeOK, AppStates, PostStartPolling
  <1>3. CASE PostStartUdp
    BY <1>3 DEF TypeOK, AppStates, PostStartUdp
  <1>4. CASE PostUdpFails
    BY <1>4 DEF TypeOK, AppStates, PostUdpFails
  <1>5. CASE PostSendCts
    BY <1>5 DEF TypeOK, AppStates, PostSendCts
  <1>6. CASE PostAwaitAccept
    BY <1>6 DEF TypeOK, AppStates, PostAwaitAccept
  <1>7. CASE CompleteStop
    BY <1>7 DEF TypeOK, AppStates, CompleteStop, StopFlag
  <1>8. CASE CompleteNotify
    BY <1>8 DEF TypeOK, AppStates, CompleteNotify, StopNotify
  <1>9. CASE CompleteJoin
    BY <1>9 DEF TypeOK, AppStates, CompleteJoin, StopJoin
  <1>10. CASE CompleteDead
    BY <1>10 DEF TypeOK, AppStates, CompleteDead, AllChunksShown
  <1>11. CASE CompleteRedirect
    BY <1>11 DEF TypeOK, AppStates, CompleteRedirect
  <1>12. CASE CompleteReply
    BY <1>12 DEF TypeOK, AppStates, CompleteReply
  <1>13. CASE Disconnect
    BY <1>13 DEF TypeOK, AppStates, Disconnect
  <1>14. CASE JoinWorkers
    BY <1>14 DEF TypeOK, AppStates, JoinWorkers, WorkersHaveReturned
  <1>15. CASE DestroyStop
    BY <1>15 DEF TypeOK, AppStates, DestroyStop, StopFlag
  <1>16. CASE DestroyNotify
    BY <1>16 DEF TypeOK, AppStates, DestroyNotify, StopNotify
  <1>17. CASE DestroyJoin
    BY <1>17 DEF TypeOK, AppStates, DestroyJoin, StopJoin
  <1>18. CASE Destroy
    BY <1>18 DEF TypeOK, AppStates, Destroy, Joinable
  <1>19. ASSUME NEW w \in Workers, WLoop(w) PROVE TypeOK'
    BY <1>19 DEF TypeOK, WLoop, WorkerAfterCheck
  <1>20. ASSUME NEW w \in Workers, WIdle(w) PROVE TypeOK'
    BY <1>20 DEF TypeOK, WIdle
  <1>21. ASSUME NEW w \in Workers, WError(w) PROVE TypeOK'
    BY <1>21 DEF TypeOK, WError
  <1>22. ASSUME NEW w \in Workers, WDup(w) PROVE TypeOK'
    BY <1>22 DEF TypeOK, WDup, PacketDone
  <1>23. ASSUME NEW w \in Workers, WBounds(w) PROVE TypeOK'
    BY <1>23 DEF TypeOK, WBounds
  <1>24. ASSUME NEW w \in Workers, WCopy(w) PROVE TypeOK'
    <2>1. \/ userbuf' = userbuf
          \/ \E p : userbuf' = [userbuf EXCEPT ![p] = pkt[w]]
      BY <1>24 DEF WCopy, CopyTo, RunPastSink
    <2>2. userbuf' \in [Packets -> Datagrams \cup {Untouched}]
      BY <2>1 DEF TypeOK
    <2>3. overrun' \in BOOLEAN
      BY <1>24, Zenon DEF TypeOK, WCopy, CopyTo, RunPastSink
    <2> QED
      BY <1>24, <2>2, <2>3 DEF TypeOK, WCopy
  <1>25. ASSUME NEW w \in Workers, WMark(w) PROVE TypeOK'
    BY <1>25 DEF TypeOK, WMark, PacketDone, BitOf
  <1>26. ASSUME NEW w \in Workers, NEW d \in Datagrams, WRecv(w, d) PROVE TypeOK'
    BY <1>26 DEF TypeOK, WRecv, Accepts
  <1>27. CASE PCheck
    BY <1>27, SizeFacts DEF TypeOK, PCheck, Chunks
  <1>28. CASE PScan
    BY <1>28, SizeFacts DEF TypeOK, PScan, Chunks, MoreChunks
  <1>29. CASE PPredicate
    BY <1>29 DEF TypeOK, PPredicate
  <1>30. CASE PBlock
    BY <1>30 DEF TypeOK, PBlock
  <1>31. CASE PTimeout
    BY <1>31 DEF TypeOK, PTimeout, PollTimeoutExpires
  <1>32. CASE UNCHANGED vars
    BY <1>32 DEF TypeOK, vars
  <1> QED
    BY <1>1, <1>2, <1>3, <1>4, <1>5, <1>6, <1>7, <1>8, <1>9, <1>10, <1>11, <1>12, <1>13, <1>14, <1>15, <1>16, <1>17, <1>18, <1>19, <1>20, <1>21, <1>22, <1>23, <1>24, <1>25, <1>26, <1>27, <1>28, <1>29, <1>30, <1>31, <1>32
       DEF Next, AppPosting, AppCompleting, AppClosing, Worker, WorkerStep, Poller

\* The invariant holds initially.
LEMMA InvInit == Init => Inv
  <1> SUFFICES ASSUME Init PROVE Inv
    OBVIOUS
  <1>1. TypeOK
    <2>1. scan \in 0 .. TotalChunks
      BY SizeFacts DEF Init
    <2>2. stopPoll \in BOOLEAN /\ stopUdp \in BOOLEAN /\ cts \in BOOLEAN /\ isComplete \in BOOLEAN
          /\ overrun \in BOOLEAN
      BY Zenon DEF Init
    <2> QED
      BY <2>1, <2>2 DEF Init, TypeOK, AppStates
  <1> QED
    BY <1>1 DEF Init, Inv, Unstarted, HeldPackets, ReadyToCopy, ReadyToMark, OwnPlace,
        MarkedLanded, OverrunLate, JoinedFirst, Decided, TornDown, ChunkSound, Closing

\* The parts of the invariant about the application thread's progress, and
\* those about the workers and what they have written.
Progress == Unstarted /\ JoinedFirst /\ Decided /\ TornDown

Contents == HeldPackets /\ ReadyToCopy /\ ReadyToMark /\ OwnPlace /\ MarkedLanded
            /\ OverrunLate /\ ChunkSound

\* A step of the application thread preserves the invariant.
LEMMA AppStep ==
    ASSUME Inv, AppPosting \/ CompleteStop \/ AppCompleting \/ Disconnect \/ AppClosing
    PROVE  Progress' /\ Contents'
  <1> USE DEF Inv, Landed
  <1>1. CASE PostAllocate
    <2>1. Progress'
      BY <1>1 DEF TypeOK, Progress, Unstarted, JoinedFirst, Decided, TornDown, Closing,
          PostAllocate
    <2>2. Contents'
      BY <1>1 DEF TypeOK, JoinedFirst, Unstarted, Contents, HeldPackets, ReadyToCopy, ReadyToMark, OwnPlace, MarkedLanded, OverrunLate, ChunkSound,
          Closing, PostAllocate
    <2> QED BY <2>1, <2>2
  <1>2. CASE PostStartPolling
    <2>1. Progress'
      BY <1>2 DEF TypeOK, Progress, Unstarted, JoinedFirst, Decided, TornDown, Closing,
          PostStartPolling
    <2>2. Contents'
      BY <1>2 DEF TypeOK, JoinedFirst, Unstarted, Contents, HeldPackets, ReadyToCopy, ReadyToMark, OwnPlace, MarkedLanded, OverrunLate, ChunkSound,
          PostStartPolling
    <2> QED BY <2>1, <2>2
  <1>3. CASE PostStartUdp
    <2>1. Progress'
      BY <1>3 DEF TypeOK, Progress, Unstarted, JoinedFirst, Decided, TornDown, Closing,
          PostStartUdp
    <2>2. Contents'
      BY <1>3 DEF TypeOK, JoinedFirst, Unstarted, Contents, HeldPackets, ReadyToCopy, ReadyToMark, OwnPlace, MarkedLanded, OverrunLate, ChunkSound,
          PostStartUdp
    <2> QED BY <2>1, <2>2
  <1>4. CASE PostUdpFails
    <2>1. Progress'
      BY <1>4 DEF TypeOK, Progress, Unstarted, JoinedFirst, Decided, TornDown, Closing,
          PostUdpFails
    <2>2. Contents'
      BY <1>4 DEF TypeOK, JoinedFirst, Unstarted, Contents, HeldPackets, ReadyToCopy, ReadyToMark, OwnPlace, MarkedLanded, OverrunLate, ChunkSound,
          PostUdpFails
    <2> QED BY <2>1, <2>2
  <1>5. CASE PostSendCts
    <2>1. Progress'
      BY <1>5 DEF TypeOK, Progress, Unstarted, JoinedFirst, Decided, TornDown, Closing,
          PostSendCts
    <2>2. Contents'
      BY <1>5 DEF TypeOK, JoinedFirst, Unstarted, Contents, HeldPackets, ReadyToCopy, ReadyToMark, OwnPlace, MarkedLanded, OverrunLate, ChunkSound,
          PostSendCts
    <2> QED BY <2>1, <2>2
  <1>6. CASE PostAwaitAccept
    <2>1. Progress'
      BY <1>6 DEF TypeOK, Progress, Unstarted, JoinedFirst, Decided, TornDown, Closing,
          PostAwaitAccept
    <2>2. Contents'
      BY <1>6 DEF TypeOK, JoinedFirst, Unstarted, Contents, HeldPackets, ReadyToCopy, ReadyToMark, OwnPlace, MarkedLanded, OverrunLate, ChunkSound,
          PostAwaitAccept
    <2> QED BY <2>1, <2>2
  <1>7. CASE CompleteStop
    <2>1. Progress'
      BY <1>7 DEF TypeOK, Progress, Unstarted, JoinedFirst, Decided, TornDown, Closing,
          CompleteStop, StopFlag
    <2>2. Contents'
      BY <1>7 DEF TypeOK, JoinedFirst, Unstarted, Contents, HeldPackets, ReadyToCopy, ReadyToMark, OwnPlace, MarkedLanded, OverrunLate, ChunkSound,
          CompleteStop, StopFlag
    <2> QED BY <2>1, <2>2
  <1>8. CASE CompleteNotify
    <2>1. Progress'
      BY <1>8 DEF TypeOK, Progress, Unstarted, JoinedFirst, Decided, TornDown, Closing,
          CompleteNotify, StopNotify
    <2>2. Contents'
      BY <1>8 DEF TypeOK, JoinedFirst, Unstarted, Contents, HeldPackets, ReadyToCopy, ReadyToMark, OwnPlace, MarkedLanded, OverrunLate, ChunkSound,
          CompleteNotify, StopNotify
    <2> QED BY <2>1, <2>2
  <1>9. CASE CompleteJoin
    <2>1. Progress'
      BY <1>9 DEF TypeOK, Progress, Unstarted, JoinedFirst, Decided, TornDown, Closing,
          CompleteJoin, StopJoin
    <2>2. Contents'
      BY <1>9 DEF TypeOK, JoinedFirst, Unstarted, Contents, HeldPackets, ReadyToCopy, ReadyToMark, OwnPlace, MarkedLanded, OverrunLate, ChunkSound,
          CompleteJoin, StopJoin
    <2> QED BY <2>1, <2>2
  <1>10. CASE CompleteDead
    <2>a. AllChunksShown <=> frontend = Chunks
      BY CountChunks DEF TypeOK, AllChunksShown
    <2>b. isComplete' <=> frontend' = Chunks
      BY <1>10, <2>a DEF CompleteDead
    <2>1. Progress'
      BY <1>10, <2>b DEF TypeOK, Progress, Unstarted, JoinedFirst, Decided, TornDown, Closing,
          CompleteDead
    <2>2. Contents'
      BY <1>10 DEF TypeOK, JoinedFirst, Unstarted, Contents, HeldPackets, ReadyToCopy, ReadyToMark, OwnPlace, MarkedLanded, OverrunLate, ChunkSound,
          CompleteDead, AllChunksShown
    <2> QED BY <2>1, <2>2
  <1>11. CASE CompleteRedirect
    <2>1. Progress'
      BY <1>11 DEF TypeOK, Progress, Unstarted, JoinedFirst, Decided, TornDown, Closing,
          CompleteRedirect
    <2>2. Contents'
      BY <1>11 DEF TypeOK, JoinedFirst, Unstarted, Contents, HeldPackets, ReadyToCopy, ReadyToMark, OwnPlace, MarkedLanded, OverrunLate, ChunkSound,
          CompleteRedirect
    <2> QED BY <2>1, <2>2
  <1>12. CASE CompleteReply
    <2>1. Progress'
      BY <1>12 DEF TypeOK, Progress, Unstarted, JoinedFirst, Decided, TornDown, Closing,
          CompleteReply
    <2>2. Contents'
      BY <1>12 DEF TypeOK, JoinedFirst, Unstarted, Contents, HeldPackets, ReadyToCopy, ReadyToMark, OwnPlace, MarkedLanded, OverrunLate, ChunkSound,
          CompleteReply
    <2> QED BY <2>1, <2>2
  <1>13. CASE Disconnect
    <2>1. Progress'
      BY <1>13 DEF TypeOK, Progress, Unstarted, JoinedFirst, Decided, TornDown, Closing,
          Disconnect
    <2>2. Contents'
      BY <1>13 DEF TypeOK, JoinedFirst, Unstarted, Contents, HeldPackets, ReadyToCopy, ReadyToMark, OwnPlace, MarkedLanded, OverrunLate, ChunkSound,
          Disconnect
    <2> QED BY <2>1, <2>2
  <1>14. CASE JoinWorkers
    <2>1. Progress'
      BY <1>14 DEF TypeOK, Progress, Unstarted, JoinedFirst, Decided, TornDown, Closing,
          JoinWorkers, WorkersHaveReturned
    <2>2. Contents'
      BY <1>14 DEF TypeOK, JoinedFirst, Unstarted, Contents, HeldPackets, ReadyToCopy, ReadyToMark, OwnPlace, MarkedLanded, OverrunLate, ChunkSound,
          JoinWorkers, WorkersHaveReturned
    <2> QED BY <2>1, <2>2
  <1>15. CASE DestroyStop
    <2>1. Progress'
      BY <1>15 DEF TypeOK, Progress, Unstarted, JoinedFirst, Decided, TornDown, Closing,
          DestroyStop, StopFlag
    <2>2. Contents'
      BY <1>15 DEF TypeOK, JoinedFirst, Unstarted, Contents, HeldPackets, ReadyToCopy, ReadyToMark, OwnPlace, MarkedLanded, OverrunLate, ChunkSound,
          DestroyStop, StopFlag
    <2> QED BY <2>1, <2>2
  <1>16. CASE DestroyNotify
    <2>1. Progress'
      BY <1>16 DEF TypeOK, Progress, Unstarted, JoinedFirst, Decided, TornDown, Closing,
          DestroyNotify, StopNotify
    <2>2. Contents'
      BY <1>16 DEF TypeOK, JoinedFirst, Unstarted, Contents, HeldPackets, ReadyToCopy, ReadyToMark, OwnPlace, MarkedLanded, OverrunLate, ChunkSound,
          DestroyNotify, StopNotify
    <2> QED BY <2>1, <2>2
  <1>17. CASE DestroyJoin
    <2>1. Progress'
      BY <1>17 DEF TypeOK, Progress, Unstarted, JoinedFirst, Decided, TornDown, Closing,
          DestroyJoin, StopJoin
    <2>2. Contents'
      BY <1>17 DEF TypeOK, JoinedFirst, Unstarted, Contents, HeldPackets, ReadyToCopy, ReadyToMark, OwnPlace, MarkedLanded, OverrunLate, ChunkSound,
          DestroyJoin, StopJoin
    <2> QED BY <2>1, <2>2
  <1>18. CASE Destroy
    <2>1. Progress'
      BY <1>18 DEF TypeOK, Progress, Unstarted, JoinedFirst, Decided, TornDown, Closing,
          Destroy, Joinable
    <2>2. Contents'
      BY <1>18 DEF TypeOK, JoinedFirst, Unstarted, Contents, HeldPackets, ReadyToCopy, ReadyToMark, OwnPlace, MarkedLanded, OverrunLate, ChunkSound,
          Destroy, Joinable
    <2> QED BY <2>1, <2>2
  <1> QED
    BY <1>1, <1>2, <1>3, <1>4, <1>5, <1>6, <1>7, <1>8, <1>9, <1>10, <1>11, <1>12, <1>13, <1>14, <1>15, <1>16, <1>17, <1>18
       DEF AppPosting, AppCompleting, AppClosing

\* A step of a UDP worker preserves the invariant.
LEMMA WorkerPreserves ==
    ASSUME Inv, NEW w \in Workers, Worker(w)
    PROVE  Progress' /\ Contents'
  <1> USE DEF Inv, Landed
  <1>1. CASE WLoop(w)
    <2>1. Progress'
      BY <1>1 DEF TypeOK, Progress, Unstarted, JoinedFirst, Decided, TornDown, Closing,
          WLoop, WorkerAfterCheck
    <2>2. Contents'
      BY <1>1 DEF TypeOK, Contents, HeldPackets, ReadyToCopy, ReadyToMark, OwnPlace, MarkedLanded, OverrunLate, ChunkSound,
          WLoop, WorkerAfterCheck
    <2> QED BY <2>1, <2>2
  <1>2. CASE WIdle(w)
    <2>1. Progress'
      BY <1>2 DEF TypeOK, Progress, Unstarted, JoinedFirst, Decided, TornDown, Closing,
          WIdle
    <2>2. Contents'
      BY <1>2 DEF TypeOK, Contents, HeldPackets, ReadyToCopy, ReadyToMark, OwnPlace, MarkedLanded, OverrunLate, ChunkSound,
          WIdle
    <2> QED BY <2>1, <2>2
  <1>3. CASE WError(w)
    <2>1. Progress'
      BY <1>3 DEF TypeOK, Progress, Unstarted, JoinedFirst, Decided, TornDown, Closing,
          WError
    <2>2. Contents'
      BY <1>3 DEF TypeOK, Contents, HeldPackets, ReadyToCopy, ReadyToMark, OwnPlace, MarkedLanded, OverrunLate, ChunkSound,
          WError
    <2> QED BY <2>1, <2>2
  <1>4. CASE WDup(w)
    <2>1. Progress'
      BY <1>4 DEF TypeOK, Progress, Unstarted, JoinedFirst, Decided, TornDown, Closing,
          WDup, PacketDone
    <2>2. Contents'
      BY <1>4 DEF TypeOK, Contents, HeldPackets, ReadyToCopy, ReadyToMark, OwnPlace, MarkedLanded, OverrunLate, ChunkSound,
          WDup, PacketDone
    <2> QED BY <2>1, <2>2
  <1>5. ASSUME NEW d \in Datagrams, WRecv(w, d) PROVE Progress' /\ Contents'
    <2>1. Progress'
      BY <1>5 DEF TypeOK, Progress, Unstarted, JoinedFirst, Decided, TornDown, Closing,
          WRecv
    <2>2. Contents'
      BY <1>5 DEF TypeOK, Contents, HeldPackets, ReadyToCopy, ReadyToMark, OwnPlace, MarkedLanded, OverrunLate, ChunkSound,
          WRecv, Accepts
    <2> QED BY <2>1, <2>2
  <1>6. CASE WBounds(w)
    <2>1. Progress'
      BY <1>6 DEF TypeOK, Progress, Unstarted, JoinedFirst, Decided, TornDown, Closing,
          WBounds
    <2>2. InBuffer(HeaderOffset(pkt[w])) <=> HeaderOffset(pkt[w]) \in Packets
      BY <1>6, HeaderFacts, SizeFacts DEF WBounds, HeldPackets
    <2>3. target # "null"
      BY <1>6 DEF WBounds, JoinedFirst, Unstarted
    <2>4. Contents'
      BY <1>6, <2>2, <2>3 DEF TypeOK, Contents, HeldPackets, ReadyToCopy, ReadyToMark, OwnPlace, MarkedLanded, OverrunLate, ChunkSound,
          WBounds
    <2> QED BY <2>1, <2>4
  <1>7. CASE WCopy(w)
    <2> DEFINE off == HeaderOffset(pkt[w])
    <2>1. Progress'
      BY <1>7 DEF TypeOK, Progress, Unstarted, JoinedFirst, Decided, TornDown, Closing,
          WCopy
    <2>2. pkt[w] = <<"this", off>> /\ off \in Packets
      BY <1>7, HeaderFacts DEF WCopy, HeldPackets, ReadyToCopy
    <2> HIDE DEF off
    <2>3. \/ overrun' = TRUE /\ target = "sink"
          \/ overrun' = overrun /\ userbuf' = userbuf
          \/ overrun' = overrun /\ userbuf' = [userbuf EXCEPT ![off] = <<"this", off>>]
      BY <1>7, <2>2 DEF WCopy, CopyTo, RunPastSink, ReadyToCopy, off
    <2>4. target # "sink" => userbuf' = [userbuf EXCEPT ![off] = <<"this", off>>]
      BY <1>7, <2>2 DEF WCopy, CopyTo, ReadyToCopy, off
    <2>5. ~overrun' => ~overrun /\ \A p \in Packets : Landed(p) => Landed(p)'
      BY <2>2, <2>3 DEF TypeOK
    <2>6. target # "sink" => userbuf'[off] = <<"this", off>>
      BY <2>2, <2>4 DEF TypeOK
    <2>7. OwnPlace'
      BY <2>2, <2>3 DEF TypeOK, OwnPlace
    <2>8. HeldPackets' /\ ReadyToCopy'
      BY <1>7 DEF TypeOK, WCopy, HeldPackets, ReadyToCopy
    <2>9. OverrunLate' /\ (target # "sink" => ~overrun')
      BY <1>7, <2>3 DEF WCopy, OverrunLate
    <2>10. ReadyToMark'
      BY <1>7, <2>5, <2>6, <2>9 DEF TypeOK, WCopy, ReadyToMark, off
    <2>11. MarkedLanded' /\ ChunkSound'
      BY <1>7, <2>5, <2>9, ChunkPackets DEF TypeOK, WCopy, MarkedLanded, ChunkSound
    <2> QED
      BY <2>1, <2>7, <2>8, <2>9, <2>10, <2>11 DEF Contents
  <1>8. CASE WMark(w)
    <2>1. Progress'
      BY <1>8 DEF TypeOK, Progress, Unstarted, JoinedFirst, Decided, TornDown, Closing,
          WMark, PacketDone
    <2>2. MarkedLanded'
      BY <1>8 DEF WMark, PacketDone, BitOf, MarkedLanded, ReadyToMark
    <2>3. Contents'
      BY <1>8, <2>2 DEF TypeOK, Contents, HeldPackets, ReadyToCopy, ReadyToMark, OwnPlace,
          OverrunLate, ChunkSound, WMark, PacketDone
    <2> QED BY <2>1, <2>3
  <1> QED
    BY <1>1, <1>2, <1>3, <1>4, <1>5, <1>6, <1>7, <1>8 DEF Worker, WorkerStep

\* A step of the poller preserves the invariant: it shows a chunk only while
\* the message is not redirected, when marked packets have landed.
LEMMA PollerPreserves ==
    ASSUME Inv, Poller
    PROVE  Progress' /\ Contents'
  <1> USE DEF Inv, Landed
  <1>1. poller # "joined" /\ target # "sink"
    BY DEF Poller, PCheck, PScan, PPredicate, PBlock, PTimeout, PollTimeoutExpires, JoinedFirst
  <1>2. ASSUME UNCHANGED frontend, poller' # "joined", PollerOnly PROVE Progress' /\ Contents'
    <2>1. app # "closed"
      BY DEF Poller, PCheck, PScan, PPredicate, PBlock, PTimeout, PollTimeoutExpires, TornDown
    <2> QED
      BY <1>1, <1>2, <2>1 DEF Progress, Unstarted, JoinedFirst, Decided, TornDown, Closing,
          Contents, HeldPackets, ReadyToCopy, ReadyToMark, OwnPlace, MarkedLanded, OverrunLate, ChunkSound
  <1>3. CASE PCheck
    BY <1>2, <1>3 DEF PCheck
  <1>4. CASE PScan
    <2>1. Progress'
      BY <1>1, <1>4 DEF PScan, TypeOK, Progress, Unstarted, JoinedFirst, Decided, TornDown, Closing
    <2>2. ChunkSound'
      BY <1>1, <1>4, ChunkCompleteIsMarked DEF PScan, TypeOK, ChunkSound, MarkedLanded
    <2>3. Contents'
      BY <1>4, <2>2 DEF PScan, Contents, HeldPackets, ReadyToCopy, ReadyToMark, OwnPlace, MarkedLanded, OverrunLate
    <2> QED BY <2>1, <2>3
  <1>5. CASE PPredicate
    BY <1>2, <1>5 DEF PPredicate
  <1>6. CASE PBlock
    BY <1>2, <1>6 DEF PBlock
  <1>7. CASE PTimeout
    BY <1>2, <1>7 DEF PTimeout
  <1> QED
    BY <1>3, <1>4, <1>5, <1>6, <1>7 DEF Poller

\* The invariant is inductive.
LEMMA InvStep == Inv /\ [Next]_vars => Inv'
  <1> SUFFICES ASSUME Inv, [Next]_vars PROVE Inv'
    OBVIOUS
  <1>1. TypeOK'
    BY TypeStep DEF Inv
  <1>2. Progress' /\ Contents'
    <2>1. CASE UNCHANGED vars
      BY <2>1 DEF vars, Inv, Landed, Progress, Unstarted, JoinedFirst, Decided, TornDown,
          Contents, HeldPackets, ReadyToCopy, ReadyToMark, OwnPlace, MarkedLanded, OverrunLate, ChunkSound
    <2> QED
      BY <2>1, AppStep, WorkerPreserves, PollerPreserves DEF Next
  <1> QED
    BY <1>1, <1>2 DEF Inv, Progress, Contents

-----------------------------------------------------------------------------
(* The theorems *)

\* The invariant holds in every reachable state.
THEOREM Invariance == Spec => []Inv
  <1> QED
    BY InvInit, InvStep, PTL DEF Spec

\* Type correctness of the receive path.
THEOREM TypeCorrect == Spec => []TypeOK
  <1>1. Inv => TypeOK
    BY DEF Inv
  <1> QED
    BY <1>1, Invariance, PTL

\* The chunk bitmap never shows a chunk whose payload is not in the user
\* buffer, for any number of workers and any message geometry, until a late
\* copy runs past the null sink.
THEOREM ChunksAreSound == Spec => []ChunkSound
  <1>1. Inv => ChunkSound
    BY DEF Inv
  <1> QED
    BY <1>1, Invariance, PTL

\* With all chunks shown, all packets have landed, unless a late copy has run
\* past the null sink.
LEMMA AllLanded ==
    ASSUME Inv, ~overrun, frontend = Chunks
    PROVE  \A p \in Packets : Landed(p)
  BY ChunksCover DEF Inv, ChunkSound

\* COMPLETE_ACK is sent only for a message that is wholly in the user buffer,
\* unless a late copy has run past the null sink before the reply.
THEOREM AcksAreSound == Spec => []AckSound
  <1>1. Inv => AckSound
    BY AllLanded DEF Inv, Decided, AckSound
  <1> QED
    BY <1>1, Invariance, PTL

\* The message contexts are freed only after the workers and the poller ended.
THEOREM TeardownIsSafe == Spec => []TeardownSafe
  <1>1. Inv => TeardownSafe
    BY DEF Inv, TornDown, TeardownSafe, Closing
  <1> QED
    BY <1>1, Invariance, PTL

\* After COMPLETE_ACK a late worker that still has the pointer to the user
\* buffer can only copy a packet over itself: the contents change only if a copy
\* runs past the one-byte null sink.
THEOREM CompletedIsStable == Spec => CompletedBufferStable
  <1>1. Inv /\ [Next]_vars => [outcome = "COMPLETE_ACK" /\ ~overrun' => userbuf' = userbuf]_vars
    <2> SUFFICES ASSUME Inv, Next, outcome = "COMPLETE_ACK", ~overrun' PROVE userbuf' = userbuf
      OBVIOUS
    <2>2. ASSUME NEW w \in Workers, WCopy(w) PROVE userbuf' = userbuf
      <3> DEFINE off == HeaderOffset(pkt[w])
      <3>1. pkt[w] = <<"this", off>> /\ off \in Packets
        BY <2>2, HeaderFacts DEF Inv, WCopy, HeldPackets, ReadyToCopy
      <3>2. /\ ~overrun
            /\ \/ userbuf' = userbuf
               \/ userbuf' = [userbuf EXCEPT ![off] = pkt[w]]
        BY <2>2 DEF WCopy, CopyTo, RunPastSink
      <3> HIDE DEF off
      <3>3. userbuf[off] = pkt[w]
        BY <3>1, <3>2, AllLanded DEF Inv, Decided, Landed
      <3> QED
        BY <3>2, <3>3 DEF Inv, TypeOK
    <2> QED
      BY <2>2 DEF Next, AppPosting, AppCompleting, AppClosing, Worker, WorkerStep, Poller,
          PostAllocate, PostStartPolling, PostStartUdp, PostUdpFails, PostSendCts, PostAwaitAccept,
          CompleteStop, CompleteNotify, CompleteJoin, CompleteDead, CompleteRedirect, CompleteReply,
          Disconnect, JoinWorkers, DestroyStop, DestroyNotify, DestroyJoin, Destroy,
          StopFlag, StopNotify, StopJoin, WLoop, WIdle, WError, WRecv, WDup, WBounds, WMark, PacketDone,
          PCheck, PScan, PPredicate, PBlock, PTimeout
  <1> QED
    BY <1>1, Invariance, PTL DEF Spec, CompletedBufferStable

-----------------------------------------------------------------------------
(* Refinement of PartialCompletion *)

\* Steps that leave the buffer and where it is, the chunk bitmap and the outcome
\* alone are stuttering steps of the abstract specification.
LEMMA Stutters ==
    ASSUME UNCHANGED <<userbuf, overrun, frontend, outcome>>,
           target' = "sink" <=> target = "sink"
    PROVE  UNCHANGED Abstract!vars
  <1>1. (target' = "sink") = (target = "sink")
    OBVIOUS
  <1> QED
    BY <1>1 DEF Abstract!vars, Landed

\* The receive path implements PartialCompletion: copying lands a packet,
\* scanning shows a chunk that has landed, and the reply of sdr_recv_complete
\* ends the receive with the verdict on what was shown.
THEOREM Refinement == Spec => Implements
  <1>1. Init => Abstract!Init
    BY DEF Init, Abstract!Init, Landed, Untouched
  <1>2. Inv /\ [Next]_vars => [Abstract!Next]_Abstract!vars
    <2> SUFFICES ASSUME Inv, [Next]_vars PROVE [Abstract!Next]_Abstract!vars
      OBVIOUS
    <2>1. ASSUME NEW w \in Workers, WCopy(w) PROVE [Abstract!Next]_Abstract!vars
      <3> DEFINE off == HeaderOffset(pkt[w])
      <3>1. pkt[w] = <<"this", off>> /\ off \in Packets
        BY <2>1, HeaderFacts DEF Inv, WCopy, HeldPackets, ReadyToCopy
      <3>2. \/ overrun' = TRUE /\ target = "sink"
            \/ overrun' = overrun /\ userbuf' = userbuf
            \/ overrun' = overrun /\ userbuf' = [userbuf EXCEPT ![off] = <<"this", off>>]
        BY <2>1, <3>1 DEF Inv, ReadyToCopy, WCopy, CopyTo, RunPastSink
      <3> HIDE DEF off
      <3>3. CASE overrun' = overrun /\ userbuf' = userbuf
        BY <2>1, <3>3, Stutters DEF WCopy
      <3>4. CASE overrun' = overrun /\ userbuf' = [userbuf EXCEPT ![off] = <<"this", off>>]
        <4>1. {p \in Packets : Landed(p)}' = {p \in Packets : Landed(p)} \cup {off}
          BY <3>1, <3>4 DEF Inv, TypeOK, Landed
        <4>2. Abstract!Land(off)
          BY <2>1, <3>4, <4>1 DEF Abstract!Land, WCopy
        <4> QED
          BY <3>1, <4>2 DEF Abstract!Next
      <3>5. CASE overrun' = TRUE /\ target = "sink"
        <4>1. {p \in Packets : Landed(p)}' \in SUBSET Packets
          OBVIOUS
        <4>2. Abstract!Spoil
          BY <2>1, <3>5, <4>1 DEF Abstract!Spoil, WCopy
        <4> QED
          BY <4>2 DEF Abstract!Next
      <3> QED
        BY <3>2, <3>3, <3>4, <3>5
    <2>2. CASE PScan
      <3>1. CASE ChunkComplete(scan)
        <4>1. scan \in Chunks /\ target # "sink"
          BY <2>2 DEF Inv, TypeOK, PScan, JoinedFirst
        <4>2. PacketsOf(scan) \subseteq {p \in Packets : Landed(p)}
          BY <3>1, <4>1, ChunkPackets, ChunkCompleteIsMarked DEF Inv, MarkedLanded
        <4>3. {p \in Packets : Landed(p)}' = {p \in Packets : Landed(p)}
          BY <2>2 DEF PScan, Landed
        <4>4. Abstract!Show(scan)
          BY <2>2, <3>1, <4>1, <4>2, <4>3 DEF Abstract!Show, PScan
        <4> QED
          BY <4>1, <4>4 DEF Abstract!Next
      <3>2. CASE ~ChunkComplete(scan)
        BY <2>2, <3>2, Stutters DEF PScan
      <3> QED
        BY <3>1, <3>2
    <2>3. CASE CompleteReply
      <3>1. outcome = "none" /\ target = "sink" /\ (isComplete <=> frontend = Chunks)
        BY <2>3 DEF Inv, CompleteReply, JoinedFirst, Decided, Closing
      <3>2. {p \in Packets : Landed(p)}' = {p \in Packets : Landed(p)}
        BY <2>3 DEF CompleteReply, Landed
      <3>3. Abstract!End
        BY <2>3, <3>1, <3>2 DEF Abstract!End, CompleteReply
      <3> QED
        BY <3>3 DEF Abstract!Next
    <2>4. CASE UNCHANGED vars
      BY <2>4, Stutters DEF vars
    <2>8. CASE CompleteRedirect
      <3>1. {p \in Packets : Landed(p)}' = {p \in Packets : Landed(p)}
        BY <2>8 DEF CompleteRedirect, Landed
      <3>2. Abstract!TakeBack
        BY <2>8, <3>1 DEF Abstract!TakeBack, CompleteRedirect
      <3> QED
        BY <3>2 DEF Abstract!Next
    <2>5. CASE AppPosting \/ CompleteStop \/ Disconnect \/ AppClosing
               \/ CompleteNotify \/ CompleteJoin \/ CompleteDead
      <3>1. /\ UNCHANGED <<userbuf, overrun, frontend, outcome>>
            /\ target' = "sink" <=> target = "sink"
        BY <2>5 DEF Inv, JoinedFirst, Closing, AppPosting, AppClosing,
          PostAllocate, PostStartPolling, PostStartUdp, PostUdpFails, PostSendCts, PostAwaitAccept,
          CompleteStop, CompleteNotify, CompleteJoin, CompleteDead,
          Disconnect, JoinWorkers, DestroyStop, DestroyNotify, DestroyJoin, Destroy,
          StopFlag, StopNotify, StopJoin
      <3> QED
        BY <3>1, Stutters
    <2>6. ASSUME NEW w \in Workers,
                 WLoop(w) \/ WIdle(w) \/ WError(w) \/ WDup(w) \/ WBounds(w) \/ WMark(w)
                   \/ \E d \in Datagrams : WRecv(w, d)
          PROVE  [Abstract!Next]_Abstract!vars
      BY <2>6, Stutters DEF WLoop, WIdle, WError, WDup, WBounds, WMark, PacketDone, WRecv
    <2>7. CASE PCheck \/ PPredicate \/ PBlock \/ PTimeout
      BY <2>7, Stutters DEF PCheck, PPredicate, PBlock, PTimeout
    <2> QED
      BY <2>1, <2>2, <2>3, <2>4, <2>5, <2>6, <2>7, <2>8
         DEF Next, AppCompleting, Worker, WorkerStep, Poller
  <1> QED
    BY <1>1, <1>2, Invariance, PTL DEF Spec, Implements, Abstract!Spec
=============================================================================
