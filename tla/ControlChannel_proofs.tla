------------------------ MODULE ControlChannel_proofs ------------------------
(***************************************************************************)
(* Proofs about ControlChannel for messages of any size, any number of     *)
(* them, every way TCP may cut the stream, and wherever a send is partial, *)
(* a receive times out or either fails.                                    *)
(***************************************************************************)
EXTENDS ControlChannel, TLAPS

LEMMA BytesType == Size \in Nat \ {0} /\ MaxBytes \in Nat
  BY ChannelAssumption DEF MaxBytes

-----------------------------------------------------------------------------
(* The inductive invariant *)

\* Until a message is written in part, messages lie end to end in the stream.
Chain ==
    ~torn => \A h \in heads :
                 /\ h + Size \in heads \cup {written}
                 /\ \A g \in heads : g <= h \/ h + Size <= g

\* Until the framing is lost, receive_message starts where a message starts or
\* will start, and has returned all the messages before it.
Aligned ==
    ~FramingLost => /\ taken - got \in heads \cup {written}
                    /\ delivered = {h \in heads : h < taken - got}

\* Framing or not, a message is returned when its last byte has been read, and
\* the next frame starts behind it.
Past == \A d \in delivered : d + Size <= taken - got

Inv == TypeOK /\ got <= taken /\ Chain /\ Aligned /\ Past

LEMMA InvInit == Init => Inv
  <1> SUFFICES ASSUME Init PROVE Inv
    OBVIOUS
  <1>1. /\ muted \in BOOLEAN /\ torn \in BOOLEAN /\ closed \in BOOLEAN
        /\ connected \in BOOLEAN /\ failed \in BOOLEAN /\ paused \in BOOLEAN
    BY Zenon DEF Init
  <1>2. TypeOK /\ got <= taken
    BY <1>1, BytesType DEF Init, TypeOK
  <1>3. Chain /\ Aligned /\ Past
    BY DEF Init, Chain, Aligned, Past
  <1> QED
    BY <1>2, <1>3 DEF Inv

\* A whole message is written behind the others.
LEMMA SendPreserves == Inv /\ SendMessage => Inv'
  <1> SUFFICES ASSUME Inv, SendMessage PROVE Inv'
    OBVIOUS
  <1>1. /\ written' = written + Size /\ written + Size <= MaxBytes
        /\ heads' = heads \cup {written}
        /\ UNCHANGED <<muted, torn, arrived, closed, taken, got, delivered, connected, failed,
                       paused>>
    BY DEF SendMessage, readerVars
  <1>2. TypeOK' /\ got' <= taken'
    BY <1>1, BytesType DEF Inv, TypeOK
  <1>3. Chain'
    <2> SUFFICES ASSUME ~torn, NEW h \in heads'
                 PROVE  /\ h + Size \in heads' \cup {written'}
                        /\ \A g \in heads' : g <= h \/ h + Size <= g
      BY <1>1 DEF Chain
    <2>1. /\ written \in Nat /\ \A g \in heads : g \in Nat /\ g < written
      BY BytesType DEF Inv, TypeOK
    <2>2. CASE h = written
      BY <1>1, <2>1, <2>2, BytesType
    <2>3. CASE h \in heads
      <3>1. /\ h + Size \in heads \cup {written}
            /\ \A g \in heads : g <= h \/ h + Size <= g
        BY <2>3 DEF Inv, Chain
      <3>2. h + Size <= written
        BY <2>1, <3>1, BytesType
      <3> QED
        BY <1>1, <3>1, <3>2
    <2> QED
      BY <1>1, <2>2, <2>3
  <1>4. Aligned'
    <2> SUFFICES ASSUME ~FramingLost
                 PROVE  /\ taken - got \in heads' \cup {written'}
                        /\ delivered = {h \in heads' : h < taken - got}
      BY <1>1 DEF Aligned, FramingLost
    <2>1. /\ taken - got \in heads \cup {written}
          /\ delivered = {h \in heads : h < taken - got}
      BY DEF Inv, Aligned
    <2>2. ~(written < taken - got)
      BY BytesType DEF Inv, TypeOK
    <2> QED
      BY <1>1, <2>1, <2>2
  <1>5. Past'
    BY <1>1 DEF Inv, Past
  <1> QED
    BY <1>2, <1>3, <1>4, <1>5 DEF Inv

\* A part of a message is written: the framing is lost.
LEMMA PartialPreserves == Inv /\ PartialSend => Inv'
  <1> SUFFICES ASSUME Inv, PartialSend PROVE Inv'
    OBVIOUS
  <1>1. PICK n \in 1 .. Size - 1 : written + n <= MaxBytes /\ written' = written + n
    BY DEF PartialSend
  <1>2. /\ heads' \in {heads, heads \cup {written}} /\ torn' = TRUE
        /\ UNCHANGED <<muted, arrived, closed, taken, got, delivered, connected, failed, paused>>
    BY DEF PartialSend, readerVars
  <1>3. heads' \subseteq 0 .. written' - 1 /\ delivered' \subseteq heads'
    BY <1>1, <1>2, BytesType DEF Inv, TypeOK
  <1>4. TypeOK' /\ got' <= taken'
    BY <1>1, <1>2, <1>3, BytesType DEF Inv, TypeOK
  <1>5. Chain' /\ Aligned'
    BY <1>2 DEF Chain, Aligned, FramingLost
  <1>6. Past'
    BY <1>2 DEF Inv, Past
  <1> QED
    BY <1>4, <1>5, <1>6 DEF Inv

\* What a step of Receive that ends a frame reads and returns.
LEMMA FrameEnds ==
    ASSUME Inv, NEW n \in 1 .. Size - got, taken + n <= arrived, ~(got + n < Size),
           taken' = taken + n
    PROVE  /\ got + n = Size
           /\ taken' = (taken - got) + Size /\ taken' - Size = taken - got
           /\ taken - got \in Nat /\ taken - got < written
           /\ ~FramingLost => /\ taken - got \in heads
                              /\ delivered = {h \in heads : h < taken - got}
                              /\ taken' \in heads \cup {written}
                              /\ \A g \in heads : g <= taken - got \/ taken' <= g
  <1>1. /\ taken \in Nat /\ got \in 0 .. Size - 1 /\ got <= taken
        /\ arrived \in 0 .. written /\ written \in Nat
    BY BytesType DEF Inv, TypeOK
  <1>2. /\ got + n = Size
        /\ taken' = (taken - got) + Size /\ taken' - Size = taken - got
        /\ taken - got \in Nat /\ taken - got < written
    BY <1>1, BytesType
  <1>3. ASSUME ~FramingLost
        PROVE  /\ taken - got \in heads
               /\ delivered = {h \in heads : h < taken - got}
               /\ taken' \in heads \cup {written}
               /\ \A g \in heads : g <= taken - got \/ taken' <= g
    <2>1. /\ taken - got \in heads \cup {written}
          /\ delivered = {h \in heads : h < taken - got}
      BY <1>3 DEF Inv, Aligned
    <2>2. taken - got \in heads
      BY <1>2, <2>1
    <2>3. /\ (taken - got) + Size \in heads \cup {written}
          /\ \A g \in heads : g <= taken - got \/ (taken - got) + Size <= g
      BY <1>3, <2>2 DEF Inv, Chain, FramingLost
    <2> QED
      BY <1>2, <2>1, <2>2, <2>3
  <1> QED
    BY <1>2, <1>3

\* recv returns some bytes: either the message stays unfinished, or a frame
\* ends, which with the framing intact is exactly the next message.
LEMMA ReceivePreserves == Inv /\ Receive => Inv'
  <1> SUFFICES ASSUME Inv, Receive PROVE Inv'
    OBVIOUS
  <1>0. /\ taken \in Nat /\ got \in 0 .. Size - 1 /\ got <= taken
        /\ arrived \in 0 .. written /\ written \in Nat
        /\ heads \subseteq 0 .. written - 1 /\ delivered \subseteq heads
    BY BytesType DEF Inv, TypeOK
  <1>1. PICK n \in 1 .. Size - got :
          /\ taken + n <= arrived
          /\ taken' = taken + n
          /\ IF got + n < Size
             THEN got' = got + n /\ UNCHANGED delivered
             ELSE /\ got' = 0
                  /\ delivered' = IF HasMagic(taken') THEN delivered \cup {MessageEndingAt(taken')}
                                  ELSE delivered
    BY DEF Receive, Wanted
  <1>2. UNCHANGED <<written, heads, muted, torn, arrived, closed, connected, failed, paused>>
    BY DEF Receive, writerVars
  <1>3. Chain'
    BY <1>2 DEF Inv, Chain
  <1>4. taken' \in 0 .. arrived'
    BY <1>0, <1>1, <1>2, BytesType
  <1>5. CASE got + n < Size
    <2>1. got' = got + n /\ delivered' = delivered /\ taken' - got' = taken - got
      BY <1>0, <1>1, <1>5, BytesType
    <2>2. Aligned'
      BY <1>2, <2>1 DEF Inv, Aligned, FramingLost
    <2>3. got' \in 0 .. Size - 1 /\ got' <= taken'
      BY <1>0, <1>1, <1>5, BytesType
    <2> QED
      BY <1>2, <1>3, <1>4, <2>1, <2>2, <2>3 DEF Inv, TypeOK, Past
  <1>6. CASE ~(got + n < Size)
    <2>1. /\ taken' = (taken - got) + Size /\ taken' - Size = taken - got
          /\ taken - got \in Nat
          /\ ~FramingLost => /\ taken - got \in heads
                             /\ delivered = {h \in heads : h < taken - got}
                             /\ taken' \in heads \cup {written}
                             /\ \A g \in heads : g <= taken - got \/ taken' <= g
      BY <1>1, <1>6, FrameEnds
    <2>2. /\ got' = 0
          /\ delivered' = IF taken - got \in heads THEN delivered \cup {taken - got} ELSE delivered
      BY <1>1, <1>6, <2>1 DEF HasMagic, MessageEndingAt
    <2>3. taken' - got' = taken' /\ taken' \in Nat /\ got' \in 0 .. Size - 1 /\ got' <= taken'
      <3>1. taken' \in Nat
        BY <2>1, BytesType
      <3>2. 0 \in 0 .. Size - 1
        BY BytesType
      <3>3. \A x \in Nat : x - 0 = x /\ 0 <= x
        OBVIOUS
      <3> QED
        BY <2>2, <3>1, <3>2, <3>3, Zenon
    <2>4. delivered' \subseteq heads'
      BY <1>0, <1>2, <2>2
    <2>5. Aligned'
      <3> SUFFICES ASSUME ~FramingLost
                   PROVE  /\ taken' \in heads \cup {written}
                          /\ delivered' = {h \in heads : h < taken'}
        BY <1>2, <2>3 DEF Aligned, FramingLost
      <3>1. delivered' = {h \in heads : h < taken - got} \cup {taken - got}
        BY <2>1, <2>2
      <3>2. ASSUME NEW h \in heads
            PROVE  h < taken' <=> h < taken - got \/ h = taken - got
        BY <1>0, <2>1, <3>2, BytesType
      <3>3. taken - got \in heads
        BY <2>1
      <3> QED
        BY <2>1, <3>1, <3>2, <3>3
    <2>6. Past'
      <3> SUFFICES ASSUME NEW d \in delivered' PROVE d + Size <= taken'
        BY <2>3 DEF Past
      <3>1. CASE d \in delivered
        <4>1. d + Size <= taken - got /\ d \in Int
          BY <1>0, <3>1 DEF Inv, Past
        <4> QED
          BY <2>1, <4>1, BytesType
      <3>2. CASE d = taken - got
        BY <2>1, <3>2
      <3> QED
        BY <2>2, <3>1, <3>2
    <2> QED
      BY <1>2, <1>3, <1>4, <2>3, <2>4, <2>5, <2>6 DEF Inv, TypeOK
  <1> QED
    BY <1>5, <1>6

\* A timeout inside a message loses the framing; between two it loses nothing.
LEMMA TimeoutPreserves == Inv /\ Timeout => Inv'
  <1> SUFFICES ASSUME Inv, Timeout PROVE Inv'
    OBVIOUS
  <1>1. /\ got' = 0 /\ (paused \/ got > 0 => paused') /\ paused' \in BOOLEAN
        /\ UNCHANGED <<written, heads, muted, torn, closed, arrived, taken, delivered, connected,
                       failed>>
    BY DEF Timeout, writerVars
  <1>2. taken \in Nat /\ got \in 0 .. Size - 1 /\ got <= taken
    BY BytesType DEF Inv, TypeOK
  <1>3. TypeOK' /\ got' <= taken'
    BY <1>1, <1>2, BytesType DEF Inv, TypeOK
  <1>4. Chain'
    BY <1>1 DEF Inv, Chain
  <1>5. Aligned'
    <2>1. ~FramingLost' => ~FramingLost /\ got = 0
      BY <1>1, <1>2, BytesType DEF FramingLost
    <2> QED
      BY <1>1, <2>1 DEF Inv, Aligned
  <1>6. Past'
    <2> SUFFICES ASSUME NEW d \in delivered PROVE d + Size <= taken - 0
      BY <1>1 DEF Past
    <2>1. d + Size <= taken - got /\ d \in Int
      BY BytesType DEF Inv, TypeOK, Past
    <2> QED
      BY <1>2, <2>1, BytesType
  <1> QED
    BY <1>3, <1>4, <1>5, <1>6 DEF Inv

\* The remaining steps neither write nor read bytes.
LEMMA OthersPreserve ==
    ASSUME Inv, SendFails \/ Close \/ Segment \/ ReadEnd \/ RecvFails \/ UNCHANGED vars
    PROVE  Inv'
  <1>1. UNCHANGED <<written, heads, torn, taken, got, delivered, paused>>
    BY DEF SendFails, Close, Segment, ReadEnd, RecvFails, vars, writerVars, readerVars
  <1>2. arrived' \in 0 .. written /\ taken \in 0 .. arrived' /\ written \in Nat
    BY BytesType DEF Inv, TypeOK, SendFails, Close, Segment, ReadEnd, RecvFails, vars, writerVars,
                     readerVars
  <1>3. muted' \in BOOLEAN /\ closed' \in BOOLEAN /\ connected' \in BOOLEAN /\ failed' \in BOOLEAN
    BY DEF Inv, TypeOK, SendFails, Close, Segment, ReadEnd, RecvFails, vars, writerVars, readerVars
  <1>4. TypeOK' /\ got' <= taken'
    BY <1>1, <1>2, <1>3 DEF Inv, TypeOK
  <1>5. Chain' /\ Aligned' /\ Past'
    BY <1>1 DEF Inv, Chain, Aligned, Past, FramingLost
  <1> QED
    BY <1>4, <1>5 DEF Inv

\* The invariant holds in every reachable state.
THEOREM Invariance == Spec => []Inv
  <1>1. Inv /\ [Next]_vars => Inv'
    BY SendPreserves, PartialPreserves, ReceivePreserves, TimeoutPreserves, OthersPreserve DEF Next
  <1> QED
    BY <1>1, InvInit, PTL DEF Spec

\* Type correctness: positions in the stream stay in order and no message is
\* returned that was never sent.
THEOREM TypeCorrect == Spec => []TypeOK
  <1>1. Inv => TypeOK
    BY DEF Inv
  <1> QED
    BY <1>1, Invariance, PTL

\* receive_message skips no message and invents none, however the stream is
\* cut, until a message is written in part or a timeout falls inside one.
THEOREM FramingKept == Spec => []NothingSkipped
  <1>1. Inv => NothingSkipped
    BY DEF Inv, Aligned, NothingSkipped
  <1> QED
    BY <1>1, Invariance, PTL

-----------------------------------------------------------------------------
(* Refinement of MessageChannel *)

\* A whole message or a part of one comes behind all messages sent before.
LEMMA WrittenIsNext ==
    ASSUME Inv
    PROVE  written \in 0 .. MaxBytes /\ Queue!IsNext(written)
  BY BytesType DEF Inv, TypeOK, Queue!IsNext

\* A frame that starts with the magic is one message, later than all those
\* returned before and, with the framing intact, the one after them.
LEMMA FrameDelivers ==
    ASSUME Inv, Receive, delivered' # delivered
    PROVE  \E m \in 0 .. MaxBytes : Queue!Deliver(m)
  <1>1. PICK n \in 1 .. Size - got :
          /\ taken + n <= arrived
          /\ taken' = taken + n
          /\ ~(got + n < Size)
          /\ HasMagic(taken')
          /\ delivered' = delivered \cup {MessageEndingAt(taken')}
    BY DEF Receive, Wanted
  <1> DEFINE m == taken - got
  <1>2. /\ taken' - Size = m /\ m \in Nat
        /\ ~FramingLost => delivered = {h \in heads : h < m}
    BY <1>1, FrameEnds
  <1>3. m \in heads /\ delivered' = delivered \cup {m}
    BY <1>1, <1>2 DEF HasMagic, MessageEndingAt
  <1>4. m \in 0 .. MaxBytes
    BY <1>3, BytesType DEF Inv, TypeOK
  <1>5. ASSUME NEW d \in delivered PROVE d < m
    <2>1. d + Size <= m /\ d \in Int
      BY BytesType DEF Inv, TypeOK, Past
    <2> QED
      BY <1>2, <2>1, BytesType
  <1> HIDE DEF m
  <1>6. connected /\ UNCHANGED <<heads, closed, connected, FramingLost, failed>>
    BY DEF Receive, writerVars, FramingLost
  <1>7. Queue!Deliver(m)
    BY <1>2, <1>3, <1>5, <1>6 DEF Queue!Deliver
  <1> QED
    BY <1>4, <1>7

\* With the framing intact, the bytes end behind the last message returned.
LEMMA EndIsLast ==
    ASSUME Inv, taken = written, ~FramingLost
    PROVE  delivered = heads
  <1>1. /\ taken - got \in heads \cup {written}
        /\ delivered = {h \in heads : h < taken - got}
    BY DEF Inv, Aligned
  <1>2. /\ written \in Nat /\ got \in 0 .. Size - 1 /\ heads \subseteq 0 .. written - 1
    BY BytesType DEF Inv, TypeOK
  <1>3. taken - got \notin heads
    <2> SUFFICES ASSUME taken - got \in heads PROVE FALSE
      OBVIOUS
    <2>1. (taken - got) + Size \in heads \cup {written}
      BY DEF Inv, Chain, FramingLost
    <2> QED
      BY <1>2, <2>1, BytesType
  <1>4. taken - got = written
    BY <1>1, <1>3
  <1>5. \A h \in heads : h < written
    BY <1>2
  <1>6. delivered = {h \in heads : h < written}
    BY <1>1, <1>4
  <1> QED
    BY <1>5, <1>6, Zenon

\* Steps that send, return and end nothing are stuttering steps.
LEMMA Stutters ==
    ASSUME UNCHANGED <<heads, delivered, closed, connected, torn, paused, failed>>
    PROVE  UNCHANGED Queue!vars
  BY DEF Queue!vars, FramingLost

\* The byte stream with receive_message on top of it implements the queue of
\* messages the upper layers rely on, for messages of any size and however TCP
\* cuts and delays the stream: in order, none twice, without a gap until the
\* framing is lost, and ended behind the last one unless recv fails.
THEOREM QueueRefinement == Spec => ImplementsQueue
  <1>1. Init => Queue!Init
    BY DEF Init, Queue!Init, FramingLost
  <1>2. Inv /\ [Next]_vars => [Queue!Next]_Queue!vars
    <2> SUFFICES ASSUME Inv, [Next]_vars PROVE [Queue!Next]_Queue!vars
      OBVIOUS
    <2>1. CASE SendMessage
      <3>1. Queue!Send(written)
        BY <2>1, WrittenIsNext DEF SendMessage, CanSend, readerVars, FramingLost, Queue!Send
      <3> QED
        BY <3>1, WrittenIsNext DEF Queue!Next
    <2>2. CASE PartialSend
      <3>1. Queue!SendPart(written)
        BY <2>2, WrittenIsNext DEF PartialSend, CanSend, readerVars, FramingLost, Queue!SendPart
      <3> QED
        BY <3>1, WrittenIsNext DEF Queue!Next
    <2>3. CASE Close
      <3>1. Queue!Close
        BY <2>3 DEF Close, readerVars, FramingLost, Queue!Close
      <3> QED
        BY <3>1 DEF Queue!Next
    <2>4. CASE SendFails \/ Segment
      BY <2>4, Stutters DEF SendFails, Segment, writerVars, readerVars
    <2>5. CASE Receive
      <3>1. CASE delivered' = delivered
        BY <2>5, <3>1, Stutters DEF Receive, writerVars
      <3>2. CASE delivered' # delivered
        BY <2>5, <3>2, FrameDelivers DEF Queue!Next
      <3> QED
        BY <3>1, <3>2
    <2>6. CASE Timeout
      <3>1. CASE paused' = paused
        BY <2>6, <3>1, Stutters DEF Timeout, writerVars
      <3>2. CASE paused' # paused
        <4>1. paused'
          BY <2>6, <3>2 DEF Inv, TypeOK, Timeout
        <4>2. Queue!Break
          BY <2>6, <4>1 DEF Timeout, writerVars, FramingLost, Queue!Break
        <4> QED
          BY <4>2 DEF Queue!Next
      <3> QED
        BY <3>1, <3>2
    <2>7. CASE ReadEnd
      <3>1. delivered = heads \/ FramingLost
        BY <2>7, EndIsLast DEF ReadEnd, EndOfStream
      <3>2. Queue!End
        BY <2>7, <3>1 DEF ReadEnd, EndOfStream, writerVars, FramingLost, Queue!End
      <3> QED
        BY <3>2 DEF Queue!Next
    <2>8. CASE RecvFails
      <3>1. Queue!Fail
        BY <2>8 DEF RecvFails, writerVars, FramingLost, Queue!Fail
      <3> QED
        BY <3>1 DEF Queue!Next
    <2>9. CASE UNCHANGED vars
      BY <2>9, Stutters DEF vars
    <2> QED
      BY <2>1, <2>2, <2>3, <2>4, <2>5, <2>6, <2>7, <2>8, <2>9 DEF Next
  <1> QED
    BY <1>1, <1>2, Invariance, PTL DEF Spec, ImplementsQueue, Queue!Spec
=============================================================================
