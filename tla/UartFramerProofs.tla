--------------------------- MODULE UartFramerProofs ---------------------------
(***************************************************************************)
(* Proofs about UartFramer, for every stream, every set of valid frames,   *)
(* every buffer and queue size and with every fault enabled.               *)
(***************************************************************************)
EXTENDS UartFramer, SequenceTheorems, TLAPS

------------------------------------------------------------------------------
\* The tail of a sequence, element by element (the memmoves of the parsers).
LEMMA FromFacts ==
  ASSUME NEW S, NEW b \in Seq(S), NEW k \in 1..(Len(b) + 1)
  PROVE  /\ From(b, k) \in Seq(S)
         /\ Len(From(b, k)) = Len(b) - k + 1
         /\ \A i \in 1..(Len(b) - k + 1) : From(b, k)[i] = b[k + i - 1]
<1>1. SubSeq(b, k, Len(b)) \in Seq(S)
  BY SubSeqProperties
<1>2. CASE k <= Len(b)
  <2>1. Len(SubSeq(b, k, Len(b))) = Len(b) - k + 1
    BY <1>2, SubSeqProperties
  <2>2. \A i \in 1..(Len(b) - k + 1) : SubSeq(b, k, Len(b))[i] = b[k + i - 1]
    BY <1>2, SubSeqProperties
  <2> QED BY <1>1, <2>1, <2>2 DEF From
<1>3. CASE k = Len(b) + 1
  <2>1. SubSeq(b, k, Len(b)) = <<>>
    BY <1>3, SubSeqProperties
  <2> QED BY <1>1, <1>3, <2>1 DEF From
<1> QED BY <1>2, <1>3

\* A prefix of a sequence, element by element.
LEMMA PrefixFacts ==
  ASSUME NEW S, NEW b \in Seq(S), NEW n \in 0..Len(b)
  PROVE  /\ SubSeq(b, 1, n) \in Seq(S)
         /\ Len(SubSeq(b, 1, n)) = n
         /\ \A i \in 1..n : SubSeq(b, 1, n)[i] = b[i]
<1>1. CASE n = 0
  BY <1>1, SubSeqProperties
<1>2. CASE n > 0
  BY <1>2, SubSeqProperties
<1> QED BY <1>1, <1>2

\* Two sequences one after the other, element by element.
LEMMA JoinFacts ==
  ASSUME NEW S, NEW a \in Seq(S), NEW b \in Seq(S)
  PROVE  /\ a \o b \in Seq(S)
         /\ Len(a \o b) = Len(a) + Len(b)
         /\ \A i \in 1..Len(a) : (a \o b)[i] = a[i]
         /\ \A i \in (Len(a) + 1)..(Len(a) + Len(b)) : (a \o b)[i] = b[i - Len(a)]
BY ConcatProperties

\* The bytes at a sequence of positions of a stream of bytes.
LEMMA BytesFacts ==
  ASSUME NEW s \in Seq(Byte), NEW p \in Seq(1..Len(s))
  PROVE  /\ Bytes(s, p) \in Seq(Byte)
         /\ Len(Bytes(s, p)) = Len(p)
         /\ \A i \in 1..Len(p) : Bytes(s, p)[i] = s[p[i]]
<1>1. \A i \in 1..Len(p) : p[i] \in 1..Len(s)
  BY ElementOfSeq
<1>2. \A i \in 1..Len(p) : s[p[i]] \in Byte
  BY <1>1, ElementOfSeq
<1>3. Len(p) \in Nat
  OBVIOUS
<1>4. Bytes(s, p) \in Seq(Byte)
  BY <1>2, <1>3, IsASeq DEF Bytes
<1> QED BY <1>3, <1>4 DEF Bytes

\* Moving a message to the front of the buffer commutes with reading bytes.
LEMMA BytesFrom ==
  ASSUME NEW s \in Seq(Byte), NEW p \in Seq(1..Len(s)), NEW k \in 1..(Len(p) + 1)
  PROVE  Bytes(s, From(p, k)) = From(Bytes(s, p), k)
<1>1. /\ From(p, k) \in Seq(1..Len(s))
      /\ Len(From(p, k)) = Len(p) - k + 1
      /\ \A i \in 1..(Len(p) - k + 1) : From(p, k)[i] = p[k + i - 1]
  BY FromFacts
<1>2. /\ Bytes(s, p) \in Seq(Byte)
      /\ Len(Bytes(s, p)) = Len(p)
      /\ \A i \in 1..Len(p) : Bytes(s, p)[i] = s[p[i]]
  BY BytesFacts
<1>3. /\ Bytes(s, From(p, k)) \in Seq(Byte)
      /\ Len(Bytes(s, From(p, k))) = Len(p) - k + 1
      /\ \A i \in 1..(Len(p) - k + 1) : Bytes(s, From(p, k))[i] = s[p[k + i - 1]]
  <2> DEFINE q == From(p, k)
  <2>1. /\ q \in Seq(1..Len(s))
        /\ Len(q) = Len(p) - k + 1
        /\ \A i \in 1..(Len(p) - k + 1) : q[i] = p[k + i - 1]
    BY <1>1
  <2> HIDE DEF q
  <2>2. /\ Bytes(s, q) \in Seq(Byte)
        /\ Len(Bytes(s, q)) = Len(q)
        /\ \A i \in 1..Len(q) : Bytes(s, q)[i] = s[q[i]]
    BY <2>1, BytesFacts
  <2>3. /\ Bytes(s, q) \in Seq(Byte)
        /\ Len(Bytes(s, q)) = Len(p) - k + 1
        /\ \A i \in 1..(Len(p) - k + 1) : Bytes(s, q)[i] = s[p[k + i - 1]]
    BY <2>1, <2>2
  <2> QED BY <2>3 DEF q
<1>4. /\ From(Bytes(s, p), k) \in Seq(Byte)
      /\ Len(From(Bytes(s, p), k)) = Len(p) - k + 1
      /\ \A i \in 1..(Len(p) - k + 1) : From(Bytes(s, p), k)[i] = Bytes(s, p)[k + i - 1]
  BY <1>2, FromFacts
<1>5. \A i \in 1..(Len(p) - k + 1) : Bytes(s, From(p, k))[i] = From(Bytes(s, p), k)[i]
  <2> TAKE i \in 1..(Len(p) - k + 1)
  <2>1. k + i - 1 \in 1..Len(p)
    OBVIOUS
  <2> QED BY <1>2, <1>3, <1>4, <2>1
<1> QED BY <1>3, <1>4, <1>5, SeqEqual
\* Two moves to the front are one.
LEMMA FromFrom ==
  ASSUME NEW S, NEW b \in Seq(S), NEW k \in 1..(Len(b) + 1),
         NEW n \in 0..(Len(b) - k + 1)
  PROVE  From(From(b, k), n + 1) = From(b, k + n)
<1>1. /\ From(b, k) \in Seq(S)
      /\ Len(From(b, k)) = Len(b) - k + 1
      /\ \A i \in 1..(Len(b) - k + 1) : From(b, k)[i] = b[k + i - 1]
  BY FromFacts
<1> DEFINE c == From(b, k)
<1> HIDE DEF c
<1>2. c \in Seq(S) /\ n + 1 \in 1..(Len(c) + 1)
  BY <1>1 DEF c
<1>3. /\ From(c, n + 1) \in Seq(S)
      /\ Len(From(c, n + 1)) = Len(c) - n
      /\ \A i \in 1..(Len(c) - n) : From(c, n + 1)[i] = c[n + i]
  <2>1. /\ From(c, n + 1) \in Seq(S)
        /\ Len(From(c, n + 1)) = Len(c) - (n + 1) + 1
        /\ \A i \in 1..(Len(c) - (n + 1) + 1) : From(c, n + 1)[i] = c[(n + 1) + i - 1]
    BY <1>2, FromFacts
  <2>2. Len(c) \in Nat
    BY <1>2
  <2> QED BY <2>1, <2>2
<1>4. k + n \in 1..(Len(b) + 1)
  OBVIOUS
<1>5. /\ From(b, k + n) \in Seq(S)
      /\ Len(From(b, k + n)) = Len(b) - (k + n) + 1
      /\ \A i \in 1..(Len(b) - (k + n) + 1) : From(b, k + n)[i] = b[(k + n) + i - 1]
  BY <1>4, FromFacts
<1>6. Len(From(c, n + 1)) = Len(From(b, k + n))
  BY <1>1, <1>3, <1>5 DEF c
<1>7. \A i \in 1..Len(From(c, n + 1)) : From(c, n + 1)[i] = From(b, k + n)[i]
  <2> TAKE i \in 1..Len(From(c, n + 1))
  <2>1. /\ i \in 1..(Len(b) - (k + n) + 1)
        /\ n + i \in 1..(Len(b) - k + 1)
        /\ i \in 1..(Len(c) - n)
    BY <1>1, <1>3 DEF c
  <2>2. c[n + i] = b[k + (n + i) - 1]
    BY <1>1, <2>1 DEF c
  <2> QED BY <1>3, <1>5, <2>1, <2>2
<1> QED BY <1>3, <1>5, <1>6, <1>7, SeqEqual DEF c

------------------------------------------------------------------------------
\* What type correctness gives about the two buffers.
LEMMA BufferFacts ==
  ASSUME TypeOK
  PROVE  /\ stream \in Seq(Byte)
         /\ buf \in Seq(1..Len(stream))
         /\ ring \in Seq(1..Len(stream))
         /\ data \in Seq(Byte)
         /\ Len(data) = Len(buf)
<1>1. stream \in Seq(Byte)
  BY FramerAssumption DEF TypeOK
<1>2. buf \in Seq(1..Len(stream)) /\ ring \in Seq(1..Len(stream))
  BY DEF TypeOK
<1> QED BY <1>1, <1>2, BytesFacts DEF data

\* What the k-th suffix of the buffer looks like to a parser.
LEMMA SuffixFacts ==
  ASSUME TypeOK, NEW k \in 1..Len(buf)
  PROVE  /\ From(buf, k) \in Seq(1..Len(stream))
         /\ Len(From(buf, k)) = Len(buf) - k + 1
         /\ \A i \in 1..(Len(buf) - k + 1) : From(buf, k)[i] = buf[k + i - 1]
         /\ From(data, k) \in Seq(Byte)
         /\ Len(From(data, k)) = Len(buf) - k + 1
         /\ \A i \in 1..(Len(buf) - k + 1) : From(data, k)[i] = data[k + i - 1]
         /\ From(data, k) = Bytes(stream, From(buf, k))
<1>1. buf \in Seq(1..Len(stream)) /\ k \in 1..(Len(buf) + 1)
  BY BufferFacts
<1>2. data \in Seq(Byte) /\ Len(data) = Len(buf) /\ stream \in Seq(Byte)
  BY BufferFacts
<1>3. /\ From(buf, k) \in Seq(1..Len(stream))
      /\ Len(From(buf, k)) = Len(buf) - k + 1
      /\ \A i \in 1..(Len(buf) - k + 1) : From(buf, k)[i] = buf[k + i - 1]
  BY <1>1, FromFacts
<1>4. /\ From(data, k) \in Seq(Byte)
      /\ Len(From(data, k)) = Len(data) - k + 1
      /\ \A i \in 1..(Len(data) - k + 1) : From(data, k)[i] = data[k + i - 1]
  <2>1. k \in 1..(Len(data) + 1)
    BY <1>1, <1>2
  <2> HIDE DEF data
  <2> QED BY <1>2, <2>1, FromFacts
<1>5. From(data, k) = Bytes(stream, From(buf, k))
  BY <1>1, <1>2, BytesFrom DEF data
<1> QED BY <1>2, <1>3, <1>4, <1>5

\* The length of a complete frame is a number of bytes the buffer has.
LEMMA UbxLenFacts ==
  ASSUME NEW b \in Seq(Byte), UbxComplete(b)
  PROVE  UbxLen(b) \in 4..Len(b)
<1>1. UBX_LEN_OFFSET + 1 \in 1..Len(b) /\ UBX_LEN_OFFSET + 2 \in 1..Len(b)
  BY FramerAssumption DEF UbxComplete
<1>2. b[UBX_LEN_OFFSET + 1] \in Nat /\ b[UBX_LEN_OFFSET + 2] \in Nat
  <2>1. \A i \in 1..Len(b) : b[i] \in Byte
    BY ElementOfSeq
  <2>2. Byte \subseteq Nat
    BY DEF Byte
  <2> QED BY <1>1, <2>1, <2>2
<1> QED BY <1>2, FramerAssumption DEF UbxComplete, UbxLen
------------------------------------------------------------------------------
(***************************************************************************)
(* What one round of the scan does to the buffer: it moves to a suffix,    *)
(* and at most one message made of the bytes just before that suffix is    *)
(* handed out.                                                             *)
(***************************************************************************)
ScanMove(j) ==
  /\ buf' = From(buf, j)
  /\ pc' \in {"wait", "scan"}
  /\ UNCHANGED <<driverVars, toRead>>

ScanSkip(j) == ScanMove(j) /\ UNCHANGED out

ScanHandOut(k, n, kind) ==
  /\ ScanMove(k + n)
  /\ out' = Append(out, [kind |-> kind, msg |-> SubSeq(From(buf, k), 1, n)])

LEMMA KeepShape ==
  ASSUME NEW k, Keep(From(buf, k))
  PROVE  ScanSkip(k)
BY DEF Keep, ScanSkip, ScanMove

LEMMA DropShape ==
  ASSUME TypeOK, NEW k \in 1..Len(buf), DropByte(From(buf, k))
  PROVE  ScanSkip(k + 1)
<1>1. From(From(buf, k), 2) = From(buf, k + 1)
  <2>1. buf \in Seq(1..Len(stream)) /\ Len(buf) \in Nat
    BY BufferFacts
  <2>2. k \in 1..(Len(buf) + 1) /\ 1 \in 0..(Len(buf) - k + 1)
    BY <2>1
  <2>3. From(From(buf, k), 1 + 1) = From(buf, k + 1)
    BY <2>1, <2>2, FromFrom
  <2> QED BY <2>3
<1> QED BY <1>1 DEF DropByte, AfterScan, ScanSkip, ScanMove

LEMMA HandOutShape ==
  ASSUME TypeOK, NEW k \in 1..Len(buf), NEW n \in 0..(Len(buf) - k + 1),
         NEW kind, HandOut(From(buf, k), kind, n)
  PROVE  ScanHandOut(k, n, kind)
<1>1. From(From(buf, k), n + 1) = From(buf, k + n)
  <2>1. buf \in Seq(1..Len(stream)) /\ k \in 1..(Len(buf) + 1)
    BY BufferFacts
  <2> QED BY <2>1, FromFrom
<1> QED BY <1>1 DEF HandOut, AfterScan, ScanHandOut, ScanMove

ScanRound(k) ==
  \/ HandleNmea(k) \/ RejectNmea(k) \/ KeepNmea(k)
  \/ HandleUbx(k) \/ RejectUbx(k) \/ KeepUbx(k) \/ WaitUbx(k)

LEMMA ScanShape ==
  ASSUME TypeOK, NEW k \in 1..Len(buf), ScanRound(k)
  PROVE  \/ \E j \in 1..(Len(buf) + 1) : ScanSkip(j)
         \/ \E n \in 2..(Len(buf) - k + 1) :
              \/ /\ ScanHandOut(k, n, "NMEA")
                 /\ NmeaLen(From(data, k), n)
                 /\ IsNmeaStart(data, k)
              \/ /\ ScanHandOut(k, n, "UBX")
                 /\ n = UbxLen(From(data, k))
                 /\ UbxValid(From(data, k))
<1>1. /\ Len(buf) \in Nat
      /\ From(data, k) \in Seq(Byte)
      /\ Len(From(data, k)) = Len(buf) - k + 1
  <2>1. Len(buf) \in Nat
    BY BufferFacts, LenProperties
  <2>2. From(data, k) \in Seq(Byte) /\ Len(From(data, k)) = Len(buf) - k + 1
    BY SuffixFacts
  <2> QED BY <2>1, <2>2
<1>2. CASE KeepNmea(k) \/ KeepUbx(k) \/ WaitUbx(k)
  <2>1. ScanSkip(k)
    BY <1>2, KeepShape DEF KeepNmea, KeepUbx, WaitUbx
  <2>2. k \in 1..(Len(buf) + 1)
    BY <1>1
  <2> QED BY <2>1, <2>2
<1>3. CASE RejectNmea(k) \/ RejectUbx(k)
  <2>1. ScanSkip(k + 1)
    BY <1>3, DropShape DEF RejectNmea, RejectUbx
  <2>2. k + 1 \in 1..(Len(buf) + 1)
    BY <1>1
  <2> QED BY <2>1, <2>2
<1>4. CASE HandleNmea(k)
  <2>1. PICK n \in 2..Len(data) : /\ NmeaLen(From(data, k), n)
                                  /\ HandOut(From(buf, k), "NMEA", n)
    BY <1>4 DEF HandleNmea
  <2>2. n \in 2..(Len(buf) - k + 1) /\ n \in 0..(Len(buf) - k + 1)
    BY <1>1, <2>1 DEF NmeaLen
  <2>3. ScanHandOut(k, n, "NMEA")
    BY <2>1, <2>2, HandOutShape
  <2>4. IsNmeaStart(data, k)
    BY <1>4 DEF HandleNmea, AtNmea
  <2> QED BY <2>1, <2>2, <2>3, <2>4
<1>5. CASE HandleUbx(k)
  <2> DEFINE n == UbxLen(From(data, k))
  <2>1. /\ UbxComplete(From(data, k))
        /\ UbxValid(From(data, k))
        /\ HandOut(From(buf, k), "UBX", n)
    BY <1>5 DEF HandleUbx
  <2>2. n \in 4..Len(From(data, k))
    BY <1>1, <2>1, UbxLenFacts
  <2> HIDE DEF n
  <2>3. n \in 2..(Len(buf) - k + 1) /\ n \in 0..(Len(buf) - k + 1)
    BY <1>1, <2>2
  <2>4. ScanHandOut(k, n, "UBX")
    BY <2>1, <2>3, HandOutShape
  <2> QED BY <2>1, <2>3, <2>4 DEF n
<1> QED BY <1>2, <1>3, <1>4, <1>5 DEF ScanRound
------------------------------------------------------------------------------
(***************************************************************************)
(* Type correctness.                                                       *)
(***************************************************************************)
LEMMA PostType ==
  ASSUME NEW q \in Seq(EventType), Len(q) <= UART_QUEUE_SIZE, NEW e \in EventType
  PROVE  /\ Post(q, e) \in Seq(EventType)
         /\ Len(Post(q, e)) <= UART_QUEUE_SIZE
         /\ Post(q, e) # <<>>
<1>1. Len(q) \in Nat
  BY LenProperties
<1>2. CASE Len(q) < UART_QUEUE_SIZE
  BY <1>1, <1>2, AppendProperties, FramerAssumption DEF Post
<1>3. CASE ~(Len(q) < UART_QUEUE_SIZE)
  BY <1>1, <1>3, FramerAssumption DEF Post
<1> QED BY <1>2, <1>3

\* The two events the driver and the line may add, and the removal of one.
LEMMA ArrivingFacts ==
  ASSUME TypeOK, NEW n \in Nat, sent + n <= Len(stream)
  PROVE  /\ Arriving(n) \in Seq(1..Len(stream))
         /\ Len(Arriving(n)) = n
         /\ \A i \in 1..n : Arriving(n)[i] = sent + i
<1>1. sent \in Nat /\ Len(stream) \in Nat
  BY BufferFacts, LenProperties DEF TypeOK
<1>2. \A i \in 1..n : sent + i \in 1..Len(stream)
  BY <1>1
<1> QED BY <1>2, IsASeq DEF Arriving

LEMMA DriverType ==
  ASSUME TypeOK, Environment
  PROVE  TypeOK'
<1>1. /\ "UART_DATA" \in EventType /\ "UART_BUFFER_FULL" \in EventType
      /\ "UART_OTHER" \in EventType
  BY DEF EventType
<1>2. evq \in Seq(EventType) /\ Len(evq) <= UART_QUEUE_SIZE
  BY DEF TypeOK
<1>3. FifoChunk \in Nat
  BY FramerAssumption
<1>4. ASSUME NEW n \in 1..FifoChunk, UartRx(n) PROVE TypeOK'
  <2>1. /\ Arriving(n) \in Seq(1..Len(stream))
        /\ Len(Arriving(n)) = n
    BY <1>3, <1>4, ArrivingFacts DEF UartRx
  <2>2. ring \in Seq(1..Len(stream)) /\ Len(ring) \in Nat
    BY BufferFacts, LenProperties
  <2>3. ring' \in Seq(1..Len(stream)) /\ Len(ring') = Len(ring) + n
    BY <1>4, <2>1, <2>2, JoinFacts DEF UartRx
  <2>4. Len(ring') <= UART_RX_BUF_SIZE
    BY <1>4, <2>3 DEF UartRx
  <2>5. sent' \in 0..Len(stream)
    BY <1>3, <1>4, BufferFacts, LenProperties DEF UartRx, TypeOK
  <2>6. evq' \in Seq(EventType) /\ Len(evq') <= UART_QUEUE_SIZE
    BY <1>1, <1>2, <1>4, PostType DEF UartRx
  <2> QED BY <1>4, <2>3, <2>4, <2>5, <2>6 DEF UartRx, TypeOK
<1>5. ASSUME NEW n \in 1..FifoChunk, UartRxFull(n) PROVE TypeOK'
  <2>1. evq' \in Seq(EventType) /\ Len(evq') <= UART_QUEUE_SIZE
    BY <1>1, <1>2, <1>5, PostType DEF UartRxFull
  <2> QED BY <1>5, <2>1 DEF UartRxFull, TypeOK
<1>6. ASSUME NEW n \in 0..FifoChunk, UartRxError(n) PROVE TypeOK'
  <2>1. evq' \in Seq(EventType) /\ Len(evq') <= UART_QUEUE_SIZE
    BY <1>1, <1>2, <1>6, PostType DEF UartRxError
  <2>2. sent' \in 0..Len(stream)
    BY <1>3, <1>6, BufferFacts, LenProperties DEF UartRxError, TypeOK
  <2> QED BY <1>6, <2>1, <2>2 DEF UartRxError, TypeOK
<1>7. ASSUME UartFlush PROVE TypeOK'
  <2>1. <<>> \in Seq(1..Len(stream)) /\ Len(<<>>) = 0
    BY EmptySeq
  <2>2. ring' \in Seq(1..Len(stream)) /\ Len(ring') <= UART_RX_BUF_SIZE
    BY <1>7, <2>1, FramerAssumption DEF UartFlush
  <2> QED BY <1>7, <2>2 DEF UartFlush, TypeOK
<1> QED BY <1>4, <1>5, <1>6, <1>7 DEF Environment, Receive

LEMMA EventLoopType ==
  ASSUME TypeOK, TakeDataEvent \/ TakeOtherEvent \/ DelayOver
  PROVE  TypeOK'
<1>1. <<>> \in Seq(1..Len(stream)) /\ Len(<<>>) = 0
  BY EmptySeq
<1>2. ASSUME evq # <<>>, evq' = Tail(evq)
      PROVE  evq' \in Seq(EventType) /\ Len(evq') <= UART_QUEUE_SIZE
  <2>1. evq \in Seq(EventType) /\ Len(evq) <= UART_QUEUE_SIZE
    BY DEF TypeOK
  <2>2. Tail(evq) \in Seq(EventType) /\ Len(Tail(evq)) = Len(evq) - 1
    BY <1>2, <2>1, HeadTailProperties
  <2>3. Len(evq) \in Nat
    BY <2>1, LenProperties
  <2> QED BY <1>2, <2>1, <2>2, <2>3, FramerAssumption
<1>3. CASE TakeDataEvent
  BY <1>2, <1>3 DEF TakeDataEvent, TypeOK
<1>4. CASE TakeOtherEvent
  <2>1. ring' \in Seq(1..Len(stream)) /\ Len(ring') <= UART_RX_BUF_SIZE
    BY <1>1, <1>4, FramerAssumption DEF TakeOtherEvent
  <2>2. buf' \in Seq(1..Len(stream)) /\ Len(buf') <= UART_RX_BUF_SIZE
    BY <1>1, <1>4, FramerAssumption DEF TakeOtherEvent
  <2>3. evq' \in Seq(EventType) /\ Len(evq') <= UART_QUEUE_SIZE
    BY <1>2, <1>4 DEF TakeOtherEvent
  <2> QED BY <1>4, <2>1, <2>2, <2>3 DEF TakeOtherEvent, TypeOK
<1>5. CASE DelayOver
  BY <1>5 DEF DelayOver, driverVars, TypeOK
<1> QED BY <1>3, <1>4, <1>5

\* What a read moves from the ring to the data buffer.
LEMMA DrainReadFacts ==
  ASSUME TypeOK, pc = "read"
  PROVE  /\ ReadNow \in 0..Len(ring)
         /\ ReadNow <= toRead
         /\ SubSeq(ring, 1, ReadNow) \in Seq(1..Len(stream))
         /\ Len(SubSeq(ring, 1, ReadNow)) = ReadNow
         /\ From(ring, ReadNow + 1) \in Seq(1..Len(stream))
         /\ Len(From(ring, ReadNow + 1)) = Len(ring) - ReadNow
         /\ \A i \in 1..ReadNow : SubSeq(ring, 1, ReadNow)[i] = ring[i]
         /\ \A i \in 1..(Len(ring) - ReadNow) : From(ring, ReadNow + 1)[i] = ring[ReadNow + i]
<1>1. ring \in Seq(1..Len(stream)) /\ Len(ring) \in Nat
  BY BufferFacts, LenProperties
<1>2. ReadNow \in 0..Len(ring) /\ ReadNow <= toRead
  BY <1>1, FramerAssumption DEF ReadNow, TypeOK
<1> DEFINE n == ReadNow
<1> HIDE DEF n
<1>3. n \in 0..Len(ring) /\ n + 1 \in 1..(Len(ring) + 1)
  BY <1>1, <1>2 DEF n
<1>4. /\ SubSeq(ring, 1, n) \in Seq(1..Len(stream))
      /\ Len(SubSeq(ring, 1, n)) = n
      /\ \A i \in 1..n : SubSeq(ring, 1, n)[i] = ring[i]
  BY <1>1, <1>3, PrefixFacts
<1>5. /\ From(ring, n + 1) \in Seq(1..Len(stream))
      /\ Len(From(ring, n + 1)) = Len(ring) - (n + 1) + 1
      /\ \A i \in 1..(Len(ring) - (n + 1) + 1) :
           From(ring, n + 1)[i] = ring[(n + 1) + i - 1]
  BY <1>1, <1>3, FromFacts
<1>6. /\ Len(From(ring, n + 1)) = Len(ring) - n
      /\ \A i \in 1..(Len(ring) - n) : From(ring, n + 1)[i] = ring[n + i]
  BY <1>1, <1>3, <1>5
<1> QED BY <1>2, <1>4, <1>5, <1>6 DEF n

LEMMA DrainType ==
  ASSUME TypeOK, Drain
  PROVE  TypeOK'
<1>1. /\ Len(buf) \in Nat /\ Len(ring) \in Nat
      /\ buf \in Seq(1..Len(stream))
      /\ Len(buf) <= UART_RX_BUF_SIZE /\ Len(ring) <= UART_RX_BUF_SIZE
      /\ UART_RX_BUF_SIZE \in Nat
  BY BufferFacts, LenProperties, FramerAssumption DEF TypeOK
<1>2. CASE DrainDone
  BY <1>2 DEF DrainDone, AfterScan, driverVars, TypeOK
<1>3. CASE DrainCheck
  <2>1. toRead' \in 0..UART_RX_BUF_SIZE /\ Len(buf) + toRead' <= UART_RX_BUF_SIZE
    BY <1>1, <1>3 DEF DrainCheck, SpaceLeft
  <2> QED BY <1>3, <2>1 DEF DrainCheck, driverVars, TypeOK
<1>4. CASE DrainOverrun
  <2>1. <<>> \in Seq(1..Len(stream)) /\ Len(<<>>) = 0
    BY EmptySeq
  <2> QED BY <1>1, <1>4, <2>1 DEF DrainOverrun, driverVars, TypeOK
<1>5. CASE DrainRead
  <2> USE <1>5 DEF DrainRead
  <2>1. /\ ReadNow \in 0..Len(ring) /\ ReadNow <= toRead
        /\ SubSeq(ring, 1, ReadNow) \in Seq(1..Len(stream))
        /\ Len(SubSeq(ring, 1, ReadNow)) = ReadNow
        /\ From(ring, ReadNow + 1) \in Seq(1..Len(stream))
        /\ Len(From(ring, ReadNow + 1)) = Len(ring) - ReadNow
    BY DrainReadFacts
  <2>2. buf' \in Seq(1..Len(stream)) /\ Len(buf') = Len(buf) + ReadNow
    BY <1>1, <2>1, JoinFacts
  <2>3. Len(buf') <= UART_RX_BUF_SIZE
    BY <1>1, <2>1, <2>2 DEF TypeOK
  <2>4. Len(ring') <= UART_RX_BUF_SIZE
    BY <1>1, <2>1
  <2> QED BY <2>1, <2>2, <2>3, <2>4 DEF TypeOK
<1> QED BY <1>2, <1>3, <1>4, <1>5 DEF Drain

LEMMA ScanMoveType ==
  ASSUME TypeOK, NEW j \in 1..(Len(buf) + 1), ScanMove(j), out' \in Seq(Message)
  PROVE  TypeOK'
<1>1. buf \in Seq(1..Len(stream)) /\ Len(buf) \in Nat /\ Len(buf) <= UART_RX_BUF_SIZE
      /\ UART_RX_BUF_SIZE \in Nat
  BY BufferFacts, LenProperties, FramerAssumption DEF TypeOK
<1>2. buf' \in Seq(1..Len(stream)) /\ Len(buf') = Len(buf) - j + 1
  BY <1>1, FromFacts DEF ScanMove
<1>3. Len(buf') <= UART_RX_BUF_SIZE
  BY <1>1, <1>2
<1> QED BY <1>2, <1>3 DEF ScanMove, driverVars, TypeOK

\* The message a scan hands out is a piece of the data buffer.
LEMMA HandOutFacts ==
  ASSUME TypeOK, NEW k \in 1..Len(buf), NEW n \in 2..(Len(buf) - k + 1)
  PROVE  /\ k + n \in 1..(Len(buf) + 1)
         /\ SubSeq(From(buf, k), 1, n) \in Seq(1..Len(stream))
         /\ Len(SubSeq(From(buf, k), 1, n)) = n
         /\ \A i \in 1..n : SubSeq(From(buf, k), 1, n)[i] = buf[k + i - 1]
         /\ SubSeq(From(buf, k), 1, n) \in Seq(Nat)
<1>1. /\ From(buf, k) \in Seq(1..Len(stream))
      /\ Len(From(buf, k)) = Len(buf) - k + 1
      /\ \A i \in 1..(Len(buf) - k + 1) : From(buf, k)[i] = buf[k + i - 1]
  BY SuffixFacts
<1>2. Len(buf) \in Nat
  BY BufferFacts, LenProperties
<1> DEFINE c == From(buf, k)
<1> HIDE DEF c
<1>3. c \in Seq(1..Len(stream)) /\ n \in 0..Len(c)
  BY <1>1, <1>2 DEF c
<1>4. /\ SubSeq(c, 1, n) \in Seq(1..Len(stream))
      /\ Len(SubSeq(c, 1, n)) = n
      /\ \A i \in 1..n : SubSeq(c, 1, n)[i] = c[i]
  BY <1>3, PrefixFacts
<1>5. \A i \in 1..n : SubSeq(c, 1, n)[i] = buf[k + i - 1]
  BY <1>1, <1>2, <1>4 DEF c
<1>6. SubSeq(c, 1, n) \in Seq(Nat)
  <2>1. \A i \in 1..n : SubSeq(c, 1, n)[i] \in Nat
    <3>1. \A i \in 1..Len(SubSeq(c, 1, n)) : SubSeq(c, 1, n)[i] \in 1..Len(stream)
      BY <1>4, ElementOfSeq
    <3>2. Len(stream) \in Nat
      BY BufferFacts, LenProperties
    <3> QED BY <1>4, <3>1, <3>2
  <2> QED BY <1>4, <2>1
<1> QED BY <1>2, <1>4, <1>5, <1>6 DEF c

LEMMA ScanType ==
  ASSUME TypeOK, Scan
  PROVE  TypeOK'
<1>1. out \in Seq(Message)
  BY DEF TypeOK
<1>2. CASE ClearGarbage
  <2>1. <<>> \in Seq(1..Len(stream)) /\ Len(<<>>) = 0
    BY EmptySeq
  <2> QED BY <1>2, <2>1, FramerAssumption DEF ClearGarbage, driverVars, TypeOK
<1>3. ASSUME NEW k \in 1..Len(buf), ScanRound(k) PROVE TypeOK'
  <2>1. CASE \E j \in 1..(Len(buf) + 1) : ScanSkip(j)
    BY <1>1, <2>1, ScanMoveType DEF ScanSkip
  <2>2. ASSUME NEW n \in 2..(Len(buf) - k + 1), NEW kind \in {"NMEA", "UBX"},
               ScanHandOut(k, n, kind)
        PROVE  TypeOK'
    <3>1. k + n \in 1..(Len(buf) + 1) /\ SubSeq(From(buf, k), 1, n) \in Seq(Nat)
      BY HandOutFacts
    <3>2. [kind |-> kind, msg |-> SubSeq(From(buf, k), 1, n)] \in Message
      BY <3>1 DEF Message
    <3>3. out' \in Seq(Message)
      BY <1>1, <2>2, <3>2, AppendProperties DEF ScanHandOut
    <3> QED BY <2>2, <3>1, <3>3, ScanMoveType DEF ScanHandOut
  <2> QED BY <1>3, <2>1, <2>2, ScanShape
<1> QED BY <1>2, <1>3 DEF Scan, ScanRound

LEMMA TypeStep == TypeOK /\ [Next]_vars => TypeOK'
<1> SUFFICES ASSUME TypeOK, [Next]_vars PROVE TypeOK'
  OBVIOUS
<1>1. CASE Environment
  BY <1>1, DriverType
<1>2. CASE TakeDataEvent \/ TakeOtherEvent \/ DelayOver
  BY <1>2, EventLoopType
<1>3. CASE Drain
  BY <1>3, DrainType
<1>4. CASE Scan
  BY <1>4, ScanType
<1>5. CASE UNCHANGED vars
  BY <1>5 DEF vars, TypeOK
<1> QED BY <1>1, <1>2, <1>3, <1>4, <1>5 DEF Next, Task

\* The data buffer never overflows: every read fits in what is left of it
\* (to_read of drain_uart_rx_buf), and every variable keeps its type.
THEOREM TypeCorrect == Spec => []TypeOK
<1>1. Init => TypeOK
  <2> SUFFICES ASSUME Init PROVE TypeOK
    OBVIOUS
  <2>1. /\ <<>> \in Seq(1..Len(stream)) /\ <<>> \in Seq(EventType)
        /\ <<>> \in Seq(Message) /\ Len(<<>>) = 0
    BY EmptySeq
  <2>2. Len(stream) \in Nat
    BY FramerAssumption, LenProperties DEF Init
  <2>3. ring \in Seq(1..Len(stream)) /\ Len(ring) <= UART_RX_BUF_SIZE
    BY <2>1, FramerAssumption DEF Init
  <2>4. buf \in Seq(1..Len(stream)) /\ Len(buf) <= UART_RX_BUF_SIZE
    BY <2>1, FramerAssumption DEF Init
  <2>5. evq \in Seq(EventType) /\ Len(evq) <= UART_QUEUE_SIZE
    BY <2>1, FramerAssumption DEF Init
  <2>6. toRead \in 0..UART_RX_BUF_SIZE /\ sent \in 0..Len(stream)
    BY <2>2, FramerAssumption DEF Init
  <2>7. out \in Seq(Message) /\ rxStopped \in BOOLEAN /\ pc = "wait" /\ stream \in Streams
    BY <2>1 DEF Init
  <2> QED BY <2>3, <2>4, <2>5, <2>6, <2>7 DEF TypeOK
<1> QED BY <1>1, TypeStep, PTL DEF Spec

------------------------------------------------------------------------------
(***************************************************************************)
(* No byte is stranded in the ring.                                        *)
(***************************************************************************)
LEMMA WakeupStep == TypeOK /\ NoLostWakeup /\ [Next]_vars => NoLostWakeup'
<1> SUFFICES ASSUME TypeOK, NoLostWakeup, [Next]_vars PROVE NoLostWakeup'
  OBVIOUS
<1>1. \A e \in EventType : Post(evq, e) # <<>>
  BY PostType DEF TypeOK
<1>2. CASE Environment
  <2>1. CASE UartFlush
    BY <2>1 DEF UartFlush, NoLostWakeup
  <2>2. CASE ~UartFlush
    BY <1>1, <1>2, <2>2
       DEF Environment, Receive, UartRx, UartRxFull, UartRxError, EventType, NoLostWakeup
  <2> QED BY <2>1, <2>2
<1>3. CASE TakeDataEvent \/ TakeOtherEvent \/ DelayOver
  BY <1>3 DEF TakeDataEvent, TakeOtherEvent, DelayOver, driverVars, NoLostWakeup
<1>4. CASE Drain
  BY <1>4 DEF Drain, DrainDone, DrainCheck, DrainOverrun, DrainRead, driverVars,
              NoLostWakeup
<1>5. CASE Scan
  <2>1. CASE ClearGarbage
    BY <2>1 DEF ClearGarbage, driverVars, NoLostWakeup
  <2>2. ASSUME NEW k \in 1..Len(buf), ScanRound(k) PROVE NoLostWakeup'
    <3>1. pc = "scan"
      BY <2>2 DEF ScanRound, HandleNmea, RejectNmea, KeepNmea, HandleUbx,
                  RejectUbx, KeepUbx, WaitUbx, AtNmea, AtUbx
    <3>2. UNCHANGED driverVars
      BY <2>2, ScanShape DEF ScanSkip, ScanHandOut, ScanMove
    <3> QED BY <3>1, <3>2 DEF driverVars, NoLostWakeup
  <2> QED BY <1>5, <2>1, <2>2 DEF Scan, ScanRound
<1>6. CASE UNCHANGED vars
  BY <1>6 DEF vars, NoLostWakeup
<1> QED BY <1>2, <1>3, <1>4, <1>5, <1>6 DEF Next, Task

\* Data in the ring always has an event to fetch it, or the task is draining,
\* although the driver drops events its full queue has no room for.
THEOREM NoWakeupIsLost == Spec => []NoLostWakeup
<1>1. Init => NoLostWakeup
  BY DEF Init, NoLostWakeup
<1> QED BY <1>1, WakeupStep, TypeCorrect, PTL DEF Spec

\* No buffer of the receive path ever overflows, and no byte is left in the ring
\* without an event that fetches it (drain_uart_rx_buf, gnss_uart_task).
THEOREM ReceiverIsSound == Spec => []Inv
<1>1. TypeOK /\ NoLostWakeup => Inv
  BY DEF Inv
<1> QED BY <1>1, TypeCorrect, NoWakeupIsLost, PTL

------------------------------------------------------------------------------
(***************************************************************************)
(* Sending order.  InOrder speaks of the data buffer and the ring joined;  *)
(* the proofs speak of the two of them.                                    *)
(***************************************************************************)
Ascending(p) == \A i, j \in 1..Len(p) : i < j => p[i] < p[j]

Below(p, q) == \A i \in 1..Len(p), j \in 1..Len(q) : p[i] < q[j]

UpTo(p, n) == \A i \in 1..Len(p) : p[i] <= n

Apart ==
  /\ Ascending(buf) /\ Ascending(ring) /\ Below(buf, ring)
  /\ UpTo(buf, sent) /\ UpTo(ring, sent)

\* The elements of the two buffers are numbers, and what their join holds.
LEMMA PendingFacts ==
  ASSUME TypeOK
  PROVE  /\ Len(buf) \in Nat /\ Len(ring) \in Nat /\ sent \in Nat
         /\ Len(stream) \in Nat /\ sent <= Len(stream)
         /\ \A i \in 1..Len(buf) : buf[i] \in 1..Len(stream)
         /\ \A i \in 1..Len(ring) : ring[i] \in 1..Len(stream)
         /\ Len(Pending) = Len(buf) + Len(ring)
         /\ \A i \in 1..Len(buf) : Pending[i] = buf[i]
         /\ \A i \in 1..Len(ring) : Pending[Len(buf) + i] = ring[i]
<1>1. /\ buf \in Seq(1..Len(stream)) /\ ring \in Seq(1..Len(stream))
      /\ stream \in Seq(Byte)
  BY BufferFacts
<1>2. Len(buf) \in Nat /\ Len(ring) \in Nat /\ Len(stream) \in Nat
  BY <1>1, LenProperties
<1>3. sent \in Nat /\ sent <= Len(stream)
  BY <1>2 DEF TypeOK
<1>4. /\ \A i \in 1..Len(buf) : buf[i] \in 1..Len(stream)
      /\ \A i \in 1..Len(ring) : ring[i] \in 1..Len(stream)
  BY <1>1, ElementOfSeq
<1>5. /\ Len(buf \o ring) = Len(buf) + Len(ring)
      /\ \A i \in 1..Len(buf) : (buf \o ring)[i] = buf[i]
      /\ \A i \in (Len(buf) + 1)..(Len(buf) + Len(ring)) :
           (buf \o ring)[i] = ring[i - Len(buf)]
  BY <1>1, JoinFacts
<1>6. \A i \in 1..Len(ring) : (buf \o ring)[Len(buf) + i] = ring[i]
  <2> TAKE i \in 1..Len(ring)
  <2>1. /\ Len(buf) + i \in (Len(buf) + 1)..(Len(buf) + Len(ring))
        /\ (Len(buf) + i) - Len(buf) = i
    BY <1>2
  <2> QED BY <1>5, <2>1
<1> QED BY <1>2, <1>3, <1>4, <1>5, <1>6 DEF Pending

LEMMA InOrderIffApart == TypeOK => (InOrder <=> Apart)
<1> SUFFICES ASSUME TypeOK PROVE InOrder <=> Apart
  OBVIOUS
<1> DEFINE p == Pending
<1>1. /\ Len(buf) \in Nat /\ Len(ring) \in Nat /\ sent \in Nat
      /\ Len(p) = Len(buf) + Len(ring)
      /\ \A i \in 1..Len(buf) : p[i] = buf[i]
      /\ \A i \in 1..Len(ring) : p[Len(buf) + i] = ring[i]
  BY PendingFacts
<1>2. \A i \in 1..Len(p) : \/ i \in 1..Len(buf)
                          \/ /\ i - Len(buf) \in 1..Len(ring)
                             /\ p[i] = ring[i - Len(buf)]
  <2> TAKE i \in 1..Len(p)
  <2>1. CASE i <= Len(buf)
    BY <1>1, <2>1
  <2>2. CASE i > Len(buf)
    <3>1. i - Len(buf) \in 1..Len(ring) /\ Len(buf) + (i - Len(buf)) = i
      BY <1>1, <2>2
    <3> QED BY <1>1, <3>1
  <2> QED BY <1>1, <2>1, <2>2
<1>3. /\ 1..Len(buf) \subseteq 1..Len(p)
      /\ \A i \in 1..Len(ring) : Len(buf) + i \in 1..Len(p)
  BY <1>1
<1> HIDE DEF p
<1>4. ASSUME InOrder PROVE Apart
  <2>1. /\ \A i, j \in 1..Len(p) : i < j => p[i] < p[j]
        /\ \A i \in 1..Len(p) : p[i] <= sent
    BY <1>4 DEF InOrder, p
  <2>2. Ascending(buf) /\ UpTo(buf, sent)
    BY <1>1, <1>3, <2>1 DEF Ascending, UpTo
  <2>3. Ascending(ring)
    <3> SUFFICES ASSUME NEW i \in 1..Len(ring), NEW j \in 1..Len(ring), i < j
                 PROVE  ring[i] < ring[j]
      BY DEF Ascending
    <3>1. Len(buf) + i < Len(buf) + j
      BY <1>1
    <3> QED BY <1>1, <1>3, <2>1, <3>1
  <2>4. UpTo(ring, sent)
    BY <1>1, <1>3, <2>1 DEF UpTo
  <2>5. Below(buf, ring)
    <3> SUFFICES ASSUME NEW i \in 1..Len(buf), NEW j \in 1..Len(ring)
                 PROVE  buf[i] < ring[j]
      BY DEF Below
    <3>1. i < Len(buf) + j
      BY <1>1
    <3> QED BY <1>1, <1>3, <2>1, <3>1
  <2> QED BY <2>2, <2>3, <2>4, <2>5 DEF Apart
<1>5. ASSUME Apart PROVE InOrder
  <2>1. \A i \in 1..Len(p) : p[i] <= sent
    BY <1>1, <1>2, <1>5 DEF Apart, UpTo
  <2>2. ASSUME NEW i \in 1..Len(p), NEW j \in 1..Len(p), i < j
        PROVE  p[i] < p[j]
    <3>1. CASE i \in 1..Len(buf) /\ j \in 1..Len(buf)
      BY <1>1, <1>5, <2>2, <3>1 DEF Apart, Ascending
    <3>2. CASE i \in 1..Len(buf) /\ ~(j \in 1..Len(buf))
      BY <1>1, <1>2, <1>5, <2>2, <3>2 DEF Apart, Below
    <3>3. CASE ~(i \in 1..Len(buf))
      <4>1. /\ i - Len(buf) \in 1..Len(ring) /\ p[i] = ring[i - Len(buf)]
            /\ ~(j \in 1..Len(buf))
        BY <1>1, <1>2, <2>2, <3>3
      <4>2. j - Len(buf) \in 1..Len(ring) /\ p[j] = ring[j - Len(buf)]
        BY <1>2, <4>1
      <4>3. i - Len(buf) < j - Len(buf)
        BY <1>1, <2>2
      <4> QED BY <1>5, <4>1, <4>2, <4>3 DEF Apart, Ascending
    <3> QED BY <3>1, <3>2, <3>3
  <2> QED BY <2>1, <2>2 DEF InOrder, p
<1> QED BY <1>4, <1>5

\* The frontier lies below everything pending, and no higher number does.
LEMMA FrontierFacts ==
  TypeOK /\ Apart =>
    /\ Frontier \in 0..sent
    /\ \A i \in 1..Len(buf) : buf[i] > Frontier
    /\ \A i \in 1..Len(ring) : ring[i] > Frontier
    /\ \A f \in Nat : /\ f <= sent
                      /\ \A i \in 1..Len(buf) : buf[i] > f
                      /\ \A i \in 1..Len(ring) : ring[i] > f
                      => f <= Frontier
<1> SUFFICES ASSUME TypeOK, Apart
             PROVE  /\ Frontier \in 0..sent
                    /\ \A i \in 1..Len(buf) : buf[i] > Frontier
                    /\ \A i \in 1..Len(ring) : ring[i] > Frontier
                    /\ \A f \in Nat : /\ f <= sent
                                      /\ \A i \in 1..Len(buf) : buf[i] > f
                                      /\ \A i \in 1..Len(ring) : ring[i] > f
                                      => f <= Frontier
  OBVIOUS
<1> DEFINE p == Pending
<1>1. /\ Len(buf) \in Nat /\ Len(ring) \in Nat /\ sent \in Nat
      /\ \A i \in 1..Len(buf) : buf[i] \in 1..Len(stream)
      /\ \A i \in 1..Len(ring) : ring[i] \in 1..Len(stream)
      /\ Len(stream) \in Nat
      /\ Len(p) = Len(buf) + Len(ring)
      /\ \A i \in 1..Len(buf) : p[i] = buf[i]
      /\ \A i \in 1..Len(ring) : p[Len(buf) + i] = ring[i]
  BY PendingFacts
<1>2. /\ Ascending(buf) /\ Ascending(ring) /\ Below(buf, ring)
      /\ UpTo(buf, sent) /\ UpTo(ring, sent)
  BY DEF Apart
<1>3. p \in Seq(1..Len(stream))
  BY BufferFacts, JoinFacts DEF Pending
<1>4. Frontier = IF p = <<>> THEN sent ELSE p[1] - 1
  BY DEF Frontier
<1>5. p = <<>> <=> Len(p) = 0
  BY <1>3, EmptySeq
<1> HIDE DEF p
<1>6. CASE Len(buf) > 0
  <2>1. Frontier = buf[1] - 1 /\ 1 \in 1..Len(buf)
    BY <1>1, <1>4, <1>5, <1>6
  <2>2. \A i \in 1..Len(buf) : buf[1] <= buf[i]
    BY <1>1, <1>2, <1>6 DEF Ascending
  <2>3. \A i \in 1..Len(ring) : buf[1] < ring[i]
    BY <1>2, <2>1 DEF Below
  <2>4. buf[1] <= sent
    BY <1>2, <2>1 DEF UpTo
  <2> QED BY <1>1, <2>1, <2>2, <2>3, <2>4
<1>7. CASE Len(buf) = 0 /\ Len(ring) > 0
  <2>1. Frontier = ring[1] - 1 /\ 1 \in 1..Len(ring)
    BY <1>1, <1>4, <1>5, <1>7
  <2>2. \A i \in 1..Len(ring) : ring[1] <= ring[i]
    BY <1>1, <1>2, <1>7 DEF Ascending
  <2>3. ring[1] <= sent
    BY <1>2, <2>1 DEF UpTo
  <2> QED BY <1>1, <1>7, <2>1, <2>2, <2>3
<1>8. CASE Len(buf) = 0 /\ Len(ring) = 0
  <2>1. Frontier = sent
    BY <1>1, <1>4, <1>5, <1>8
  <2> QED BY <1>1, <1>8, <2>1
<1> QED BY <1>1, <1>6, <1>7, <1>8

\* A step keeps the order, and everything then pending was beyond the frontier.
Advance ==
  /\ Apart'
  /\ sent' \in Nat /\ sent' >= sent
  /\ \A i \in 1..Len(buf') : buf'[i] > Frontier
  /\ \A i \in 1..Len(ring') : ring'[i] > Frontier

LEMMA DriverAdvance ==
  ASSUME TypeOK, Apart, Environment
  PROVE  Advance
<1>1. /\ Frontier \in 0..sent
      /\ \A i \in 1..Len(buf) : buf[i] > Frontier
      /\ \A i \in 1..Len(ring) : ring[i] > Frontier
  BY FrontierFacts
<1>2. /\ Len(buf) \in Nat /\ Len(ring) \in Nat /\ sent \in Nat
      /\ \A i \in 1..Len(buf) : buf[i] \in Nat
      /\ \A i \in 1..Len(ring) : ring[i] \in Nat
  BY PendingFacts
<1>3. Len(<<>>) = 0
  BY EmptySeq
<1>4. FifoChunk \in Nat
  BY FramerAssumption
<1>5. ASSUME NEW n \in 1..FifoChunk, UartRx(n) PROVE Advance
  <2>1. n \in Nat /\ sent' = sent + n /\ buf' = buf
    BY <1>4, <1>5 DEF UartRx
  <2> DEFINE a == Arriving(n)
  <2>2. /\ a \in Seq(1..Len(stream)) /\ Len(a) = n
        /\ \A i \in 1..n : a[i] = sent + i
    BY <1>4, <1>5, ArrivingFacts DEF UartRx
  <2>3. ring \in Seq(1..Len(stream)) /\ ring' = ring \o a
    BY <1>5, BufferFacts DEF UartRx
  <2> HIDE DEF a
  <2>4. /\ Len(ring') = Len(ring) + n
        /\ \A i \in 1..Len(ring) : ring'[i] = ring[i]
        /\ \A i \in (Len(ring) + 1)..(Len(ring) + n) : ring'[i] = a[i - Len(ring)]
    BY <2>2, <2>3, JoinFacts
  <2>5. \A i \in 1..Len(ring') :
          \/ i \in 1..Len(ring) /\ ring'[i] = ring[i]
          \/ i > Len(ring) /\ i - Len(ring) <= n /\ ring'[i] = sent + (i - Len(ring))
    <3> TAKE i \in 1..Len(ring')
    <3>1. CASE i <= Len(ring)
      BY <1>2, <2>4, <3>1
    <3>2. CASE i > Len(ring)
      <4>1. i \in (Len(ring) + 1)..(Len(ring) + n) /\ i - Len(ring) \in 1..n
        BY <1>2, <2>1, <2>4, <3>2
      <4> QED BY <2>2, <2>4, <3>2, <4>1
    <3> QED BY <1>2, <3>1, <3>2
  <2>6. Ascending(ring')
    BY <1>2, <2>1, <2>5, <2>4 DEF Apart, Ascending, UpTo
  <2>7. Below(buf', ring')
    BY <1>2, <2>1, <2>5, <2>4 DEF Apart, Below, UpTo
  <2>8. UpTo(ring', sent') /\ UpTo(buf', sent')
    <3>1. UpTo(buf', sent')
      BY <1>2, <2>1 DEF Apart, UpTo
    <3>2. \A i \in 1..Len(ring') : ring'[i] <= sent + n
      BY <1>2, <2>1, <2>5, <2>4 DEF Apart, UpTo
    <3> QED BY <2>1, <3>1, <3>2 DEF UpTo
  <2>9. \A i \in 1..Len(ring') : ring'[i] > Frontier
    BY <1>1, <1>2, <2>1, <2>5, <2>4
  <2> QED BY <1>1, <1>2, <2>1, <2>6, <2>7, <2>8, <2>9 DEF Advance, Apart
<1>6. ASSUME NEW n \in 1..FifoChunk, UartRxFull(n) PROVE Advance
  BY <1>1, <1>2, <1>6 DEF UartRxFull, Advance, Apart
<1>7. ASSUME NEW n \in 0..FifoChunk, UartRxError(n) PROVE Advance
  BY <1>1, <1>2, <1>4, <1>7 DEF UartRxError, Advance, Apart, UpTo
<1>8. CASE UartFlush
  BY <1>1, <1>2, <1>3, <1>8 DEF UartFlush, Advance, Apart, Ascending, Below, UpTo
<1> QED BY <1>5, <1>6, <1>7, <1>8 DEF Environment, Receive

\* The buffer moves to one of its suffixes.
LEMMA SuffixAdvance ==
  ASSUME TypeOK, Apart, NEW j \in 1..(Len(buf) + 1), buf' = From(buf, j),
         UNCHANGED <<ring, sent>>
  PROVE  Advance
<1>1. /\ Frontier \in 0..sent
      /\ \A i \in 1..Len(buf) : buf[i] > Frontier
      /\ \A i \in 1..Len(ring) : ring[i] > Frontier
  BY FrontierFacts
<1>2. Len(buf) \in Nat /\ sent \in Nat
  BY PendingFacts
<1>3. /\ Len(buf') = Len(buf) - j + 1
      /\ \A i \in 1..(Len(buf) - j + 1) : buf'[i] = buf[j + i - 1]
  BY BufferFacts, FromFacts
<1>4. \A i \in 1..Len(buf') : j + i - 1 \in 1..Len(buf) /\ buf'[i] = buf[j + i - 1]
  BY <1>2, <1>3
<1>5. Ascending(buf')
  <2> SUFFICES ASSUME NEW i \in 1..Len(buf'), NEW m \in 1..Len(buf'), i < m
               PROVE  buf'[i] < buf'[m]
    BY DEF Ascending
  <2>1. j + i - 1 < j + m - 1
    BY <1>2, <1>3
  <2> QED BY <1>4, <2>1 DEF Apart, Ascending
<1>6. Below(buf', ring') /\ UpTo(buf', sent')
  BY <1>4 DEF Apart, Below, UpTo
<1> QED BY <1>1, <1>2, <1>4, <1>5, <1>6 DEF Apart, Advance

\* The buffer and perhaps the ring are given up.
LEMMA ClearAdvance ==
  ASSUME TypeOK, Apart, buf' = <<>>, ring' \in {ring, <<>>}, UNCHANGED sent
  PROVE  Advance
<1>1. /\ Frontier \in 0..sent
      /\ \A i \in 1..Len(ring) : ring[i] > Frontier
  BY FrontierFacts
<1>2. Len(<<>>) = 0
  BY EmptySeq
<1>3. sent \in Nat
  BY PendingFacts
<1>4. CASE ring' = ring
  BY <1>1, <1>2, <1>3, <1>4 DEF Advance, Apart, Ascending, Below, UpTo
<1>5. CASE ring' = <<>>
  BY <1>1, <1>2, <1>3, <1>5 DEF Advance, Apart, Ascending, Below, UpTo
<1> QED BY <1>4, <1>5

LEMMA ReadAdvance ==
  ASSUME TypeOK, Apart, DrainRead
  PROVE  Advance
<1>1. /\ Frontier \in 0..sent
      /\ \A i \in 1..Len(buf) : buf[i] > Frontier
      /\ \A i \in 1..Len(ring) : ring[i] > Frontier
  BY FrontierFacts
<1>2. Len(buf) \in Nat /\ Len(ring) \in Nat /\ sent \in Nat /\ sent' = sent
  BY PendingFacts DEF DrainRead
<1> DEFINE n == ReadNow
           r == SubSeq(ring, 1, ReadNow)
<1>3. /\ n \in 0..Len(ring)
      /\ r \in Seq(1..Len(stream)) /\ Len(r) = n
      /\ Len(ring') = Len(ring) - n
      /\ \A i \in 1..n : r[i] = ring[i]
      /\ \A i \in 1..(Len(ring) - n) : ring'[i] = ring[n + i]
  BY DrainReadFacts DEF DrainRead
<1>4. buf' = buf \o r /\ buf \in Seq(1..Len(stream))
  BY BufferFacts DEF DrainRead
<1> HIDE DEF n, r
<1>4a. /\ Len(buf \o r) = Len(buf) + Len(r)
       /\ \A i \in 1..Len(buf) : (buf \o r)[i] = buf[i]
       /\ \A i \in (Len(buf) + 1)..(Len(buf) + Len(r)) : (buf \o r)[i] = r[i - Len(buf)]
  BY <1>3, <1>4, JoinFacts
<1>5. /\ Len(buf') = Len(buf) + n
      /\ \A i \in 1..Len(buf) : buf'[i] = buf[i]
      /\ \A i \in (Len(buf) + 1)..(Len(buf) + n) : buf'[i] = r[i - Len(buf)]
  BY <1>3, <1>4, <1>4a
<1>6. \A i \in 1..Len(buf') :
        \/ i \in 1..Len(buf) /\ buf'[i] = buf[i]
        \/ /\ i > Len(buf) /\ i - Len(buf) \in 1..n
           /\ i - Len(buf) \in 1..Len(ring)
           /\ buf'[i] = ring[i - Len(buf)]
  <2> TAKE i \in 1..Len(buf')
  <2>1. CASE i <= Len(buf)
    BY <1>2, <1>5, <2>1
  <2>2. CASE i > Len(buf)
    <3>1. i \in (Len(buf) + 1)..(Len(buf) + n) /\ i - Len(buf) \in 1..n
      BY <1>2, <1>3, <1>5, <2>2
    <3>2. i - Len(buf) \in 1..Len(ring)
      BY <1>2, <1>3, <3>1
    <3> QED BY <1>3, <1>5, <2>2, <3>1, <3>2
  <2> QED BY <1>2, <2>1, <2>2
<1>7. \A i \in 1..Len(ring') : n + i \in 1..Len(ring) /\ ring'[i] = ring[n + i]
  BY <1>2, <1>3
<1>8. Ascending(buf')
  <2> SUFFICES ASSUME NEW i \in 1..Len(buf'), NEW j \in 1..Len(buf'), i < j
               PROVE  buf'[i] < buf'[j]
    BY DEF Ascending
  <2>1. CASE i \in 1..Len(buf) /\ j \in 1..Len(buf)
    BY <1>5, <2>1 DEF Apart, Ascending
  <2>2. CASE i \in 1..Len(buf) /\ ~(j \in 1..Len(buf))
    BY <1>5, <1>6, <2>2 DEF Apart, Below
  <2>3. CASE ~(i \in 1..Len(buf))
    <3>1. ~(j \in 1..Len(buf)) /\ i - Len(buf) < j - Len(buf)
      BY <1>2, <1>5, <2>3, <1>3
    <3> QED BY <1>6, <2>3, <3>1 DEF Apart, Ascending
  <2> QED BY <2>1, <2>2, <2>3
<1>9. Ascending(ring')
  <2> SUFFICES ASSUME NEW i \in 1..Len(ring'), NEW j \in 1..Len(ring'), i < j
               PROVE  ring'[i] < ring'[j]
    BY DEF Ascending
  <2>1. n + i < n + j
    BY <1>2, <1>3
  <2> QED BY <1>7, <2>1 DEF Apart, Ascending
<1>10. Below(buf', ring')
  <2> SUFFICES ASSUME NEW i \in 1..Len(buf'), NEW j \in 1..Len(ring')
               PROVE  buf'[i] < ring'[j]
    BY DEF Below
  <2>1. CASE i \in 1..Len(buf)
    BY <1>5, <1>7, <2>1 DEF Apart, Below
  <2>2. CASE ~(i \in 1..Len(buf))
    <3>1. i - Len(buf) < n + j
      BY <1>2, <1>3, <1>6, <2>2
    <3> QED BY <1>6, <1>7, <2>2, <3>1 DEF Apart, Ascending
  <2> QED BY <2>1, <2>2
<1>11. UpTo(buf', sent') /\ UpTo(ring', sent')
  BY <1>2, <1>6, <1>7 DEF Apart, UpTo
<1>12. /\ \A i \in 1..Len(buf') : buf'[i] > Frontier
       /\ \A i \in 1..Len(ring') : ring'[i] > Frontier
  BY <1>1, <1>6, <1>7
<1> QED BY <1>2, <1>8, <1>9, <1>10, <1>11, <1>12 DEF Advance, Apart

\* Every step but the scan's rounds, which ScanShape describes.
LEMMA QuietAdvance ==
  ASSUME TypeOK, Apart, [Next]_vars, ~\E k \in 1..Len(buf) : ScanRound(k)
  PROVE  Advance /\ UNCHANGED <<stream, out>>
<1>1. CASE Environment
  BY <1>1, DriverAdvance
     DEF Environment, Receive, UartRx, UartRxFull, UartRxError, UartFlush
<1>2. ASSUME UNCHANGED <<ring, buf, sent>> PROVE Advance
  BY <1>2, FrontierFacts, PendingFacts DEF Advance, Apart
<1>3. CASE TakeOtherEvent \/ DrainOverrun \/ ClearGarbage
  BY <1>3, ClearAdvance DEF TakeOtherEvent, DrainOverrun, ClearGarbage, driverVars
<1>4. CASE TakeDataEvent \/ DelayOver \/ DrainDone \/ DrainCheck
  BY <1>2, <1>4 DEF TakeDataEvent, DelayOver, DrainDone, DrainCheck, driverVars
<1>5. CASE DrainRead
  BY <1>5, ReadAdvance DEF DrainRead
<1>6. CASE UNCHANGED vars
  BY <1>2, <1>6 DEF vars
<1> QED BY <1>1, <1>3, <1>4, <1>5, <1>6 DEF Next, Task, Drain, Scan, ScanRound

LEMMA ScanAdvance ==
  ASSUME TypeOK, Apart, NEW k \in 1..Len(buf), ScanRound(k)
  PROVE  Advance /\ UNCHANGED stream
<1>1. ASSUME NEW j \in 1..(Len(buf) + 1), ScanMove(j)
      PROVE  Advance /\ UNCHANGED stream
  BY <1>1, SuffixAdvance DEF ScanMove, driverVars
<1>2. CASE \E j \in 1..(Len(buf) + 1) : ScanSkip(j)
  BY <1>1, <1>2 DEF ScanSkip
<1>3. ASSUME NEW n \in 2..(Len(buf) - k + 1), NEW kind, ScanHandOut(k, n, kind)
      PROVE  Advance /\ UNCHANGED stream
  <2>1. k + n \in 1..(Len(buf) + 1)
    BY HandOutFacts
  <2> QED BY <1>1, <1>3, <2>1 DEF ScanHandOut
<1> QED BY <1>2, <1>3, ScanShape

LEMMA OrderStep == TypeOK /\ Apart /\ [Next]_vars => Advance
<1> SUFFICES ASSUME TypeOK, Apart, [Next]_vars PROVE Advance
  OBVIOUS
<1>1. CASE \E k \in 1..Len(buf) : ScanRound(k)
  BY <1>1, ScanAdvance
<1>2. CASE ~\E k \in 1..Len(buf) : ScanRound(k)
  BY <1>2, QuietAdvance
<1> QED BY <1>1, <1>2

LEMMA InitApart == Init => Apart
<1>1. Len(<<>>) = 0
  BY EmptySeq
<1> QED BY <1>1 DEF Init, Apart, Ascending, Below, UpTo

\* The bytes the task holds and those still in the ring stay in sending order
\* without repeats through every drain, memmove, flush and line error.
THEOREM OrderIsKept == Spec => []InOrder
<1>1. TypeOK /\ Apart /\ [Next]_vars => Apart'
  BY OrderStep DEF Advance
<1> QED BY <1>1, InitApart, TypeCorrect, InOrderIffApart, PTL DEF Spec

------------------------------------------------------------------------------
(***************************************************************************)
(* UartFramer implements FrameStream.                                      *)
(***************************************************************************)

\* The bytes of a message are a prefix of what the parser looked at.
LEMMA MessageBytes ==
  ASSUME TypeOK, NEW k \in 1..Len(buf), NEW n \in 2..(Len(buf) - k + 1)
  PROVE  LET m == SubSeq(From(buf, k), 1, n)
         IN  /\ FS!Bytes(stream, m) = SubSeq(From(data, k), 1, n)
             /\ Len(FS!Bytes(stream, m)) = n
             /\ \A i \in 1..n : FS!Bytes(stream, m)[i] = From(data, k)[i]
<1> DEFINE m == SubSeq(From(buf, k), 1, n)
           d == From(data, k)
<1>1. /\ From(buf, k) \in Seq(1..Len(stream))
      /\ Len(From(buf, k)) = Len(buf) - k + 1
      /\ d \in Seq(Byte) /\ Len(d) = Len(buf) - k + 1
      /\ d = Bytes(stream, From(buf, k))
  BY SuffixFacts
<1>2. /\ m \in Seq(1..Len(stream)) /\ Len(m) = n
      /\ \A i \in 1..n : m[i] = From(buf, k)[i]
  <2>1. Len(buf) \in Nat
    BY BufferFacts, LenProperties
  <2>2. n \in 0..Len(From(buf, k))
    BY <1>1, <2>1
  <2> QED BY <1>1, <2>2, PrefixFacts
<1>3. stream \in Seq(Byte) /\ Len(buf) \in Nat
  BY BufferFacts, LenProperties
<1>4. \A i \in 1..Len(d) : d[i] = stream[From(buf, k)[i]]
  BY <1>1, <1>3, BytesFacts
<1> HIDE DEF m, d
<1>5. /\ Bytes(stream, m) \in Seq(Byte) /\ Len(Bytes(stream, m)) = n
      /\ \A i \in 1..n : Bytes(stream, m)[i] = stream[m[i]]
  BY <1>2, <1>3, BytesFacts
<1>6. /\ n \in 0..Len(d) /\ \A i \in 1..n : i \in 1..Len(d)
  BY <1>1, <1>3
<1>7. \A i \in 1..n : Bytes(stream, m)[i] = d[i]
  BY <1>2, <1>4, <1>5, <1>6
<1>8. /\ SubSeq(d, 1, n) \in Seq(Byte) /\ Len(SubSeq(d, 1, n)) = n
      /\ \A i \in 1..n : SubSeq(d, 1, n)[i] = d[i]
  BY <1>1, <1>6, PrefixFacts
<1>9. Bytes(stream, m) = SubSeq(d, 1, n)
  <2>1. \A i \in 1..Len(Bytes(stream, m)) : Bytes(stream, m)[i] = SubSeq(d, 1, n)[i]
    BY <1>5, <1>7, <1>8
  <2> QED BY <1>5, <1>8, <2>1, SeqEqual
<1>10. FS!Bytes(stream, m) = Bytes(stream, m)
  BY DEF FS!Bytes, Bytes
<1> QED BY <1>5, <1>7, <1>9, <1>10 DEF m, d

LEMMA HandedOutWellFormed ==
  ASSUME TypeOK, NEW k \in 1..Len(buf), NEW n \in 2..(Len(buf) - k + 1),
         NEW kind,
         \/ /\ kind = "NMEA"
            /\ NmeaLen(From(data, k), n)
            /\ IsNmeaStart(data, k)
         \/ /\ kind = "UBX"
            /\ n = UbxLen(From(data, k))
            /\ UbxValid(From(data, k))
  PROVE  FS!WellFormed([kind |-> kind, msg |-> SubSeq(From(buf, k), 1, n)])
<1> DEFINE m == SubSeq(From(buf, k), 1, n)
           d == From(data, k)
           f == [kind |-> kind, msg |-> m]
<1>1. /\ FS!Bytes(stream, m) = SubSeq(d, 1, n)
      /\ Len(FS!Bytes(stream, m)) = n
      /\ \A i \in 1..n : FS!Bytes(stream, m)[i] = d[i]
  BY MessageBytes
<1>2. Len(buf) \in Nat /\ Len(d) = Len(buf) - k + 1 /\ d[1] = data[k]
  <2>1. Len(buf) \in Nat
    BY BufferFacts, LenProperties
  <2>2. /\ Len(d) = Len(buf) - k + 1
        /\ \A i \in 1..(Len(buf) - k + 1) : d[i] = data[k + i - 1]
    BY SuffixFacts
  <2>3. 1 \in 1..(Len(buf) - k + 1) /\ k + 1 - 1 = k
    BY <2>1
  <2> QED BY <2>1, <2>2, <2>3
<1>3. f.msg = m /\ f.kind = kind
  OBVIOUS
<1> HIDE DEF m, f
<1>4. CASE kind = "UBX" /\ n = UbxLen(d) /\ UbxValid(d)
  <2>1. FS!Bytes(stream, f.msg) \in ValidUbx
    BY <1>1, <1>3, <1>4 DEF UbxValid
  <2> QED BY <1>3, <1>4, <2>1 DEF FS!WellFormed, f, m
<1>5. CASE kind = "NMEA" /\ NmeaLen(d, n) /\ IsNmeaStart(data, k)
  <2> HIDE DEF d
  <2>1. d[1] = DOLLAR /\ d[n - 1] = CR /\ d[n] = LF
    BY <1>2, <1>5 DEF NmeaLen, IsNmeaStart
  <2>2. n # 2
    BY <2>1 DEF DOLLAR, CR
  <2>3. n > 2 /\ n - 1 \in 1..n /\ n \in 1..n /\ 1 \in 1..n
    BY <2>2
  <2>4. /\ Len(FS!Bytes(stream, f.msg)) > 2
        /\ Len(FS!Bytes(stream, f.msg)) = n
        /\ FS!Bytes(stream, f.msg)[1] = FS!DOLLAR
        /\ FS!Bytes(stream, f.msg)[n - 1] = FS!CR
        /\ FS!Bytes(stream, f.msg)[n] = FS!LF
    BY <1>1, <1>3, <2>1, <2>3 DEF FS!DOLLAR, FS!CR, FS!LF, DOLLAR, CR, LF
  <2>5. FS!WellFormed(f)
    BY <1>3, <1>5, <2>4 DEF FS!WellFormed
  <2> QED BY <2>5 DEF f, m
<1> QED BY <1>4, <1>5

\* The frontier never moves back, and never past what was sent.
LEMMA FrontierMoves ==
  ASSUME TypeOK, Apart, Advance, TypeOK', UNCHANGED stream,
         /\ Frontier' \in 0..sent'
         /\ \A f \in Nat : /\ f <= sent'
                           /\ \A i \in 1..Len(buf') : buf'[i] > f
                           /\ \A i \in 1..Len(ring') : ring'[i] > f
                           => f <= Frontier'
  PROVE  Frontier' \in Frontier..Len(stream)
<1>1. Frontier \in 0..sent /\ sent \in Nat
  BY FrontierFacts, PendingFacts
<1>2. sent' \in 0..Len(stream) /\ Len(stream) \in Nat
  BY PendingFacts DEF TypeOK
<1>3. Frontier \in Nat /\ Frontier <= sent'
  BY <1>1, <1>2 DEF Advance
<1>4. Frontier <= Frontier'
  BY <1>3 DEF Advance
<1> QED BY <1>1, <1>2, <1>3, <1>4

LEMMA HandOutIsDeliver ==
  ASSUME TypeOK, Apart, NEW k \in 1..Len(buf), NEW n \in 2..(Len(buf) - k + 1),
         NEW kind \in {"NMEA", "UBX"}, ScanHandOut(k, n, kind),
         FS!WellFormed([kind |-> kind, msg |-> SubSeq(From(buf, k), 1, n)]),
         Frontier' \in Nat,
         \A f \in Nat : /\ f <= sent'
                        /\ \A i \in 1..Len(buf') : buf'[i] > f
                        /\ \A i \in 1..Len(ring') : ring'[i] > f
                        => f <= Frontier'
  PROVE  FS!Deliver
<1> DEFINE m == SubSeq(From(buf, k), 1, n)
           f == [kind |-> kind, msg |-> m]
<1>1. /\ m \in Seq(Nat) /\ Len(m) = n
      /\ \A i \in 1..n : m[i] = buf[k + i - 1]
      /\ k + n \in 1..(Len(buf) + 1)
  BY HandOutFacts
<1>2. f.msg = m /\ f \in Message
  BY <1>1 DEF Message
<1>3. out' = Append(out, f) /\ out \in Seq(Message)
  BY DEF ScanHandOut, TypeOK
<1> HIDE DEF m, f
<1>4. Len(out') = Len(out) + 1 /\ out'[Len(out) + 1] = f
  BY <1>2, <1>3, AppendProperties
<1>5. /\ Len(buf) \in Nat /\ sent \in Nat
      /\ \A i \in 1..Len(buf) : buf[i] \in Nat
      /\ \A i \in 1..Len(ring) : ring[i] \in Nat
  BY PendingFacts
<1>6. \A i \in 1..n : k + i - 1 \in 1..Len(buf)
  BY <1>5
<1>7. ring' = ring /\ sent' = sent /\ buf' = From(buf, k + n)
  BY DEF ScanHandOut, ScanMove, driverVars
<1>8. /\ Len(buf') = Len(buf) - (k + n) + 1
      /\ \A i \in 1..(Len(buf) - (k + n) + 1) : buf'[i] = buf[(k + n) + i - 1]
  <2> DEFINE j == k + n
  <2>1. j \in 1..(Len(buf) + 1) /\ buf' = From(buf, j)
    BY <1>1, <1>7
  <2> HIDE DEF j
  <2>2. /\ Len(buf') = Len(buf) - j + 1
        /\ \A i \in 1..(Len(buf) - j + 1) : buf'[i] = buf[j + i - 1]
    BY <2>1, BufferFacts, FromFacts
  <2> QED BY <2>2 DEF j
<1>9. \A i \in 1..n : m[i] \in (Frontier + 1)..Frontier'
  <2> TAKE i \in 1..n
  <2>1. buf[k + i - 1] \in Nat /\ buf[k + i - 1] <= sent
    BY <1>5, <1>6 DEF Apart, UpTo
  <2>2. \A j \in 1..Len(buf') : buf'[j] > buf[k + i - 1]
    <3> TAKE j \in 1..Len(buf')
    <3>1. /\ buf'[j] = buf[(k + n) + j - 1]
          /\ (k + n) + j - 1 \in 1..Len(buf)
          /\ k + i - 1 < (k + n) + j - 1
      BY <1>1, <1>5, <1>8
    <3> QED BY <1>5, <1>6, <3>1 DEF Apart, Ascending
  <2>3. \A j \in 1..Len(ring') : ring'[j] > buf[k + i - 1]
    BY <1>5, <1>6, <1>7 DEF Apart, Below
  <2>4. buf[k + i - 1] <= Frontier'
    BY <1>7, <2>1, <2>2, <2>3
  <2>5. buf[k + i - 1] > Frontier /\ Frontier \in Nat
    BY <1>5, <1>6, FrontierFacts
  <2> QED BY <1>1, <2>1, <2>4, <2>5
<1>10. \A i, j \in 1..n : i < j => m[i] < m[j]
  <2> TAKE i \in 1..n, j \in 1..n
  <2>1. i < j => k + i - 1 < k + j - 1
    BY <1>5
  <2> QED BY <1>1, <1>6, <2>1 DEF Apart, Ascending
<1>11. FS!Fresh(f)
  BY <1>1, <1>2, <1>9, <1>10 DEF FS!Fresh
<1>12. FS!WellFormed(f)
  BY DEF f, m
<1> QED BY <1>3, <1>4, <1>11, <1>12 DEF FS!Deliver

LEMMA FrameStreamStep ==
  ASSUME TypeOK, Apart, TypeOK', [Next]_vars,
         /\ Frontier' \in 0..sent'
         /\ \A f \in Nat : /\ f <= sent'
                           /\ \A i \in 1..Len(buf') : buf'[i] > f
                           /\ \A i \in 1..Len(ring') : ring'[i] > f
                           => f <= Frontier'
  PROVE  FS!Next
<1>1. Advance
  BY OrderStep
<1>2. Frontier' \in Nat
  BY <1>1 DEF Advance
<1>3. ASSUME NEW k \in 1..Len(buf), ScanRound(k)
      PROVE  UNCHANGED stream /\ (FS!Deliver \/ FS!Skip)
  <2>1. UNCHANGED stream
    BY <1>3, ScanAdvance
  <2>2. CASE \E j \in 1..(Len(buf) + 1) : ScanSkip(j)
    BY <2>1, <2>2 DEF ScanSkip, FS!Skip
  <2>3. ASSUME NEW n \in 2..(Len(buf) - k + 1),
               \/ /\ ScanHandOut(k, n, "NMEA")
                  /\ NmeaLen(From(data, k), n)
                  /\ IsNmeaStart(data, k)
               \/ /\ ScanHandOut(k, n, "UBX")
                  /\ n = UbxLen(From(data, k))
                  /\ UbxValid(From(data, k))
        PROVE  FS!Deliver
    BY <1>2, <2>3, HandedOutWellFormed, HandOutIsDeliver
  <2> QED BY <1>3, <2>1, <2>2, <2>3, ScanShape
<1>4. ASSUME ~\E k \in 1..Len(buf) : ScanRound(k)
      PROVE  UNCHANGED stream /\ (FS!Deliver \/ FS!Skip)
  BY <1>4, QuietAdvance DEF FS!Skip
<1>5. UNCHANGED stream /\ (FS!Deliver \/ FS!Skip)
  <2>1. CASE \E k \in 1..Len(buf) : ScanRound(k)
    BY <1>3, <2>1
  <2>2. CASE ~\E k \in 1..Len(buf) : ScanRound(k)
    BY <1>4, <2>2
  <2> QED BY <2>1, <2>2
<1>6. Frontier' \in Frontier..Len(stream)
  BY <1>1, <1>5, FrontierMoves
<1> QED BY <1>5, <1>6 DEF FS!Next

\* The receive path keeps the promise of FrameStream: the messages handed out
\* are well formed, in sending order and disjoint, whatever is lost.
THEOREM FramerImplements == Spec => ImplementsFrameStream
<1>1. Init => FS!Init
  <2> SUFFICES ASSUME Init PROVE FS!Init
    OBVIOUS
  <2>1. Pending = <<>>
    BY DEF Init, Pending
  <2> QED BY <2>1 DEF Init, Frontier, FS!Init
<1>2. /\ TypeOK /\ Apart /\ TypeOK' /\ Apart' /\ [Next]_vars
      /\ (TypeOK /\ Apart => /\ Frontier \in 0..sent
                             /\ \A f \in Nat : /\ f <= sent
                                               /\ \A i \in 1..Len(buf) : buf[i] > f
                                               /\ \A i \in 1..Len(ring) : ring[i] > f
                                               => f <= Frontier)'
      => [FS!Next]_(FS!vars)
  BY FrameStreamStep
<1>3. TypeOK /\ Apart
      => /\ Frontier \in 0..sent
         /\ \A f \in Nat : /\ f <= sent
                           /\ \A i \in 1..Len(buf) : buf[i] > f
                           /\ \A i \in 1..Len(ring) : ring[i] > f
                           => f <= Frontier
  BY FrontierFacts
<1>4. TypeOK /\ Apart /\ [Next]_vars => Apart'
  BY OrderStep DEF Advance
<1> QED BY <1>1, <1>2, <1>3, <1>4, InitApart, TypeCorrect, PTL
        DEF Spec, ImplementsFrameStream, FS!Spec
=============================================================================
