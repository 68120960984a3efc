----------------------------- MODULE MCUartFramer -----------------------------
(***************************************************************************)
(* Small instances of UartFramer for TLC.  The frame layout is scaled      *)
(* down: sync, sync, length low, length high, payload, one check byte (so  *)
(* UBX_OVERHEAD = 5 and UBX_LEN_OFFSET = 2); the sentence is "$x\r\n".     *)
(***************************************************************************)
EXTENDS UartFramer, SequencesExt

Nmea == <<36, 120, 13, 10>>
Ubx0 == <<181, 98, 0, 0, 7>>
Ubx1 == <<181, 98, 1, 0, 36, 7>>        \* its payload is a '$'
BadCheck == <<181, 98, 0, 0, 9>>
OneLonger == <<181, 98, 1, 0, 7>>       \* claims a byte of what follows it
BadLength == <<181, 98, 0, 1, 7>>       \* claims 256 bytes of payload
LoneSync == <<181>>
LoneDollar == <<36>>
Noise == <<120>>

Accepted == {Ubx0, Ubx1}

\* Streams of complete messages, as the receiver sends them.
CleanItems == {<<Nmea, Ubx1>>, <<Ubx0, Nmea, Ubx0>>, <<Ubx1, Ubx0>>,
               <<Nmea, Nmea, Ubx1>>}
CleanStreams == {FlattenSeq(s) : s \in CleanItems}

\* The same with a frame that was garbled on the line among them.
GarbledItems == {<<BadCheck, Ubx0, Nmea>>, <<Ubx0, OneLonger, Nmea, Ubx0>>,
                 <<BadLength, Ubx0, Nmea, Ubx0>>,
                 <<BadLength, Noise, Noise, Nmea, Ubx0>>,
                 <<Nmea, BadLength, Nmea, Ubx0, Ubx0>>}
GarbledStreams == {FlattenSeq(s) : s \in GarbledItems}

\* Streams with damage of every kind in them.
DamagedStreams == {FlattenSeq(s) : s \in
  {<<BadCheck, LoneDollar>>, <<LoneDollar, Nmea, LoneSync>>, <<BadCheck, Ubx0>>,
   <<BadLength, Noise>>}}

AllStreams == CleanStreams \cup GarbledStreams \cup DamagedStreams

------------------------------------------------------------------------------
(***************************************************************************)
(* What happens besides the stream.  While a damaged stream is sent,       *)
(* everything of UartFramer may.  While a clean or a garbled one is sent,  *)
(* the line and the pool do not fail, a pair of sync bytes arrives         *)
(* together, and the task keeps up with the line: what it has not used     *)
(* fits its buffer, except that one interrupt may find the task waiting    *)
(* behind a buffer that is full.                                           *)
(***************************************************************************)
Disturbed == stream \in DamagedStreams \ (CleanStreams \cup GarbledStreams)

KeepsUp == \/ Len(buf') + Len(ring') <= UART_RX_BUF_SIZE
           \/ pc = "wait" /\ Len(ring') <= FifoChunk

PoolServes ==
  \A k \in 1..Len(buf) :
    AtUbx(k) /\ UbxComplete(From(data, k)) /\ UbxValid(From(data, k)) => out' # out

PacedRx(n) == UartRx(n) /\ (Disturbed \/ (KeepsUp /\ ~CutsSync(n)))

PacedReceive == \E n \in 1..FifoChunk : PacedRx(n)

ServedScan == Scan /\ (Disturbed \/ PoolServes)

ServedTask == TakeDataEvent \/ TakeOtherEvent \/ DelayOver \/ Drain \/ ServedScan

MCNext ==
  \/ ServedTask
  \/ PacedReceive
  \/ \E n \in 1..FifoChunk : Disturbed /\ UartRxFull(n)
  \/ \E n \in 0..FifoChunk : Disturbed /\ UartRxError(n)
  \/ Disturbed /\ UartFlush

\* A restriction of FairSpec, with the same fairness.
MCFairSpec == /\ Init /\ [][MCNext]_vars
              /\ WF_vars(ServedTask) /\ WF_vars(PacedReceive)

------------------------------------------------------------------------------
Quiescent == sent = Len(stream) /\ ring = <<>> /\ evq = <<>> /\ pc = "wait"

ItemsOf(sets) == CHOOSE s \in sets : FlattenSeq(s) = stream

Frames == [i \in 1..Len(out) |-> Bytes(stream, out[i].msg)]

\* Of a stream of complete, valid messages nothing is lost: once all of it
\* has been handled exactly its messages were handed out, in order ("distinguishes
\* incomplete messages (keep buffering) from corrupt ones", README.md).
AllDelivered ==
  Quiescent /\ stream \in CleanStreams => Frames = ItemsOf(CleanItems)

\* The positions of the i-th item of a stream made of the items s.
Place(s, i) ==
  LET before == Len(FlattenSeq(SubSeq(s, 1, i - 1)))
  IN  [j \in 1..Len(s[i]) |-> before + j]

\* How many bytes a garbled frame b can hold up or take with it, from its own
\* first byte: no more than itself when the length it claims fits the task's
\* buffer, the whole buffer otherwise.
Reach(b) == IF UbxLen(b) <= UART_RX_BUF_SIZE THEN Len(b) ELSE UART_RX_BUF_SIZE

\* "A single garbled byte can't stall the pipeline" (README.md), said of what is
\* still delivered: every message that begins beyond the reach of the garbled
\* frame is handed out.  A wrong check sum, or a length that still fits, costs
\* nothing but the frame (the 75 % rule drops it byte by byte); a length that does
\* not fit costs one buffer, given up whole by drain_uart_rx_buf.
Resumes ==
  Quiescent /\ stream \in GarbledStreams =>
    LET s == ItemsOf(GarbledItems)
        g == CHOOSE i \in 1..Len(s) : s[i] \in {BadCheck, OneLonger, BadLength}
    IN  \A i \in 1..Len(s) :
          i < g \/ Place(s, i)[1] >= Place(s, g)[1] + Reach(s[g]) =>
            i = g \/ \E m \in 1..Len(out) : out[m].msg = Place(s, i)

\* "A UBX frame that never validates is abandoned once the buffer hits 75 %
\* full" (README.md): while the task waits, the head of a buffer above that
\* level is never a frame whose claimed length cannot even fit the buffer.
AbandonedAt75 ==
  pc = "wait" /\ Len(buf) > GiveUpLevel /\ Len(buf) >= UBX_OVERHEAD
    => ~(IsUbxStart(data, 1) /\ UbxLen(data) > UART_RX_BUF_SIZE)
=============================================================================
