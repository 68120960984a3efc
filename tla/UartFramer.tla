------------------------------ MODULE UartFramer ------------------------------
(***************************************************************************)
(* The receive path of src/main/gnss.c: the UART driver of ESP-IDF fills a *)
(* ring buffer and posts events on a bounded queue; gnss_uart_task drains  *)
(* the ring into its data buffer and cuts NMEA sentences and UBX frames    *)
(* out of it.  The driver, the line and the M10 driver (which flushes the  *)
(* ring with uart_flush_rx) run concurrently with every step of the task.  *)
(***************************************************************************)
EXTENDS Wire

CONSTANTS
  Streams,            \* the byte streams the receiver may send
  ValidUbx,           \* the byte sequences UBX_ParseMessage accepts
  UART_RX_BUF_SIZE,   \* size of the driver's ring and of the task's buffer
  UART_QUEUE_SIZE,    \* length of the driver's event queue
  NMEA_MAX_LEN,       \* an unterminated sentence longer than this is dropped
  UBX_OVERHEAD,       \* bytes of a frame that are not payload
  UBX_LEN_OFFSET,     \* C index of the low byte of the payload length
  FifoChunk,          \* most bytes one interrupt moves into the ring
  LineFaults,         \* may the line lose bytes, or the ring be flushed?
  PoolExhausts,       \* may UBX_ParseMessage run out of pool items?
  SplitsSync          \* may one interrupt end between the two sync bytes?

ASSUME FramerAssumption ==
  /\ \A s \in Streams : s \in Seq(Byte)
  /\ UART_RX_BUF_SIZE \in Nat \ {0}
  /\ UART_QUEUE_SIZE \in Nat \ {0}
  /\ NMEA_MAX_LEN \in Nat
  /\ UBX_LEN_OFFSET \in Nat
  /\ UBX_OVERHEAD \in Nat
  /\ UBX_LEN_OFFSET >= 2
  /\ UBX_OVERHEAD >= UBX_LEN_OFFSET + 2
  /\ FifoChunk \in Nat \ {0}
  /\ {LineFaults, PoolExhausts, SplitsSync} \subseteq BOOLEAN

VARIABLES
  stream,     \* what the receiver sends in this run
  sent,       \* how much of it has been sent
  ring,       \* positions in the driver's ring buffer
  rxStopped,  \* the driver stopped receiving because the ring was full
  evq,        \* gUartQueue
  pc,         \* where gnss_uart_task is
  toRead,     \* to_read of drain_uart_rx_buf
  buf,        \* positions in data[0 .. curr_data_len - 1]
  out         \* the messages handed to the rest of the program

vars == <<stream, sent, ring, rxStopped, evq, pc, toRead, buf, out>>
driverVars == <<stream, sent, ring, rxStopped, evq>>

EventType == {"UART_DATA", "UART_BUFFER_FULL", "UART_OTHER"}
Message == [kind : {"NMEA", "UBX"}, msg : Seq(Nat)]

------------------------------------------------------------------------------
\* The task's buffer as the parsers see it.

data == Bytes(stream, buf)

IsNmeaStart(b, i) == b[i] = DOLLAR

IsUbxStart(b, i) == /\ i < Len(b)
                    /\ b[i] = UBX_SYNC_CHAR_ONE
                    /\ b[i + 1] = UBX_SYNC_CHAR_TWO

IsStart(b, i) == IsNmeaStart(b, i) \/ IsUbxStart(b, i)

\* Mutant of FirstStart: a UBX frame is preferred to an earlier sentence.
FirstStartUbx(b, k) ==
  /\ k \in 1..Len(b)
  /\ \/ /\ IsUbxStart(b, k)
        /\ \A j \in 1..(k - 1) : ~IsUbxStart(b, j)
     \/ /\ IsNmeaStart(b, k)
        /\ \A j \in 1..(k - 1) : ~IsStart(b, j)
        /\ \A j \in 1..Len(b) : ~IsUbxStart(b, j)

\* k is where the scan of gnss_uart_task finds the start of a message.
FirstStart(b, k) == /\ k \in 1..Len(b)
                    /\ IsStart(b, k)
                    /\ \A j \in 1..(k - 1) : ~IsStart(b, j)

\* n is the length of the sentence b starts with, its CR LF included.
NmeaLen(b, n) == /\ n \in 2..Len(b)
                 /\ b[n - 1] = CR /\ b[n] = LF
                 /\ \A j \in 2..(n - 1) : ~(b[j - 1] = CR /\ b[j] = LF)

Terminated(b) == \E j \in 2..Len(b) : b[j - 1] = CR /\ b[j] = LF

\* An unterminated sentence that the parser gives up.
NmeaCorrupt(b) == \/ Len(b) > NMEA_MAX_LEN
                  \/ \E j \in 2..Len(b) : b[j] = DOLLAR

\* full_msg_len of the frame b starts with.  The code reads the length bytes
\* before it knows they have arrived; what it then reads cannot make a buffer
\* shorter than UBX_OVERHEAD look complete, so only longer ones are compared.
UbxLen(b) ==
  UBX_OVERHEAD + b[UBX_LEN_OFFSET + 1] + 256 * b[UBX_LEN_OFFSET + 2]

UbxComplete(b) == Len(b) >= UBX_OVERHEAD /\ Len(b) >= UbxLen(b)

UbxValid(b) == SubSeq(b, 1, UbxLen(b)) \in ValidUbx

\* Mutant of GiveUpLevel: the level is the size of the buffer, never exceeded.
GiveUpLevelFull == UART_RX_BUF_SIZE

\* The level above which a frame that does not parse is given up.
GiveUpLevel == (UART_RX_BUF_SIZE * 75) \div 100

------------------------------------------------------------------------------
TypeOK ==
  /\ stream \in Streams
  /\ sent \in 0..Len(stream)
  /\ ring \in Seq(1..Len(stream)) /\ Len(ring) <= UART_RX_BUF_SIZE
  /\ rxStopped \in BOOLEAN
  /\ evq \in Seq(EventType) /\ Len(evq) <= UART_QUEUE_SIZE
  /\ pc \in {"wait", "drain", "read", "scan", "delay"}
  /\ toRead \in 0..UART_RX_BUF_SIZE
  /\ buf \in Seq(1..Len(stream)) /\ Len(buf) <= UART_RX_BUF_SIZE
  /\ pc = "read" => Len(buf) + toRead <= UART_RX_BUF_SIZE
  /\ out \in Seq(Message)

Init ==
  /\ stream \in Streams
  /\ sent = 0
  /\ ring = <<>>
  /\ rxStopped = FALSE
  /\ evq = <<>>
  /\ pc = "wait"
  /\ toRead = 0
  /\ buf = <<>>
  /\ out = <<>>

------------------------------------------------------------------------------
(***************************************************************************)
(* The UART driver and the line.                                           *)
(***************************************************************************)

\* The driver drops an event its queue has no room for.
Post(q, e) == IF Len(q) < UART_QUEUE_SIZE THEN Append(q, e) ELSE q

\* The next n bytes of the stream.
Arriving(n) == [i \in 1..n |-> sent + i]

CutsSync(n) == /\ sent + n < Len(stream)
               /\ stream[sent + n] = UBX_SYNC_CHAR_ONE
               /\ stream[sent + n + 1] = UBX_SYNC_CHAR_TWO

UartRx(n) ==
  /\ ~rxStopped
  /\ sent + n <= Len(stream)
  /\ Len(ring) + n <= UART_RX_BUF_SIZE
  /\ ~SplitsSync => ~CutsSync(n)
  /\ sent' = sent + n
  /\ ring' = ring \o Arriving(n)
  /\ evq' = Post(evq, "UART_DATA")
  /\ UNCHANGED <<stream, rxStopped, pc, toRead, buf, out>>

\* What arrived does not fit: it stays in the FIFO and receiving stops.
UartRxFull(n) ==
  /\ ~rxStopped
  /\ sent + n <= Len(stream)
  /\ Len(ring) + n > UART_RX_BUF_SIZE
  /\ rxStopped' = TRUE
  /\ evq' = Post(evq, "UART_BUFFER_FULL")
  /\ UNCHANGED <<stream, sent, ring, pc, toRead, buf, out>>

\* A FIFO overflow or a line error: n bytes are lost.
UartRxError(n) ==
  /\ LineFaults
  /\ sent + n <= Len(stream)
  /\ sent' = sent + n
  /\ evq' = Post(evq, "UART_OTHER")
  /\ UNCHANGED <<stream, ring, rxStopped, pc, toRead, buf, out>>

\* uart_flush_rx, called by the M10 driver from another task.
UartFlush ==
  /\ LineFaults
  /\ ring # <<>>
  /\ ring' = <<>>
  /\ rxStopped' = FALSE
  /\ UNCHANGED <<stream, sent, evq, pc, toRead, buf, out>>

------------------------------------------------------------------------------
(***************************************************************************)
(* The event loop of gnss_uart_task.                                       *)
(***************************************************************************)

TakeDataEvent ==
  /\ pc = "wait"
  /\ evq # <<>>
  /\ Head(evq) \in {"UART_DATA", "UART_BUFFER_FULL"}
  /\ evq' = Tail(evq)
  /\ pc' = "drain"
  /\ UNCHANGED <<stream, sent, ring, rxStopped, toRead, buf, out>>

TakeOtherEvent ==
  /\ pc = "wait"
  /\ evq # <<>>
  /\ Head(evq) = "UART_OTHER"
  /\ evq' = Tail(evq)
  /\ ring' = <<>>
  /\ rxStopped' = FALSE
  /\ buf' = <<>>
  /\ pc' = "delay"
  /\ UNCHANGED <<stream, sent, toRead, out>>

DelayOver ==
  /\ pc = "delay"
  /\ pc' = "wait"
  /\ UNCHANGED <<driverVars, toRead, buf, out>>

(***************************************************************************)
(* drain_uart_rx_buf: each round reads the ring's fill level, makes room   *)
(* when the data buffer is full, and reads.                                *)
(***************************************************************************)

AfterScan(b) == IF b = <<>> THEN "wait" ELSE "scan"

\* Mutant of DrainDone: the do-while becomes a single read.
DrainDoneOnce ==
  /\ pc = "drain"
  /\ pc' = AfterScan(buf)
  /\ UNCHANGED <<driverVars, toRead, buf, out>>

DrainDone ==
  /\ pc = "drain"
  /\ ring = <<>>
  /\ pc' = AfterScan(buf)
  /\ UNCHANGED <<driverVars, toRead, buf, out>>

SpaceLeft == UART_RX_BUF_SIZE - Len(buf)

DrainCheck ==
  /\ pc = "drain"
  /\ ring # <<>>
  /\ SpaceLeft > 0
  /\ toRead' = IF Len(ring) < SpaceLeft THEN Len(ring) ELSE SpaceLeft
  /\ pc' = "read"
  /\ UNCHANGED <<driverVars, buf, out>>

\* The data buffer is full: all of it is given up.
DrainOverrun ==
  /\ pc = "drain"
  /\ ring # <<>>
  /\ SpaceLeft = 0
  /\ buf' = <<>>
  /\ UNCHANGED <<driverVars, pc, toRead, out>>

ReadNow == IF toRead < Len(ring) THEN toRead ELSE Len(ring)

DrainRead ==
  /\ pc = "read"
  /\ buf' = buf \o SubSeq(ring, 1, ReadNow)
  /\ ring' = From(ring, ReadNow + 1)
  /\ rxStopped' = (rxStopped /\ ReadNow = 0)
  /\ pc' = "drain"
  /\ UNCHANGED <<stream, sent, evq, toRead, out>>

(***************************************************************************)
(* One round of the scan: find the first start of a message, move it to    *)
(* the front, then parse it.  The parser keeps it (1: incomplete), drops   *)
(* one byte (2: corrupted) or hands it out (0).                            *)
(***************************************************************************)

Keep(b) == /\ buf' = b
           /\ pc' = "wait"
           /\ UNCHANGED <<driverVars, toRead, out>>

\* Mutant of DropByte: the length is not decremented.
DropByteStuck(b) == /\ buf' = b
                    /\ pc' = "scan"
                    /\ UNCHANGED <<driverVars, toRead, out>>

DropByte(b) == /\ buf' = From(b, 2)
               /\ pc' = AfterScan(From(b, 2))
               /\ UNCHANGED <<driverVars, toRead, out>>

HandOut(b, kind, n) ==
  /\ out' = Append(out, [kind |-> kind, msg |-> SubSeq(b, 1, n)])
  /\ buf' = From(b, n + 1)
  /\ pc' = AfterScan(From(b, n + 1))
  /\ UNCHANGED <<driverVars, toRead>>

ClearGarbage ==
  /\ pc = "scan"
  /\ \A k \in 1..Len(buf) : ~IsStart(data, k)
  /\ buf' = <<>>
  /\ pc' = "wait"
  /\ UNCHANGED <<driverVars, toRead, out>>

AtNmea(k) == /\ pc = "scan"
             /\ FirstStart(data, k)
             /\ IsNmeaStart(data, k)

AtUbx(k) == /\ pc = "scan"
            /\ FirstStart(data, k)
            /\ IsUbxStart(data, k)

HandleNmea(k) ==
  /\ AtNmea(k)
  /\ \E n \in 2..Len(data) : /\ NmeaLen(From(data, k), n)
                             /\ HandOut(From(buf, k), "NMEA", n)

RejectNmea(k) ==
  /\ AtNmea(k)
  /\ ~Terminated(From(data, k))
  /\ NmeaCorrupt(From(data, k))
  /\ DropByte(From(buf, k))

KeepNmea(k) ==
  /\ AtNmea(k)
  /\ ~Terminated(From(data, k))
  /\ ~NmeaCorrupt(From(data, k))
  /\ Keep(From(buf, k))

WaitUbx(k) ==
  /\ AtUbx(k)
  /\ ~UbxComplete(From(data, k))
  /\ Keep(From(buf, k))

\* Mutant of HandleUbx: the result of UBX_ParseMessage is ignored.
HandleUbxUnchecked(k) ==
  /\ AtUbx(k)
  /\ UbxComplete(From(data, k))
  /\ HandOut(From(buf, k), "UBX", UbxLen(From(data, k)))

HandleUbx(k) ==
  /\ AtUbx(k)
  /\ UbxComplete(From(data, k))
  /\ UbxValid(From(data, k))
  /\ HandOut(From(buf, k), "UBX", UbxLen(From(data, k)))

\* UBX_ParseMessage fails on a bad frame, and when its pool is empty.
ParseFails(b) == /\ UbxComplete(b)
                 /\ UbxValid(b) => PoolExhausts

RejectUbx(k) ==
  /\ AtUbx(k)
  /\ ParseFails(From(data, k))
  /\ Len(From(data, k)) > GiveUpLevel
  /\ DropByte(From(buf, k))

KeepUbx(k) ==
  /\ AtUbx(k)
  /\ ParseFails(From(data, k))
  /\ Len(From(data, k)) <= GiveUpLevel
  /\ Keep(From(buf, k))

------------------------------------------------------------------------------
Drain == DrainDone \/ DrainCheck \/ DrainOverrun \/ DrainRead

Scan == \/ ClearGarbage
        \/ \E k \in 1..Len(buf) :
             \/ HandleNmea(k) \/ RejectNmea(k) \/ KeepNmea(k)
             \/ HandleUbx(k) \/ RejectUbx(k) \/ KeepUbx(k) \/ WaitUbx(k)

Task == TakeDataEvent \/ TakeOtherEvent \/ DelayOver \/ Drain \/ Scan

Receive == \E n \in 1..FifoChunk : UartRx(n)

Environment == \/ Receive
               \/ \E n \in 1..FifoChunk : UartRxFull(n)
               \/ \E n \in 0..FifoChunk : UartRxError(n)
               \/ UartFlush

Next == Task \/ Environment

Spec == Init /\ [][Next]_vars

(***************************************************************************)
(* gnss_uart_task is a FreeRTOS task that blocks only on its event queue,  *)
(* so whenever it can run it eventually does; the receiver keeps sending.  *)
(* Nothing is assumed of errors and flushes.                               *)
(***************************************************************************)
FairSpec == Spec /\ WF_vars(Task) /\ WF_vars(Receive)

------------------------------------------------------------------------------
(***************************************************************************)
(* Properties.                                                             *)
(***************************************************************************)

\* What has arrived and is neither used nor skipped yet.
Pending == buf \o ring

\* The data buffer followed by the ring is in sending order without repeats,
\* whatever drains, memmoves and flushes happened: no byte is parsed twice
\* and no message is put together out of order (drain_uart_rx_buf and the
\* memmoves of the two parsers).
InOrder ==
  /\ \A i, j \in 1..Len(Pending) : i < j => Pending[i] < Pending[j]
  /\ \A i \in 1..Len(Pending) : Pending[i] <= sent

\* Bytes in the ring always have an event, or the draining task, to fetch
\* them: an event dropped by the full queue strands no data.
NoLostWakeup ==
  pc \in {"wait", "scan", "delay"} /\ ring # <<>> => evq # <<>>

\* No buffer of drain_uart_rx_buf overflows, and no data waits unannounced.
Inv == TypeOK /\ NoLostWakeup

\* Every byte that arrives is fetched, whatever events were dropped, and the
\* task always gets back to its queue: no scan or drain loops for ever.
AlwaysCaughtUp == ring # <<>> \/ pc # "wait" ~> ring = <<>> /\ pc = "wait"

\* The abstract receive path: the frontier is what lies before the first
\* pending byte.
Frontier == IF Pending = <<>> THEN sent ELSE Pending[1] - 1

FS == INSTANCE FrameStream WITH frontier <- Frontier

\* The receive path implements the promise of FrameStream: messages are well
\* formed, disjoint and in sending order even when bytes are lost.
ImplementsFrameStream == FS!Spec
=============================================================================
