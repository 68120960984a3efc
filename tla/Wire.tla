-------------------------------- MODULE Wire --------------------------------
(***************************************************************************)
(* The bytes the GNSS receiver puts on the serial line, as gnss.c reads    *)
(* them: the start and end marks of an NMEA sentence, the two sync bytes   *)
(* of a UBX frame.  A position is an index into the stream of bytes the    *)
(* receiver sends; a piece of the stream is a sequence of positions, so    *)
(* that two equal bytes sent at different times stay distinct.             *)
(***************************************************************************)
EXTENDS Naturals, Sequences

Byte == 0..255

DOLLAR == 36
CR == 13
LF == 10
UBX_SYNC_CHAR_ONE == 181
UBX_SYNC_CHAR_TWO == 98

\* The bytes of `stream` at the positions of p.
Bytes(stream, p) == [i \in 1..Len(p) |-> stream[p[i]]]

\* The tail of a piece from its k-th element on.
From(p, k) == SubSeq(p, k, Len(p))
=============================================================================
