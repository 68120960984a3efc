----------------------------- MODULE FrameStream -----------------------------
(***************************************************************************)
(* What the GNSS receive path promises its clients (the telemetry queue    *)
(* and the M10 driver), whatever the timing of the line: the messages it   *)
(* hands out are well formed, each is made of bytes the receiver sent      *)
(* after every byte of the messages before it, in the order they were      *)
(* sent, and no byte is used twice.  Bytes may be skipped.                 *)
(***************************************************************************)
EXTENDS Wire

CONSTANTS Streams,      \* the byte streams the receiver may send
          ValidUbx      \* the byte sequences UBX_ParseMessage accepts

VARIABLES stream,       \* the stream of this run
          frontier,     \* every position up to here is used or skipped
          out           \* the messages handed out so far

vars == <<stream, frontier, out>>

WellFormed(f) ==
  LET b == Bytes(stream, f.msg)
  IN  \/ /\ f.kind = "UBX"
         /\ b \in ValidUbx
      \/ /\ f.kind = "NMEA"
         /\ Len(b) > 2
         /\ b[1] = DOLLAR
         /\ b[Len(b) - 1] = CR
         /\ b[Len(b)] = LF

\* The positions of f lie beyond the frontier, in sending order.
Fresh(f) ==
  /\ \A i \in 1..Len(f.msg) : f.msg[i] \in (frontier + 1)..frontier'
  /\ \A i, j \in 1..Len(f.msg) : i < j => f.msg[i] < f.msg[j]

Init == /\ stream \in Streams
        /\ frontier = 0
        /\ out = <<>>

Deliver == /\ Len(out') = Len(out) + 1
           /\ LET f == out'[Len(out) + 1]
              IN  /\ out' = Append(out, f)
                  /\ Fresh(f)
                  /\ WellFormed(f)

Skip == out' = out

Next == /\ frontier' \in frontier..Len(stream)
        /\ UNCHANGED stream
        /\ Deliver \/ Skip

Spec == Init /\ [][Next]_vars
=============================================================================
