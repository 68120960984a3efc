------------------------------- MODULE FileView -------------------------------
(***************************************************************************)
(* What open files promise: every handle has a view of its own, which      *)
(* starts as the stored file and changes by its own writes and truncations *)
(* only; a sync stores the view as a whole; nothing else, and no power     *)
(* loss, changes what is stored.  A call that fails for want of room may   *)
(* have done a part of its work, but only of its own, and it may leave the *)
(* handle at another position.                                             *)
(***************************************************************************)
EXTENDS Integers, Sequences

CONSTANTS Handle,
          Closed        \* not a view

VARIABLES stored,       \* what a mount finds
          view,         \* what each handle reads
          pos,          \* where each handle is
          unsynced,     \* the handles that have something to store
          call,         \* the last call: what, of which handle, with n, its result
          got           \* what the last read returned

vars == <<stored, view, pos, unsynced, call, got>>

Least(a, b) == IF a < b THEN a ELSE b
Cell(s, i) == IF i <= Len(s) THEN s[i] ELSE 0

Called(op, h) ==
  /\ call'.op = op /\ call'.h = h
  /\ \A g \in Handle \ {h} : view'[g] = view[g] /\ pos'[g] = pos[g]
  /\ unsynced' \ {h} = unsynced \ {h}

Changes(h) == call'.ok /\ view'[h] # view[h] => h \in unsynced'

Open(h) ==
  /\ Called("open", h) /\ view[h] = Closed /\ stored' = stored
  /\ view'[h] = (IF call'.n = 0 THEN <<>> ELSE stored) /\ pos'[h] = 0

Read(h) ==
  /\ Called("read", h) /\ UNCHANGED <<stored, view>>
  /\ call'.ok => /\ got' = SubSeq(view[h], pos[h] + 1, Least(pos[h] + call'.n, Len(view[h])))
                 /\ pos'[h] = pos[h] + Len(got')

Seek(h) ==
  /\ Called("seek", h) /\ UNCHANGED <<stored, view>>
  /\ call'.ok => pos'[h] = call'.n

\* Written at the position, or at the end of a handle that appends.
Write(h) ==
  /\ Called("write", h) /\ Changes(h) /\ UNCHANGED stored
  /\ LET from == IF call'.append /\ pos[h] < Len(view[h]) THEN Len(view[h]) ELSE pos[h]
     IN  /\ \A i \in 1..Len(view'[h]) :
              view'[h][i] = IF i \in from + 1..pos'[h] THEN call'.count ELSE Cell(view[h], i)
         /\ Len(view'[h]) >= Len(view[h])
         /\ call'.ok => pos'[h] = from + call'.n /\ Len(view'[h]) >= pos'[h]
         /\ Len(view'[h]) > Len(view[h]) => Len(view'[h]) <= from + call'.n

Truncate(h) ==
  /\ Called("truncate", h) /\ Changes(h) /\ UNCHANGED stored
  /\ \A i \in 1..Len(view'[h]) : view'[h][i] = Cell(view[h], i)
  /\ IF call'.ok THEN Len(view'[h]) = call'.n /\ pos'[h] = pos[h]
     ELSE Len(view'[h]) >= Least(Len(view[h]), call'.n)

Sync(h) ==
  /\ Called("sync", h) /\ UNCHANGED view
  /\ stored' = IF call'.ok /\ h \in unsynced THEN view[h] ELSE stored
  /\ call'.ok => pos'[h] = pos[h] /\ h \notin unsynced'

\* A handle whose last call failed is closed without a sync.
Close(h) ==
  /\ Called("close", h) /\ view'[h] = Closed
  /\ stored' = IF call'.ok /\ h \in unsynced THEN view[h] ELSE stored

PowerLoss ==
  call'.op = "loss" /\ view' = [h \in Handle |-> Closed] /\ UNCHANGED stored

Init == view = [h \in Handle |-> Closed] /\ unsynced = {}

Next ==
  \/ \E h \in Handle : \/ Open(h) \/ Read(h) \/ Seek(h) \/ Write(h)
                       \/ Truncate(h) \/ Sync(h) \/ Close(h)
  \/ PowerLoss

Spec == Init /\ [][Next]_vars
===============================================================================
