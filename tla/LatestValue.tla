----------------------------- MODULE LatestValue ------------------------------
(***************************************************************************)
(* What shared values with subscribers promise: a reader may miss values   *)
(* that were replaced before it looked, it never goes back to an older     *)
(* one, and it always gets to see the last one published.                  *)
(*                                                                         *)
(* Values are told apart by the number of their source message; a larger   *)
(* number is a later value.                                                *)
(***************************************************************************)
EXTENDS Naturals

CONSTANTS Values, Readers,
          Source            \* the value each reader waits for, in [Readers -> Values]

VARIABLES value,    \* per value, what was last published
          seen      \* per reader, what it last took

lvVars == <<value, seen>>

Init == value = [v \in Values |-> 0] /\ seen = [r \in Readers |-> 0]

Publish(v) ==
  /\ value' \in [Values -> Nat]
  /\ value'[v] > value[v]
  /\ \A w \in Values \ {v} : value'[w] = value[w]
  /\ UNCHANGED seen

Take(r) == /\ seen[r] < value[Source[r]]
           /\ seen' = [seen EXCEPT ![r] = value[Source[r]]]
           /\ UNCHANGED value

Next == \/ \E v \in Values : Publish(v)
        \/ \E r \in Readers : Take(r)

Spec == /\ Init /\ [][Next]_lvVars
        /\ \A r \in Readers : WF_lvVars(Take(r))
=============================================================================
