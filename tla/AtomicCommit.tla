----------------------------- MODULE AtomicCommit -----------------------------
(***************************************************************************)
(* What an atomic store promises: the state it holds is replaced as a      *)
(* whole, at one moment while the commit that wants it runs; a commit that *)
(* reports success has done so; one that fails, or that a power loss ends, *)
(* ended before or after that moment.                                      *)
(***************************************************************************)
CONSTANTS State,        \* what can be stored
          NoCommit      \* not a State

VARIABLES stored,       \* what a mount finds
          wanted,       \* what the commit in progress stores, or NoCommit
          outcome       \* of the last commit

vars == <<stored, wanted, outcome>>

Init == stored \in State /\ wanted = NoCommit /\ outcome = "none"

Begin == /\ wanted = NoCommit /\ wanted' \in State
         /\ outcome' = "none" /\ UNCHANGED stored

\* The one step that changes what is stored.
Take == /\ wanted # NoCommit
        /\ stored' = wanted /\ UNCHANGED <<wanted, outcome>>

\* Success is reported only when the commit is stored.
Succeed == /\ wanted # NoCommit /\ stored = wanted
           /\ wanted' = NoCommit /\ outcome' = "ok" /\ UNCHANGED stored

Fail == /\ wanted # NoCommit
        /\ wanted' = NoCommit /\ outcome' = "failed" /\ UNCHANGED stored

Next == Begin \/ Take \/ Succeed \/ Fail

Spec == Init /\ [][Next]_vars
===============================================================================
