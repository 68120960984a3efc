------------------------------- MODULE OpenFiles -------------------------------
(***************************************************************************)
(* What a table of open files promises several tasks: every call takes     *)
(* effect at one moment and returns; a file keeps its name while a handle  *)
(* is open on it, unless its directory gets another name; a handle moves   *)
(* by the reads, writes and seeks on it, and by another call on it only    *)
(* when that one reports an error.                                         *)
(***************************************************************************)
CONSTANTS Task, Path, Fd,
          Place         \* where a handle can be

VARIABLES tree,         \* what is at each path
          handles,      \* per handle, its name, where its file is, and its place
          calls,        \* per task, what it asked for; "none", or "error" after a
                        \* call that has moved a handle and failed
          stuck         \* whether a call has failed that leaves others waiting

vars == <<tree, handles, calls, stuck>>

Idle == {"none", "error"}

Init == /\ tree = [p \in Path |-> "none"] /\ handles = <<>>
        /\ calls = [t \in Task |-> "none"] /\ stuck = FALSE

Begin(t) == /\ calls[t] \in Idle /\ calls' = [calls EXCEPT ![t] = calls'[t]]
            /\ UNCHANGED <<tree, handles, stuck>>

Return(t, ops) == calls[t] \in ops /\ calls' = [calls EXCEPT ![t] = "none"]

\* A query, a transfer to or from another place, a call that fails.
Nothing(t) == Return(t, {calls[t]}) /\ UNCHANGED <<tree, handles, stuck>>

Open(t) == \E h \in Fd, p \in Path :
  /\ Return(t, {"open"}) /\ h \notin DOMAIN handles
  /\ tree[p] \in {"none", "file"} /\ tree' = [tree EXCEPT ![p] = "file"]
  /\ handles' = [g \in DOMAIN handles \union {h} |->
                   IF g = h THEN [name |-> p, file |-> p, place |-> 0] ELSE handles[g]]
  /\ UNCHANGED stuck

Close(t) == \E h \in DOMAIN handles :
  /\ Return(t, {"close"}) /\ UNCHANGED <<tree, stuck>>
  /\ handles' = [g \in DOMAIN handles \ {h} |-> handles[g]]

Move(t) == \E h \in DOMAIN handles, n \in Place :
  /\ Return(t, {"move"}) /\ UNCHANGED <<tree, stuck>>
  /\ handles' = [handles EXCEPT ![h].place = n]

\* A transfer to or from another place, or a call that stores what was written,
\* that fails; the former may leave the others waiting.
Stray(t) == \E h \in DOMAIN handles, n \in Place :
  /\ calls[t] \in {"use", "transfer"} /\ calls' = [calls EXCEPT ![t] = "error"]
  /\ handles' = [handles EXCEPT ![h].place = n]
  /\ stuck' \in {stuck, calls[t] = "transfer"} /\ (stuck => stuck')
  /\ UNCHANGED tree

\* A file that is open stays where it is, or goes along with its directory.  When
\* it is not where its name says nothing more is promised of it.
Stays(h) == handles'[h].file \in {p \in Path : tree'[p] = "file"}
GoesAlong(t) == calls[t] = "rename" /\ \E p \in Path : tree[p] = "dir" /\ tree'[p] # "dir"

ChangeTree(t) ==
  /\ Return(t, {"unlink", "rename", "mkdir", "rmdir"}) /\ UNCHANGED stuck
  /\ handles' = [h \in DOMAIN handles |-> [handles[h] EXCEPT !.file = handles'[h].file]]
  /\ \A h \in DOMAIN handles :
       handles[h].file = handles[h].name =>
         Stays(h) /\ (handles'[h].file # handles[h].file => GoesAlong(t))

Next == \E t \in Task : \/ Begin(t) \/ Nothing(t) \/ Open(t) \/ Close(t)
                        \/ Move(t) \/ Stray(t) \/ ChangeTree(t)

Spec == Init /\ [][Next]_vars /\ \A t \in Task : []<>(calls[t] \in Idle \/ stuck)
===============================================================================
