------------------------------ MODULE MCTelemetry -----------------------------
(***************************************************************************)
(* Small loads of Telemetry for TLC: telemetry on its own, the UTC hint on *)
(* its own, and a little of both.                                          *)
(***************************************************************************)
EXTENDS Telemetry

SmallLoads == {[messages |-> 4, writes |-> 0, fixes |-> 0],
               [messages |-> 0, writes |-> 3, fixes |-> 2],
               [messages |-> 1, writes |-> 1, fixes |-> 1]}

\* Whatever is published is offered to the phone, or something newer is
\* (the three tasks of bt-notifications.c against tel_parser_task).
EveryValueIsTold ==
  \A t \in NotifyTasks : \A n \in 1..4 :
    shared[Source[t]] = n ~> told[t] >= n
=============================================================================
