------------------------------ MODULE Telemetry -------------------------------
(***************************************************************************)
(* The telemetry pipeline and the UTC hint: handle_ubx_msg copies each UBX *)
(* message into the queue of tel_parser_task, which publishes the shared   *)
(* values GnssBaseData and GnssPrecisionData; three notification tasks     *)
(* take them to the phone.  The other way round the phone writes Date      *)
(* Time, and gnss_date_time_upd_task hands it to the receiver.             *)
(*                                                                         *)
(* A message is its kind and its number in the order of arrival; the value *)
(* decoded from it is that number, and 0 is both the initial value and     *)
(* what an input whose payload was never filled in decodes to (the other   *)
(* members of an initialised struct are zero, gnss.c:587).                 *)
(*                                                                         *)
(* SHVAL (shared_values, a submodule) is modelled as README.md and its use *)
(* describe it: the value is set under a mutex, then one event bit per     *)
(* subscriber; a waiting task clears its own bit and copies the value.     *)
(***************************************************************************)
EXTENDS Naturals, Sequences, FiniteSets, SequencesExt

CONSTANTS TELPARSER_QUEUE_SIZE,
          Loads             \* bounds: how many UBX messages the receiver sends, writes
                            \* of Date Time the phone makes and fixes there are

ASSUME BoundsAssumption ==
  /\ TELPARSER_QUEUE_SIZE \in Nat \ {0}
  /\ Loads \subseteq [messages : Nat, writes : Nat, fixes : Nat]

Kinds == {"NAV-PVT", "NAV-DOP", "other"}
Input == [kind : Kinds, num : Nat]

BaseTasks == {"LocAndSpd", "Elevation"}
Subscribers(v) == CASE v = "GnssBaseData" -> BaseTasks
                    [] v = "GnssPrecisionData" -> {"GnssFixQlt"}
                    [] v = "GnssAuxUtcUpdateData" -> {"DateTimeUpd"}

\* The value a task waits for.
Source == [t \in BaseTasks \cup {"GnssFixQlt", "DateTimeUpd"} |->
             CASE t \in BaseTasks -> "GnssBaseData"
               [] t = "GnssFixQlt" -> "GnssPrecisionData"
               [] t = "DateTimeUpd" -> "GnssAuxUtcUpdateData"]
Tasks == DOMAIN Source
NotifyTasks == Tasks \ {"DateTimeUpd"}
Values == {"GnssBaseData", "GnssPrecisionData", "GnssAuxUtcUpdateData"}

VARIABLES
  load,       \* the load of this behaviour
  count,      \* UBX messages received so far
  telqueue,   \* TelemetryParserQueue
  parser,     \* where tel_parser_task is, and the input it works on
  lastFix,    \* NAV-PVT that last_fix and last_vehicle_count come from
  shared,     \* the three shared values
  fixOf,      \* NAV-PVT whose fix and count GnssPrecisionData holds
  bits,       \* tasks whose event bit is set
  task,       \* per reader: waiting, woken, or working on its copy
  copy,       \* per reader: the value it last copied
  told,       \* per notification task: value last given to BLE_SendNotification
  writer,     \* number of the write of Date Time whose bit is not set yet, or 0
  writes,     \* writes of Date Time so far
  fix,        \* the receiver has a valid fix
  fixes,      \* times it got one
  late,       \* hints given to the receiver since it has its fix
  accepted    \* history: inputs that entered the queue

pipe == <<load, count, telqueue, parser, lastFix, fixOf, accepted>>
hint == <<writer, writes, fix, fixes, late>>
readers == <<task, copy, told>>
vars == <<load, count, telqueue, parser, lastFix, shared, fixOf, bits, task, copy,
          told, writer, writes, fix, fixes, late, accepted>>

Idle == [at |-> "receive", in |-> [kind |-> "other", num |-> 0]]

Init ==
  /\ load \in Loads
  /\ count = 0 /\ telqueue = <<>> /\ parser = Idle /\ lastFix = 0
  /\ shared = [v \in Values |-> 0] /\ fixOf = 0 /\ bits = {}
  /\ task = [t \in Tasks |-> "wait"] /\ copy = [t \in Tasks |-> 0]
  /\ told = [t \in NotifyTasks |-> 0]
  /\ writer = 0 /\ writes = 0 /\ fix = FALSE /\ fixes = 0 /\ late = 0
  /\ accepted = <<>>

------------------------------------------------------------------------------
(* handle_ubx_msg, after UBX_ParseMessage: the copy for the parser.        *)

\* The navigation messages have a payload that fits.  Of the others nobody
\* reads the payload; one that is oversize or missing is sent as zeros.
InputOf(kind, n) == [kind |-> kind, num |-> IF kind = "other" THEN 0 ELSE n]

\* Mutant of Enqueue: the oldest input makes room for the new one.
EnqueueOverwrite(q, in) ==
  IF Len(q) < TELPARSER_QUEUE_SIZE THEN Append(q, in) ELSE Append(Tail(q), in)

\* Mutant of Enqueue: inputs are sent to the front of the queue.
EnqueueToFront(q, in) ==
  IF Len(q) < TELPARSER_QUEUE_SIZE THEN <<in>> \o q ELSE q

\* A queue that stays full for 10 ms: the message is logged and lost.
Enqueue(q, in) == IF Len(q) < TELPARSER_QUEUE_SIZE THEN Append(q, in) ELSE q

HandleUbxMsg(kind) ==
  /\ count < load.messages
  /\ count' = count + 1
  /\ LET in == InputOf(kind, count + 1)
     IN  /\ telqueue' = Enqueue(telqueue, in)
         /\ accepted' = IF telqueue' = telqueue THEN accepted ELSE Append(accepted, in)
  /\ UNCHANGED <<load, parser, lastFix, shared, fixOf, bits, readers, hint>>

------------------------------------------------------------------------------
(* SHVAL.                                                                  *)

\* Mutant of Wake: a single bit for all who wait for the value.
WakeOne(v) == bits' = bits \cup {CHOOSE t \in Subscribers(v) : TRUE}

Wake(v) == bits' = bits \cup Subscribers(v)

\* The task's bit is set: it clears it and goes for the value.
WaitForBit(t) ==
  /\ task[t] = "wait" /\ t \in bits
  /\ bits' = bits \ {t}
  /\ task' = [task EXCEPT ![t] = "woken"]
  /\ UNCHANGED <<pipe, shared, copy, told, hint>>

\* Its private copy, made under the mutex.
CopyValue(t) ==
  /\ task[t] = "woken"
  /\ copy' = [copy EXCEPT ![t] = shared[Source[t]]]
  /\ task' = [task EXCEPT ![t] = "use"]
  /\ UNCHANGED <<pipe, shared, bits, told, hint>>

------------------------------------------------------------------------------
(* tel_parser_task.                                                        *)

\* Anything but NAV-PVT and NAV-DOP is dropped here.
ParserReceive ==
  /\ parser.at = "receive" /\ telqueue # <<>>
  /\ telqueue' = Tail(telqueue)
  /\ LET in == Head(telqueue)
     IN  /\ parser' = IF in.kind = "other" THEN Idle ELSE [at |-> "set", in |-> in]
         /\ lastFix' = IF in.kind = "NAV-PVT" THEN in.num ELSE lastFix
  /\ UNCHANGED <<load, count, shared, fixOf, bits, readers, hint, accepted>>

Publishes(kind) == IF kind = "NAV-PVT" THEN "GnssBaseData" ELSE "GnssPrecisionData"

\* SHVAL_PointerSetValue: the value first, ...
ParserSet ==
  /\ parser.at = "set"
  /\ shared' = [shared EXCEPT ![Publishes(parser.in.kind)] = parser.in.num]
  /\ fixOf' = IF parser.in.kind = "NAV-DOP" THEN lastFix ELSE fixOf
  /\ parser' = [parser EXCEPT !.at = "wake"]
  /\ UNCHANGED <<load, count, telqueue, lastFix, bits, readers, hint, accepted>>

\* ... which fails when the mutex is not free within a second, ...
ParserSetFails ==
  /\ parser.at = "set"
  /\ parser' = Idle
  /\ UNCHANGED <<load, count, telqueue, lastFix, shared, fixOf, bits, readers, hint, accepted>>

\* ... then the bits of its subscribers.
ParserWake ==
  /\ parser.at = "wake"
  /\ Wake(Publishes(parser.in.kind))
  /\ parser' = Idle
  /\ UNCHANGED <<load, count, telqueue, lastFix, shared, fixOf, readers, hint, accepted>>

Parser == ParserReceive \/ ParserSet \/ ParserSetFails \/ ParserWake

------------------------------------------------------------------------------
(* The notification tasks: format the copy and send it.  A failure of      *)
(* BLE_SendNotification is logged, the value is not sent again.            *)

Notify(t) ==
  /\ task[t] = "use"
  /\ told' = [told EXCEPT ![t] = copy[t]]
  /\ task' = [task EXCEPT ![t] = "wait"]
  /\ UNCHANGED <<pipe, shared, bits, copy, hint>>

------------------------------------------------------------------------------
(* Date Time: BT_DateTimeAccessCB and gnss_date_time_upd_task.             *)

\* A write of seven bytes sets the shared value ...
DateTimeWrite ==
  /\ writes < load.writes /\ writer = 0
  /\ writes' = writes + 1
  /\ shared' = [shared EXCEPT !["GnssAuxUtcUpdateData"] = writes + 1]
  /\ writer' = writes + 1
  /\ UNCHANGED <<pipe, bits, readers, fix, fixes, late>>

\* ... unless its mutex is not free within a second; the phone is told that
\* it was written either way.  A write of another length is refused.
DateTimeNotStored ==
  /\ writes < load.writes /\ writer = 0
  /\ writes' = writes + 1
  /\ UNCHANGED <<pipe, shared, bits, readers, writer, fix, fixes, late>>

DateTimeWake ==
  /\ writer # 0
  /\ Wake("GnssAuxUtcUpdateData")
  /\ writer' = 0
  /\ UNCHANGED <<pipe, shared, readers, writes, fix, fixes, late>>

\* Mutant of DiscardHint: the receiver is not asked for its fix.
NeverDiscard == FALSE

DiscardHint == fix

\* M10_HasValidFix is asked first; M10_SetUTC is a call of its own.
CheckFix ==
  /\ task["DateTimeUpd"] = "use"
  /\ task' = [task EXCEPT !["DateTimeUpd"] = IF DiscardHint THEN "wait" ELSE "setUTC"]
  /\ UNCHANGED <<pipe, shared, bits, copy, told, hint>>

SetUTC ==
  /\ task["DateTimeUpd"] = "setUTC"
  /\ task' = [task EXCEPT !["DateTimeUpd"] = "wait"]
  /\ late' = IF fix THEN late + 1 ELSE late
  /\ UNCHANGED <<pipe, shared, bits, copy, told, writer, writes, fix, fixes>>

SetUTCFails ==
  /\ task["DateTimeUpd"] = "setUTC"
  /\ task' = [task EXCEPT !["DateTimeUpd"] = "wait"]
  /\ UNCHANGED <<pipe, shared, bits, copy, told, hint>>

DateTimeUpd == CheckFix \/ SetUTC \/ SetUTCFails

\* The receiver finds and loses its fix.
GetFix ==
  /\ ~fix /\ fixes < load.fixes
  /\ fix' = TRUE /\ fixes' = fixes + 1 /\ late' = 0
  /\ UNCHANGED <<pipe, shared, bits, readers, writer, writes>>

LoseFix ==
  /\ fix
  /\ fix' = FALSE /\ late' = 0
  /\ UNCHANGED <<pipe, shared, bits, readers, writer, writes, fixes>>

------------------------------------------------------------------------------
Phone == DateTimeWrite \/ DateTimeNotStored

Reader(t) == WaitForBit(t) \/ CopyValue(t)

Next == \/ \E kind \in Kinds : HandleUbxMsg(kind)
        \/ Parser
        \/ \E t \in Tasks : Reader(t)
        \/ \E t \in NotifyTasks : Notify(t)
        \/ Phone \/ DateTimeWake \/ DateTimeUpd
        \/ GetFix \/ LoseFix

Spec == Init /\ [][Next]_vars

(***************************************************************************)
(* The tasks run whenever they can; a call of SHVAL_PointerSetValue that   *)
(* has stored its value sets its bits.  Nothing is assumed of the          *)
(* receiver, the phone or the fix.                                         *)
(***************************************************************************)
FairSpec == /\ Spec /\ WF_vars(Parser) /\ WF_vars(DateTimeWake) /\ WF_vars(DateTimeUpd)
            /\ \A t \in Tasks : WF_vars(Reader(t))
            /\ \A t \in NotifyTasks : WF_vars(Notify(t))

------------------------------------------------------------------------------
(***************************************************************************)
(* Properties.                                                             *)
(***************************************************************************)

\* The queue holds what it can, and every counter is one of the load
\* (TELPARSER_QUEUE_SIZE of gnss.c:604).
TypeOK ==
  /\ load \in Loads
  /\ count \in 0..load.messages
  /\ telqueue \in Seq(Input) /\ Len(telqueue) <= TELPARSER_QUEUE_SIZE
  /\ parser \in [at : {"receive", "set", "wake"}, in : Input]
  /\ lastFix \in 0..count /\ fixOf \in 0..count
  /\ shared \in [Values -> Nat] /\ bits \subseteq Tasks
  /\ task \in [Tasks -> {"wait", "woken", "use", "setUTC"}]
  /\ copy \in [Tasks -> Nat] /\ told \in [NotifyTasks -> Nat]
  /\ writer \in 0..writes /\ writes \in 0..load.writes
  /\ fix \in BOOLEAN /\ fixes \in 0..load.fixes /\ late \in Nat
  /\ accepted \in Seq(Input)

\* The fix and the satellite count published with a NAV-DOP are those of the
\* newest NAV-PVT that got into the queue before it, also when messages were
\* lost to a full queue and when publishing that NAV-PVT failed (last_fix and
\* last_vehicle_count of tel_parser_task).
FixOfTheDop ==
  LET dop == shared["GnssPrecisionData"]
      before == {in \in ToSet(accepted) : in.kind = "NAV-PVT" /\ in.num < dop}
  IN  dop # 0 => fixOf = Max({in.num : in \in before} \cup {0})

\* A value that its subscriber has not copied is announced to it: the task
\* has its bit set, is on its way to the value, or the bits are about to be
\* set.  No interleaving of setting, waking and copying loses the last value.
Announcing(v) == \/ parser.at = "wake" /\ v = Publishes(parser.in.kind)
                 \/ writer # 0 /\ v = "GnssAuxUtcUpdateData"

NoLostValue ==
  \A t \in Tasks : copy[t] # shared[Source[t]] =>
    t \in bits \/ task[t] = "woken" \/ Announcing(Source[t])

\* No wake-up is lost, with a queue of the size it has.
Inv == TypeOK /\ NoLostValue

\* The shared values with their subscribers implement LatestValue: no task
\* goes back to an older value, each gets to see the last one.
LV == INSTANCE LatestValue WITH Readers <- Tasks, value <- shared, seen <- copy

ImplementsLatestValue == LV!Spec

\* At most the one hint whose test came before the fix reaches a receiver
\* that has a fix ("deliberately discards the hint if it already has a valid
\* 3D fix", README.md: M10_HasValidFix and M10_SetUTC are two calls).
OneLateHint == late <= 1
=============================================================================
