--------------------------- MODULE TelemetryProofs ----------------------------
(***************************************************************************)
(* The telemetry pipeline and the UTC hint for every size of the queue and *)
(* every load: no wake-up is lost, the published fix belongs to its        *)
(* NAV-DOP, at most one hint comes late, and the shared values keep the    *)
(* promise of LatestValue step by step.                                    *)
(*                                                                         *)
(* What ties the tasks together is the order of arrival: the queue is the  *)
(* part of accepted that tel_parser_task has not taken, and everything it  *)
(* published comes from a place in the part it has.                        *)
(***************************************************************************)
EXTENDS Telemetry, TLAPS

\* Inputs that have left the queue.
Taken == Len(accepted) - Len(telqueue)

QueueIsRest ==
  /\ Taken \in 0..Len(accepted)
  /\ \A i \in 1..Len(telqueue) : telqueue[i] = accepted[Taken + i]

\* The parser works on the last input it took.
ParserAtLast ==
  parser.at # "receive" => /\ Taken > 0 /\ parser.in = accepted[Taken]
                           /\ parser.in.kind # "other"

\* Numbers grow in the order of arrival.
InOrder ==
  /\ \A i \in 1..Len(accepted) :
       accepted[i].kind # "other" => accepted[i].num \in 1..count
  /\ \A i, j \in 1..Len(accepted) :
       i < j /\ accepted[i].kind # "other" /\ accepted[j].kind # "other" =>
         accepted[i].num < accepted[j].num

\* f is the newest NAV-PVT among the first n inputs of s, or 0.
NewestFix(s, f, n) ==
  IF f = 0 THEN \A i \in 1..n : s[i].kind # "NAV-PVT"
  ELSE \E i \in 1..n : /\ s[i] = [kind |-> "NAV-PVT", num |-> f]
                       /\ \A j \in i + 1..n : s[j].kind # "NAV-PVT"

\* Where a published value came from: not from the input still to be set.
CameFrom(v, i) ==
  /\ i \in 1..Taken /\ (parser.at = "set" => i < Taken)
  /\ accepted[i].kind # "other" /\ Publishes(accepted[i].kind) = v
  /\ accepted[i].num = shared[v]

Published == {"GnssBaseData", "GnssPrecisionData"}

ValuesCameFrom ==
  /\ NewestFix(accepted, lastFix, Taken)
  /\ \A v \in Published : shared[v] # 0 =>
       \E i \in 1..Taken : /\ CameFrom(v, i)
                           /\ v = "GnssPrecisionData" => NewestFix(accepted, fixOf, i)

\* No reader is ahead of the value it reads; the phone's writes are numbered.
ReadersBehind ==
  /\ \A t \in Tasks : copy[t] <= shared[Source[t]]
  /\ shared["GnssAuxUtcUpdateData"] <= writes

\* A task between its two calls has a test that came before the fix.
LateOnce ==
  /\ late <= 1
  /\ fix /\ task["DateTimeUpd"] = "setUTC" => late = 0

Order == QueueIsRest /\ ParserAtLast /\ InOrder /\ ValuesCameFrom

IInv == TypeOK /\ NoLostValue /\ Order /\ ReadersBehind /\ LateOnce

------------------------------------------------------------------------------
LEMMA SourceOf ==
  \A t \in Tasks : Source[t] \in Values /\ t \in Subscribers(Source[t])
  BY DEF Tasks, Source, Values, Subscribers, BaseTasks

LEMMA TaskNames == Tasks = {"LocAndSpd", "Elevation", "GnssFixQlt", "DateTimeUpd"}
  BY DEF Tasks, Source, BaseTasks

LEMMA LoadTypes ==
  ASSUME TypeOK
  PROVE  load.messages \in Nat /\ load.writes \in Nat /\ load.fixes \in Nat
  BY BoundsAssumption DEF TypeOK

LEMMA InputType ==
  ASSUME NEW kind \in Kinds, NEW n \in Nat
  PROVE  InputOf(kind, n) \in Input
  BY DEF InputOf, Input

LEMMA InitInvariant == Init => IInv
<1> SUFFICES ASSUME Init PROVE IInv
  OBVIOUS
<1> USE DEF Init
<1>1. TypeOK
  <2>1. Idle \in [at : {"receive", "set", "wake"}, in : Input]
    BY DEF Idle, Input, Kinds
  <2>2. load.messages \in Nat /\ load.writes \in Nat /\ load.fixes \in Nat
    BY BoundsAssumption
  <2>3. /\ telqueue \in Seq(Input) /\ Len(telqueue) <= TELPARSER_QUEUE_SIZE
        /\ accepted \in Seq(Input) /\ bits \subseteq Tasks
        /\ task \in [Tasks -> {"wait", "woken", "use", "setUTC"}]
        /\ shared \in [Values -> Nat]
    BY BoundsAssumption
  <2>4. fix \in BOOLEAN
    BY Zenon
  <2> QED
    BY <2>1, <2>2, <2>3, <2>4 DEF TypeOK
<1>2. NoLostValue /\ ReadersBehind
  BY SourceOf DEF NoLostValue, ReadersBehind, Values
<1>3. Order
  BY DEF Order, QueueIsRest, Taken, ParserAtLast, InOrder, ValuesCameFrom, NewestFix,
         Published, Values, Idle
<1>4. LateOnce
  BY DEF LateOnce
<1> QED
  BY <1>1, <1>2, <1>3, <1>4 DEF IInv

------------------------------------------------------------------------------
(* Types.                                                                  *)

LEMMA TypeStep ==
  ASSUME TypeOK, Order, [Next]_vars
  PROVE  TypeOK'
<1> USE LoadTypes DEF TypeOK, readers, pipe, hint
<1>1. ASSUME NEW kind \in Kinds, HandleUbxMsg(kind)
      PROVE  TypeOK'
  <2>1. InputOf(kind, count + 1) \in Input
    BY InputType
  <2>2. telqueue' \in Seq(Input) /\ Len(telqueue') <= TELPARSER_QUEUE_SIZE
    BY <1>1, <2>1, BoundsAssumption DEF HandleUbxMsg, Enqueue
  <2>3. accepted' \in Seq(Input)
    BY <1>1, <2>1 DEF HandleUbxMsg
  <2> QED
    BY <1>1, <2>2, <2>3 DEF HandleUbxMsg
<1>2. CASE ParserReceive
  <2> DEFINE in == Head(telqueue)
  <2>1. in \in Input /\ Tail(telqueue) \in Seq(Input) /\ Len(Tail(telqueue)) < Len(telqueue)
    BY <1>2 DEF ParserReceive
  <2>2. Len(telqueue) > 0 /\ in = telqueue[1]
    BY <1>2 DEF ParserReceive
  <2>3. in.kind = "NAV-PVT" => in.num \in 0..count
    <3>1. Taken \in Nat /\ Taken + 1 <= Len(accepted)
      BY <2>2 DEF Order, QueueIsRest, Taken
    <3>2. telqueue[1] = accepted[Taken + 1]
      BY <2>2 DEF Order, QueueIsRest
    <3> QED
      BY <2>2, <3>1, <3>2 DEF Order, InOrder
  <2>4. parser' \in [at : {"receive", "set", "wake"}, in : Input]
    BY <1>2, <2>1 DEF ParserReceive, Idle, Input, Kinds
  <2> QED
    BY <1>2, <2>1, <2>3, <2>4, BoundsAssumption DEF ParserReceive
<1>3. CASE ParserSet
  <2>1. Publishes(parser.in.kind) \in Values /\ parser.in.num \in Nat
    BY DEF Publishes, Values, Input
  <2> QED
    BY <1>3, <2>1 DEF ParserSet
<1>4. CASE ParserSetFails \/ ParserWake
  <2>1. Idle \in [at : {"receive", "set", "wake"}, in : Input]
    BY DEF Idle, Input, Kinds
  <2>2. bits' \subseteq Tasks
    BY <1>4 DEF ParserSetFails, ParserWake, Wake, Subscribers, Publishes, Tasks, Source, BaseTasks
  <2> QED
    BY <1>4, <2>1, <2>2 DEF ParserSetFails, ParserWake
<1>5. ASSUME NEW t \in Tasks, Reader(t)
      PROVE  TypeOK'
  BY <1>5, SourceOf DEF Reader, WaitForBit, CopyValue
<1>6. ASSUME NEW t \in NotifyTasks, Notify(t)
      PROVE  TypeOK'
  BY <1>6 DEF Notify, NotifyTasks
<1>7. CASE Phone
  <2>1. writes' \in 0..load.writes /\ writer' \in 0..writes'
    BY <1>7 DEF Phone, DateTimeWrite, DateTimeNotStored
  <2>2. shared' \in [Values -> Nat]
    BY <1>7 DEF Phone, DateTimeWrite, DateTimeNotStored
  <2>3. UNCHANGED <<pipe, bits, readers, fix, fixes, late>>
    BY <1>7 DEF Phone, DateTimeWrite, DateTimeNotStored
  <2> QED
    BY <2>1, <2>2, <2>3
<1>8. CASE DateTimeWake
  BY <1>8 DEF DateTimeWake, Wake, Subscribers, Tasks, Source, BaseTasks
<1>9. CASE DateTimeUpd
  <2>1. task' \in [Tasks -> {"wait", "woken", "use", "setUTC"}]
    BY <1>9 DEF DateTimeUpd, CheckFix, SetUTC, SetUTCFails
  <2>2. late' \in Nat
    BY <1>9 DEF DateTimeUpd, CheckFix, SetUTC, SetUTCFails
  <2>3. UNCHANGED <<pipe, shared, bits, copy, told, writer, writes, fix, fixes>>
    BY <1>9 DEF DateTimeUpd, CheckFix, SetUTC, SetUTCFails
  <2> QED
    BY <2>1, <2>2, <2>3
<1>10. CASE GetFix \/ LoseFix
  <2>1. fix' \in BOOLEAN
    BY <1>10, Zenon DEF GetFix, LoseFix
  <2>2. fixes' \in 0..load.fixes /\ late' \in Nat
    <3>1. CASE GetFix
      BY <3>1 DEF GetFix
    <3>2. CASE LoseFix
      BY <3>2 DEF LoseFix
    <3> QED
      BY <1>10, <3>1, <3>2
  <2>3. UNCHANGED <<pipe, shared, bits, readers, writer, writes>>
    BY <1>10 DEF GetFix, LoseFix
  <2> QED
    BY <2>1, <2>2, <2>3
<1>11. CASE UNCHANGED vars
  BY <1>11 DEF vars
<1> QED
  BY <1>1, <1>2, <1>3, <1>4, <1>5, <1>6, <1>7, <1>8, <1>9, <1>10, <1>11 DEF Next, Parser

------------------------------------------------------------------------------
(* Wake-ups: a value is announced from the moment it is set.               *)

LEMMA WakeUpStep ==
  ASSUME TypeOK, NoLostValue, [Next]_vars
  PROVE  NoLostValue'
<1> USE SourceOf DEF TypeOK, NoLostValue, Announcing, readers, pipe, hint
<1>1. ASSUME NEW kind \in Kinds, HandleUbxMsg(kind)
      PROVE  NoLostValue'
  BY <1>1 DEF HandleUbxMsg
<1>2. CASE ParserReceive
  BY <1>2 DEF ParserReceive
<1>3. CASE ParserSet
  BY <1>3 DEF ParserSet, Publishes
<1>4. CASE ParserSetFails
  BY <1>4 DEF ParserSetFails
<1>5. CASE ParserWake
  BY <1>5 DEF ParserWake, Wake
<1>6. ASSUME NEW t \in Tasks, Reader(t)
      PROVE  NoLostValue'
  BY <1>6 DEF Reader, WaitForBit, CopyValue
<1>7. ASSUME NEW t \in NotifyTasks, Notify(t)
      PROVE  NoLostValue'
  BY <1>7 DEF Notify, NotifyTasks
<1>8. CASE Phone
  BY <1>8 DEF Phone, DateTimeWrite, DateTimeNotStored
<1>9. CASE DateTimeWake
  BY <1>9 DEF DateTimeWake, Wake
<1>10. CASE DateTimeUpd
  BY <1>10 DEF DateTimeUpd, CheckFix, SetUTC, SetUTCFails
<1>11. CASE GetFix \/ LoseFix
  BY <1>11 DEF GetFix, LoseFix
<1>12. CASE UNCHANGED vars
  BY <1>12 DEF vars
<1> QED
  BY <1>1, <1>2, <1>3, <1>4, <1>5, <1>6, <1>7, <1>8, <1>9, <1>10, <1>11, <1>12
     DEF Next, Parser

------------------------------------------------------------------------------
(* The order of arrival.                                                   *)

LEMMA SamePrefix ==
  ASSUME NEW s, NEW t, NEW f, NEW n \in Nat, \A i \in 1..n : t[i] = s[i],
         NewestFix(s, f, n)
  PROVE  NewestFix(t, f, n)
  BY DEF NewestFix

\* Steps that do not touch the queue, and set no value the parser publishes.
LEMMA OrderKept ==
  ASSUME Order, UNCHANGED <<count, telqueue, accepted, lastFix, fixOf>>,
         parser' \in {parser, Idle}, \A v \in Published : shared'[v] = shared[v]
  PROVE  Order'
<1> USE DEF Order
<1>1. Taken' = Taken /\ QueueIsRest' /\ InOrder'
  BY DEF QueueIsRest, InOrder, Taken
<1>2. parser'.at # "receive" => parser' = parser
  BY DEF Idle
<1>3. ParserAtLast'
  BY <1>1, <1>2 DEF ParserAtLast
<1>4. \A v \in Published, i \in 1..Taken : CameFrom(v, i) => CameFrom(v, i)'
  BY <1>1, <1>2 DEF CameFrom
<1>5. ValuesCameFrom'
  BY <1>1, <1>4 DEF ValuesCameFrom
<1> QED
  BY <1>1, <1>3, <1>5

LEMMA OrderHandle ==
  ASSUME TypeOK, Order, NEW kind \in Kinds, HandleUbxMsg(kind)
  PROVE  Order'
<1> USE DEF Order, TypeOK, pipe, readers, hint
<1> DEFINE in == InputOf(kind, count + 1)
<1>1. /\ count' = count + 1 /\ telqueue' = Enqueue(telqueue, in)
      /\ accepted' = IF telqueue' = telqueue THEN accepted ELSE Append(accepted, in)
      /\ UNCHANGED <<parser, lastFix, shared, fixOf>>
  BY DEF HandleUbxMsg
<1>2. count \in Nat /\ Len(accepted) \in Nat /\ Len(telqueue) \in Nat /\ Taken \in Nat
  BY LoadTypes DEF QueueIsRest
<1>3. in \in Input /\ (in.kind # "other" => in.num = count + 1)
  BY <1>2, InputType DEF InputOf
<1>4. CASE telqueue' = telqueue
  <2>1. InOrder'
    BY <1>1, <1>2, <1>4 DEF InOrder
  <2>2. Taken' = Taken /\ QueueIsRest' /\ ParserAtLast'
    BY <1>1, <1>4 DEF QueueIsRest, Taken, ParserAtLast
  <2>3. ValuesCameFrom'
    BY <1>1, <1>4, <2>2 DEF ValuesCameFrom, CameFrom
  <2> QED
    BY <2>1, <2>2, <2>3
<1>5. CASE telqueue' # telqueue
  <2>1. telqueue' = Append(telqueue, in) /\ accepted' = Append(accepted, in)
    BY <1>1, <1>5 DEF Enqueue
  <2>2. /\ Len(accepted') = Len(accepted) + 1 /\ accepted'[Len(accepted) + 1] = in
        /\ \A i \in 1..Len(accepted) : accepted'[i] = accepted[i]
    BY <1>3, <2>1
  <2>3. /\ Len(telqueue') = Len(telqueue) + 1 /\ telqueue'[Len(telqueue) + 1] = in
        /\ \A i \in 1..Len(telqueue) : telqueue'[i] = telqueue[i]
    BY <1>3, <2>1
  <2>4. Taken' = Taken /\ Taken <= Len(accepted)
    BY <1>2, <2>2, <2>3 DEF Taken, QueueIsRest
  <2>5. QueueIsRest'
    <3> SUFFICES ASSUME NEW i \in 1..Len(telqueue')
                 PROVE  telqueue'[i] = accepted'[Taken + i]
      BY <1>2, <2>2, <2>4 DEF QueueIsRest
    <3>1. CASE i \in 1..Len(telqueue)
      <4>1. telqueue[i] = accepted[Taken + i]
        BY <3>1 DEF QueueIsRest
      <4>2. Taken + i \in 1..Len(accepted)
        BY <1>2, <3>1 DEF Taken
      <4> QED
        BY <2>2, <2>3, <3>1, <4>1, <4>2
    <3>2. CASE i = Len(telqueue) + 1
      BY <1>2, <2>2, <2>3, <3>2 DEF Taken
    <3> QED
      BY <1>2, <2>3, <3>1, <3>2
  <2>6. InOrder'
    BY <1>1, <1>2, <1>3, <2>2 DEF InOrder
  <2>7. ParserAtLast'
    BY <1>1, <1>2, <2>2, <2>4 DEF ParserAtLast
  <2>8. \A v, i : CameFrom(v, i) => CameFrom(v, i)'
    BY <1>1, <1>2, <2>2, <2>4 DEF CameFrom
  <2>9. \A g : \A i \in 0..Taken : NewestFix(accepted, g, i) => NewestFix(accepted', g, i)
    <3> SUFFICES ASSUME NEW g, NEW i \in 0..Taken, NewestFix(accepted, g, i)
                 PROVE  NewestFix(accepted', g, i)
      OBVIOUS
    <3>1. i \in Nat /\ \A j \in 1..i : accepted'[j] = accepted[j]
      BY <1>2, <2>2, <2>4
    <3> QED
      BY <3>1, SamePrefix
  <2>10. ValuesCameFrom'
    BY <1>1, <1>2, <2>4, <2>8, <2>9 DEF ValuesCameFrom
  <2> QED
    BY <2>5, <2>6, <2>7, <2>10
<1> QED
  BY <1>4, <1>5

LEMMA OrderReceive ==
  ASSUME TypeOK, Order, ParserReceive
  PROVE  Order'
<1> USE DEF Order, TypeOK, pipe, readers, hint
<1>1. /\ parser.at = "receive" /\ telqueue # <<>> /\ telqueue' = Tail(telqueue)
      /\ parser' = IF Head(telqueue).kind = "other" THEN Idle
                   ELSE [at |-> "set", in |-> Head(telqueue)]
      /\ lastFix' = IF Head(telqueue).kind = "NAV-PVT" THEN Head(telqueue).num ELSE lastFix
      /\ UNCHANGED <<count, accepted, shared, fixOf>>
  BY DEF ParserReceive
<1>2. /\ Len(telqueue) \in Nat \ {0} /\ Head(telqueue) = telqueue[1]
      /\ Len(telqueue') = Len(telqueue) - 1
      /\ \A i \in 1..Len(telqueue') : telqueue'[i] = telqueue[i + 1]
  BY <1>1
<1>3. Taken \in Nat /\ Len(accepted) \in Nat /\ Taken' = Taken + 1 /\ Taken' <= Len(accepted)
  BY <1>1, <1>2 DEF Taken, QueueIsRest
<1>4. telqueue[1] = accepted[Taken'] /\ telqueue[1] \in Input
  <2>1. 1 \in 1..Len(telqueue)
    BY <1>2
  <2>2. telqueue[1] = accepted[Taken + 1]
    BY <2>1 DEF QueueIsRest
  <2> QED
    BY <1>2, <1>3, <2>2
<1>5. QueueIsRest'
  BY <1>1, <1>2, <1>3 DEF QueueIsRest
<1>6. ParserAtLast'
  BY <1>1, <1>2, <1>3, <1>4 DEF ParserAtLast, Idle
<1>7. \A v, i : CameFrom(v, i) => CameFrom(v, i)'
  BY <1>1, <1>3 DEF CameFrom
<1>8. NewestFix(accepted, lastFix', Taken')
  <2>1. CASE Head(telqueue).kind = "NAV-PVT"
    <3>1. accepted[Taken'] = [kind |-> "NAV-PVT", num |-> lastFix']
      BY <1>1, <1>2, <1>4, <2>1 DEF Input
    <3>2. lastFix' # 0
      BY <1>1, <1>3, <1>4, <1>2, <2>1, LoadTypes DEF InOrder
    <3> QED
      BY <1>3, <3>1, <3>2 DEF NewestFix
  <2>2. CASE Head(telqueue).kind # "NAV-PVT"
    BY <1>1, <1>2, <1>3, <1>4, <2>2 DEF NewestFix, ValuesCameFrom
  <2> QED
    BY <2>1, <2>2
<1>9. ValuesCameFrom'
  BY <1>1, <1>3, <1>7, <1>8 DEF ValuesCameFrom
<1> QED
  BY <1>1, <1>5, <1>6, <1>9 DEF InOrder

LEMMA OrderSet ==
  ASSUME TypeOK, Order, ParserSet
  PROVE  Order'
<1> USE DEF Order, TypeOK, pipe, readers, hint
<1> DEFINE v == Publishes(parser.in.kind)
<1>1. /\ parser.at = "set" /\ parser' = [parser EXCEPT !.at = "wake"]
      /\ shared' = [shared EXCEPT ![v] = parser.in.num]
      /\ fixOf' = IF parser.in.kind = "NAV-DOP" THEN lastFix ELSE fixOf
      /\ UNCHANGED <<count, telqueue, lastFix, accepted>>
  BY DEF ParserSet
<1>2. /\ Taken \in Nat \ {0} /\ parser.in = accepted[Taken] /\ parser.in.kind # "other"
      /\ Taken <= Len(accepted) /\ Taken' = Taken
  BY <1>1 DEF ParserAtLast, QueueIsRest, Taken
<1>3. QueueIsRest' /\ InOrder' /\ ParserAtLast'
  BY <1>1, <1>2 DEF QueueIsRest, InOrder, ParserAtLast
<1>4. v \in Values /\ (v = "GnssPrecisionData" <=> parser.in.kind = "NAV-DOP")
  BY <1>2 DEF Publishes, Values, Input, Kinds
<1>5. CameFrom(v, Taken)'
  BY <1>1, <1>2, <1>4 DEF CameFrom
<1>6. \A w \in Published \ {v}, i \in 1..Taken : CameFrom(w, i) => CameFrom(w, i)'
  BY <1>1, <1>2, <1>4 DEF CameFrom, Published, Values
<1>7. ASSUME NEW w \in Published, shared'[w] # 0
      PROVE  \E i \in 1..Taken : /\ CameFrom(w, i)'
                                 /\ w = "GnssPrecisionData" => NewestFix(accepted, fixOf', i)
  <2>1. CASE w = v
    BY <1>1, <1>2, <1>4, <1>5, <2>1 DEF ValuesCameFrom
  <2>2. CASE w # v
    BY <1>1, <1>2, <1>4, <1>6, <1>7, <2>2 DEF ValuesCameFrom, Published, Values
  <2> QED
    BY <2>1, <2>2
<1>8. ValuesCameFrom'
  BY <1>1, <1>2, <1>7 DEF ValuesCameFrom
<1> QED
  BY <1>3, <1>8

LEMMA OrderStep ==
  ASSUME TypeOK, Order, [Next]_vars
  PROVE  Order'
<1> USE DEF pipe, readers, hint
<1>1. ASSUME NEW kind \in Kinds, HandleUbxMsg(kind)
      PROVE  Order'
  BY <1>1, OrderHandle
<1>2. CASE Parser
  <2>1. CASE ParserSetFails \/ ParserWake
    BY <2>1, OrderKept DEF ParserSetFails, ParserWake
  <2> QED
    BY <1>2, <2>1, OrderReceive, OrderSet DEF Parser
<1>3. ASSUME NEW t \in Tasks, Reader(t)
      PROVE  Order'
  BY <1>3, OrderKept DEF Reader, WaitForBit, CopyValue
<1>4. ASSUME NEW t \in NotifyTasks, Notify(t)
      PROVE  Order'
  BY <1>4, OrderKept DEF Notify
<1>5. CASE Phone
  <2>1. \A v \in Published : shared'[v] = shared[v]
    BY <1>5 DEF Phone, DateTimeWrite, DateTimeNotStored, Published, TypeOK, Values
  <2>2. UNCHANGED pipe
    BY <1>5 DEF Phone, DateTimeWrite, DateTimeNotStored
  <2> QED
    BY <2>1, <2>2, OrderKept
<1>6. CASE DateTimeWake \/ DateTimeUpd \/ GetFix \/ LoseFix
  <2>1. UNCHANGED <<pipe, shared>>
    BY <1>6 DEF DateTimeWake, DateTimeUpd, CheckFix, SetUTC, SetUTCFails, GetFix, LoseFix
  <2> QED
    BY <2>1, OrderKept
<1>7. CASE UNCHANGED vars
  BY <1>7, OrderKept DEF vars
<1> QED
  BY <1>1, <1>2, <1>3, <1>4, <1>5, <1>6, <1>7 DEF Next

------------------------------------------------------------------------------
(* Readers and the hint.                                                   *)

\* What the parser is about to set is newer than what is there.
LEMMA SetsNewer ==
  ASSUME TypeOK, Order, parser.at = "set"
  PROVE  /\ Publishes(parser.in.kind) \in Published /\ parser.in.num \in Nat
         /\ parser.in.num > shared[Publishes(parser.in.kind)]
<1> DEFINE v == Publishes(parser.in.kind)
<1> USE DEF Order
<1>1. /\ Taken \in Nat \ {0} /\ Taken <= Len(accepted) /\ parser.in = accepted[Taken]
      /\ parser.in.kind # "other" /\ Len(accepted) \in Nat
  BY DEF ParserAtLast, QueueIsRest, TypeOK
<1>2. v \in Published /\ Published \subseteq Values
  BY DEF Publishes, Published, Values
<1>3. parser.in.num \in Nat \ {0}
  BY <1>1, LoadTypes DEF InOrder, TypeOK
<1>4. CASE shared[v] = 0
  BY <1>2, <1>3, <1>4
<1>5. CASE shared[v] # 0
  <2>1. PICK i \in 1..Taken : CameFrom(v, i)
    BY <1>2, <1>5 DEF ValuesCameFrom
  <2>2. i < Taken /\ accepted[i].kind # "other" /\ accepted[i].num = shared[v]
    BY <2>1 DEF CameFrom
  <2>3. accepted[i].num < accepted[Taken].num
    BY <1>1, <2>2 DEF InOrder
  <2> QED
    BY <1>1, <1>2, <1>3, <2>2, <2>3 DEF TypeOK
<1> QED
  BY <1>2, <1>3, <1>4, <1>5

\* A step either leaves shared and copy alone, or publishes one newer value, or
\* lets one reader take the value it waits for.
SharedStep ==
  \/ UNCHANGED <<shared, copy>>
  \/ \E v \in Values : /\ \E n \in Nat : /\ n > shared[v]
                                        /\ shared' = [shared EXCEPT ![v] = n]
                       /\ UNCHANGED copy
  \/ \E t \in Tasks : /\ copy' = [copy EXCEPT ![t] = shared[Source[t]]]
                      /\ UNCHANGED shared

LEMMA StepsOfShared ==
  ASSUME TypeOK, Order, ReadersBehind, [Next]_vars
  PROVE  SharedStep /\ (shared["GnssAuxUtcUpdateData"] <= writes)'
<1> USE DEF pipe, readers, hint, SharedStep, ReadersBehind
<1>1. shared["GnssAuxUtcUpdateData"] \in Nat /\ writes \in Nat
  BY LoadTypes DEF TypeOK, Values
<1>2. CASE Parser
  <2>1. CASE ParserSet
    <3>1. /\ parser.at = "set"
          /\ shared' = [shared EXCEPT ![Publishes(parser.in.kind)] = parser.in.num]
          /\ UNCHANGED <<copy, writes>>
      BY <2>1 DEF ParserSet
    <3>2. /\ Publishes(parser.in.kind) \in Published /\ parser.in.num \in Nat
          /\ parser.in.num > shared[Publishes(parser.in.kind)]
      BY <3>1, SetsNewer
    <3> QED
      BY <3>1, <3>2 DEF Published, Values, TypeOK
  <2>2. CASE ParserReceive \/ ParserSetFails \/ ParserWake
    BY <2>2 DEF ParserReceive, ParserSetFails, ParserWake
  <2> QED
    BY <1>2, <2>1, <2>2 DEF Parser
<1>3. ASSUME NEW t \in Tasks, Reader(t)
      PROVE  SharedStep /\ (shared["GnssAuxUtcUpdateData"] <= writes)'
  BY <1>3 DEF Reader, WaitForBit, CopyValue
<1>4. CASE Phone
  <2>1. CASE DateTimeWrite
    <3>1. /\ writes' = writes + 1 /\ UNCHANGED copy
          /\ shared' = [shared EXCEPT !["GnssAuxUtcUpdateData"] = writes + 1]
      BY <2>1 DEF DateTimeWrite
    <3>2. writes + 1 \in Nat /\ writes + 1 > shared["GnssAuxUtcUpdateData"]
      BY <1>1
    <3>3. "GnssAuxUtcUpdateData" \in Values
      BY DEF Values
    <3>4. SharedStep
      BY <3>1, <3>2, <3>3
    <3>5. shared'["GnssAuxUtcUpdateData"] = writes + 1
      BY <3>1, <3>3 DEF TypeOK
    <3>6. shared'["GnssAuxUtcUpdateData"] <= writes'
      BY <1>1, <3>1, <3>5
    <3> HIDE DEF SharedStep
    <3> QED
      BY <3>4, <3>6
  <2>2. CASE DateTimeNotStored
    BY <1>1, <2>2 DEF DateTimeNotStored
  <2> QED
    BY <1>4, <2>1, <2>2 DEF Phone
<1>5. CASE \/ \E kind \in Kinds : HandleUbxMsg(kind)
           \/ \E t \in NotifyTasks : Notify(t)
           \/ DateTimeWake \/ DateTimeUpd \/ GetFix \/ LoseFix \/ UNCHANGED vars
  BY <1>5 DEF HandleUbxMsg, Notify, DateTimeWake, DateTimeUpd, CheckFix, SetUTC, SetUTCFails,
              GetFix, LoseFix, vars
<1> QED
  BY <1>2, <1>3, <1>4, <1>5 DEF Next

LEMMA ReadersStep ==
  ASSUME TypeOK, Order, ReadersBehind, [Next]_vars
  PROVE  ReadersBehind'
<1>1. SharedStep /\ (shared["GnssAuxUtcUpdateData"] <= writes)'
  BY StepsOfShared
<1>2. ASSUME NEW v \in Values, NEW n \in Nat, n > shared[v],
             shared' = [shared EXCEPT ![v] = n], UNCHANGED copy
      PROVE  ReadersBehind'
  <2> SUFFICES ASSUME NEW t \in Tasks
               PROVE  copy[t] <= shared'[Source[t]]
    BY <1>1, <1>2 DEF ReadersBehind
  <2>1. /\ copy[t] \in Nat /\ shared[Source[t]] \in Nat /\ shared[v] \in Nat
        /\ copy[t] <= shared[Source[t]] /\ Source[t] \in Values
    BY SourceOf DEF ReadersBehind, TypeOK
  <2>2. shared'[Source[t]] = IF Source[t] = v THEN n ELSE shared[Source[t]]
    BY <1>2, <2>1 DEF TypeOK
  <2> QED
    BY <1>2, <2>1, <2>2
<1>3. ASSUME NEW t \in Tasks, copy' = [copy EXCEPT ![t] = shared[Source[t]]], UNCHANGED shared
      PROVE  ReadersBehind'
  BY <1>1, <1>3, SourceOf DEF ReadersBehind, TypeOK
<1>4. CASE UNCHANGED <<shared, copy>>
  BY <1>1, <1>4 DEF ReadersBehind
<1> QED
  BY <1>1, <1>2, <1>3, <1>4 DEF SharedStep

LEMMA LateStep ==
  ASSUME TypeOK, LateOnce, [Next]_vars
  PROVE  LateOnce'
<1> USE TaskNames DEF LateOnce, TypeOK, pipe, readers, hint
<1>1. CASE CheckFix
  BY <1>1 DEF CheckFix, DiscardHint
<1>2. CASE SetUTC
  BY <1>2 DEF SetUTC
<1>3. CASE SetUTCFails
  BY <1>3 DEF SetUTCFails
<1>4. CASE GetFix \/ LoseFix
  BY <1>4 DEF GetFix, LoseFix
<1>5. ASSUME NEW t \in Tasks, Reader(t)
      PROVE  LateOnce'
  BY <1>5 DEF Reader, WaitForBit, CopyValue
<1>6. ASSUME NEW t \in NotifyTasks, Notify(t)
      PROVE  LateOnce'
  BY <1>6 DEF Notify, NotifyTasks
<1>7. CASE (\E kind \in Kinds : HandleUbxMsg(kind)) \/ Parser \/ Phone \/ DateTimeWake
           \/ UNCHANGED vars
  <2>1. UNCHANGED <<task, fix, late>>
    BY <1>7 DEF HandleUbxMsg, Parser, ParserReceive, ParserSet, ParserSetFails, ParserWake,
                Phone, DateTimeWrite, DateTimeNotStored, DateTimeWake, vars
  <2> QED
    BY <2>1
<1> QED
  BY <1>1, <1>2, <1>3, <1>4, <1>5, <1>6, <1>7 DEF Next, DateTimeUpd

LEMMA Invariance == Spec => []IInv
<1>1. Init => IInv
  BY InitInvariant
<1>2. IInv /\ [Next]_vars => IInv'
  BY TypeStep, WakeUpStep, OrderStep, ReadersStep, LateStep DEF IInv
<1> QED
  BY <1>1, <1>2, PTL DEF Spec

------------------------------------------------------------------------------
\* No wake-up is lost, whatever the interleaving of setting a value, setting
\* the bits, clearing one and copying; the queue keeps its bound (SHVAL as used
\* by tel_parser_task, BT_DateTimeAccessCB and the tasks that wait).
THEOREM NoWakeUpIsLost == Spec => []Inv
<1>1. IInv => Inv
  BY DEF IInv, Inv
<1> QED
  BY <1>1, Invariance, PTL

\* A hint that reaches a receiver with a fix is the only one of that fix: its
\* test came before (M10_HasValidFix and M10_SetUTC of
\* gnss_date_time_upd_task).
THEOREM AtMostOneLateHint == Spec => []OneLateHint
<1>1. IInv => OneLateHint
  BY DEF IInv, LateOnce, OneLateHint
<1> QED
  BY <1>1, Invariance, PTL

LEMMA MaxIs ==
  ASSUME NEW S \in SUBSET Nat, NEW m \in S, \A n \in S : n <= m
  PROVE  m = Max(S)
<1>1. \E x \in S : \A y \in S : x >= y
  OBVIOUS
<1>2. Max(S) \in S /\ \A y \in S : Max(S) >= y
  BY <1>1 DEF Max
<1>3. Max(S) \in Nat /\ m \in Nat /\ Max(S) >= m /\ Max(S) <= m
  BY <1>2
<1> QED
  BY <1>3

LEMMA OrderGivesFix == TypeOK /\ Order => FixOfTheDop
<1> SUFFICES ASSUME TypeOK, Order, shared["GnssPrecisionData"] # 0
             PROVE  LET dop == shared["GnssPrecisionData"]
                        before == {in \in ToSet(accepted) : in.kind = "NAV-PVT" /\ in.num < dop}
                    IN  fixOf = Max({in.num : in \in before} \cup {0})
  BY DEF FixOfTheDop
<1> USE DEF Order
<1> DEFINE dop == shared["GnssPrecisionData"]
           before == {in \in ToSet(accepted) : in.kind = "NAV-PVT" /\ in.num < dop}
           S == {in.num : in \in before} \cup {0}
<1>1. PICK i \in 1..Taken : /\ CameFrom("GnssPrecisionData", i)
                            /\ NewestFix(accepted, fixOf, i)
  BY DEF ValuesCameFrom, Published
<1>2. /\ i \in 1..Len(accepted) /\ accepted[i].num = dop
      /\ accepted[i].kind # "other" /\ accepted[i].kind # "NAV-PVT" /\ Len(accepted) \in Nat
  BY <1>1 DEF CameFrom, Publishes, QueueIsRest, TypeOK
<1>3. \A in \in before : \E j \in 1..Len(accepted) :
        accepted[j] = in /\ in.kind = "NAV-PVT" /\ in.num < dop /\ in.num \in Nat
  <2> SUFFICES ASSUME NEW in \in before
               PROVE  \E j \in 1..Len(accepted) :
                        accepted[j] = in /\ in.kind = "NAV-PVT" /\ in.num < dop /\ in.num \in Nat
    OBVIOUS
  <2>1. PICK j \in 1..Len(accepted) : accepted[j] = in
    BY DEF ToSet
  <2>2. in.kind = "NAV-PVT" /\ in.num < dop
    OBVIOUS
  <2>3. accepted[j].num \in 1..count
    BY <2>1, <2>2 DEF InOrder
  <2> QED
    BY <2>1, <2>2, <2>3
<1>4. \A in \in before : \E j \in 1..i - 1 : accepted[j] = in /\ in.kind = "NAV-PVT"
  <2> SUFFICES ASSUME NEW in \in before
               PROVE  \E j \in 1..i - 1 : accepted[j] = in /\ in.kind = "NAV-PVT"
    OBVIOUS
  <2>1. PICK j \in 1..Len(accepted) :
          accepted[j] = in /\ in.kind = "NAV-PVT" /\ in.num < dop /\ in.num \in Nat
    BY <1>3
  <2>2. j < i
    <3>1. j > i => dop < in.num
      BY <1>2, <2>1 DEF InOrder
    <3>2. j # i
      BY <1>2, <2>1
    <3>3. dop \in Nat
      BY DEF TypeOK, Values
    <3> QED
      BY <1>2, <2>1, <3>1, <3>2, <3>3
  <2> QED
    BY <1>2, <2>1, <2>2
<1>5. S \in SUBSET Nat
  BY <1>3
<1>6. fixOf \in S
  <2>1. CASE fixOf = 0
    BY <2>1
  <2>2. CASE fixOf # 0
    <3>1. PICK j \in 1..i : accepted[j] = [kind |-> "NAV-PVT", num |-> fixOf]
      BY <1>1, <2>2 DEF NewestFix
    <3>2. j \in 1..Len(accepted) /\ j < i
      BY <1>2, <3>1
    <3>3. accepted[j].num < dop
      BY <1>2, <3>1, <3>2 DEF InOrder
    <3>4. accepted[j] \in before /\ accepted[j].num = fixOf
      BY <3>1, <3>2, <3>3 DEF ToSet
    <3> QED
      BY <3>4
  <2> QED
    BY <2>1, <2>2
<1>7. \A n \in S : n <= fixOf
  <2> SUFFICES ASSUME NEW in \in before
               PROVE  in.num <= fixOf
    BY LoadTypes DEF TypeOK
  <2>1. PICK j \in 1..i - 1 : accepted[j] = in /\ in.kind = "NAV-PVT"
    BY <1>4
  <2>2. fixOf # 0
    BY <1>1, <2>1 DEF NewestFix
  <2>3. PICK k \in 1..i : /\ accepted[k] = [kind |-> "NAV-PVT", num |-> fixOf]
                          /\ \A l \in k + 1..i : accepted[l].kind # "NAV-PVT"
    BY <1>1, <2>2 DEF NewestFix
  <2>4. j <= k
    BY <1>2, <2>1, <2>3
  <2>5. accepted[k].kind # "other" /\ accepted[k].num = fixOf
    BY <2>3
  <2>6. CASE j = k
    BY <1>3, <2>1, <2>5, <2>6, LoadTypes DEF TypeOK
  <2>7. CASE j < k
    <3>1. j \in 1..Len(accepted) /\ k \in 1..Len(accepted)
      BY <1>2, <2>1, <2>3
    <3>2. accepted[j].kind # "other" /\ accepted[j].num = in.num
      BY <2>1
    <3>3. accepted[j].num < accepted[k].num
      BY <2>5, <2>7, <3>1, <3>2 DEF InOrder
    <3>4. in.num \in Nat /\ fixOf \in Nat
      BY <1>3, LoadTypes DEF TypeOK
    <3> QED
      BY <2>5, <3>2, <3>3, <3>4
  <2> QED
    BY <2>4, <2>6, <2>7
<1> HIDE DEF S
<1> QED
  BY <1>5, <1>6, <1>7, MaxIs DEF S

\* The fix and the satellite count published with a NAV-DOP are those of the
\* newest NAV-PVT that got into the queue before it, for every size of the
\* queue and whatever was lost or failed (last_fix and last_vehicle_count of
\* tel_parser_task).
THEOREM FixBelongsToDop == Spec => []FixOfTheDop
<1>1. IInv => FixOfTheDop
  BY OrderGivesFix DEF IInv
<1> QED
  BY <1>1, Invariance, PTL

------------------------------------------------------------------------------
LEMMA ValuesInit == Init => LV!Init
  BY DEF Init, LV!Init

LEMMA ValuesStep ==
  ASSUME TypeOK, Order, ReadersBehind, [Next]_vars
  PROVE  [LV!Next]_(LV!lvVars)
<1> USE DEF LV!Next, LV!lvVars
<1>1. SharedStep
  BY StepsOfShared
<1>2. ASSUME NEW v \in Values, NEW n \in Nat, n > shared[v],
             shared' = [shared EXCEPT ![v] = n], UNCHANGED copy
      PROVE  LV!Publish(v)
  BY <1>2 DEF LV!Publish, TypeOK
<1>3. ASSUME NEW t \in Tasks, copy' = [copy EXCEPT ![t] = shared[Source[t]]], UNCHANGED shared
      PROVE  LV!Take(t) \/ UNCHANGED LV!lvVars
  <2>1. copy[t] <= shared[Source[t]] /\ copy[t] \in Nat /\ shared[Source[t]] \in Nat
    BY SourceOf DEF ReadersBehind, TypeOK
  <2>2. copy[t] = shared[Source[t]] => copy' = copy
    BY <1>3 DEF TypeOK
  <2> QED
    BY <1>3, <2>1, <2>2 DEF LV!Take
<1> QED
  BY <1>1, <1>2, <1>3 DEF SharedStep

\* The shared values keep the safety part of LatestValue: a value is replaced
\* by newer ones only, and no reader goes back (that each gets to see the last
\* one is liveness, and checked by TLC).
THEOREM ValuesImplement == Spec => LV!Init /\ [][LV!Next]_(LV!lvVars)
<1>1. IInv /\ [Next]_vars => [LV!Next]_(LV!lvVars)
  BY ValuesStep DEF IInv
<1> QED
  BY <1>1, ValuesInit, Invariance, PTL DEF Spec
=============================================================================
