---------------------------- MODULE StartupProofs ----------------------------
(***************************************************************************)
(* What of the boot is proved for every number of restarts and a slow or   *)
(* a fast receiver.                                                        *)
(***************************************************************************)
EXTENDS Startup, TLAPS

\* app_main starts the tasks in order: until it has, they are off.
MainFirst ==
  /\ pc.main \in {"init", "telparser", "gnss", "fatal"} => pc.cfg = "off"
  /\ pc.main \in {"init", "telparser", "gnss", "bt", "fatal"} => pc.bt = "off"

\* gnss_config_task creates gnss_uart_task, which gives the semaphore last.
CfgFirst ==
  /\ pc.cfg \in {"off", "uart_init"} => pc.uart = "off"
  /\ uartReady => pc.uart = "loop"

\* A task's Active flag tells that it was started.
FlagsTell ==
  /\ "GnssUart" \in active => pc.uart # "off"
  /\ "Ble" \in active => pc.bt \in {"report", "gone"}

\* A step fails, and so ends in a restart, only while there were fewer
\* restarts than MaxRestarts.
FatalCounted == (\E p \in DOMAIN pc : pc[p] = "fatal") => restarts < MaxRestarts

BootInv == /\ TypeOK
           /\ FatalCounted
           /\ MainFirst
           /\ CfgFirst
           /\ FlagsTell
           /\ AnswersAreRead
           /\ SleepNeedsTasks

------------------------------------------------------------------------------
LEMMA InitBoot == Init => BootInv
<1> SUFFICES ASSUME Init PROVE BootInv
  OBVIOUS
<1> USE DEF Init, AtReset
<1>1. pc \in Steps
  BY DEF Steps
<1>2. {cfgNamed, uartReady, sleep, connected, early} \subseteq BOOLEAN
  OBVIOUS
<1>3. TypeOK
  BY <1>1, <1>2, StartupAssumption DEF TypeOK, Tasks, LedState
<1>4. FatalCounted
  BY DEF FatalCounted
<1> QED
  BY <1>3, <1>4 DEF BootInv, MainFirst, CfgFirst, FlagsTell, AnswersAreRead, SleepNeedsTasks

\* One step per action.  Each is small enough to be proved for the whole
\* invariant at once.
LEMMA NextBoot == BootInv /\ [Next]_vars => BootInv'
<1> SUFFICES ASSUME BootInv, [Next]_vars PROVE BootInv'
  OBVIOUS
<1> USE StartupAssumption DEF Goto, Fail, MayFail, bootVars, ledVars
<1>1. TypeOK'
  <2> USE DEF BootInv, TypeOK, Steps, Tasks, LedState
  <2>1. CASE Main
    BY <2>1 DEF Main, MainInit, MainInitFails, MainTelParser, MainGnss, MainBt, MainPolled
  <2>2. CASE Cfg
    BY <2>2 DEF Cfg, CfgFails, CfgUartInit, CfgUartReady, CfgM10Init, CfgSetBaud, CfgRemove
  <2>3. CASE Uart
    BY <2>3 DEF Uart, UartAlloc, UartAllocFails
  <2>4. CASE Bt
    BY <2>4 DEF Bt, BtWaitOver, BtInit, BtInitFails, BtReport
  <2>5. CASE Restart
    <3>1. pc' \in Steps
      BY <2>5 DEF Restart, AtReset
    <3>2. restarts' \in 0..MaxRestarts
      BY <2>5 DEF Restart, FatalCounted
    <3>3. active' = {} /\ ledQueue' = "none" /\ led' = led
      BY <2>5 DEF Restart
    <3>4. {cfgNamed', uartReady', sleep', connected', early'} \subseteq BOOLEAN
      BY <2>5 DEF Restart
    <3> QED
      BY <3>1, <3>2, <3>3, <3>4
  <2>6. CASE LedTask \/ Connect \/ Disconnect
    BY <2>6 DEF LedTask, Connect, Disconnect
  <2>7. CASE UNCHANGED vars
    BY <2>7 DEF vars
  <2> QED
    BY <2>1, <2>2, <2>3, <2>4, <2>5, <2>6, <2>7 DEF Next
<1>2. (FatalCounted /\ MainFirst /\ CfgFirst /\ FlagsTell /\ AnswersAreRead /\ SleepNeedsTasks)'
  <2> USE DEF BootInv, TypeOK, Steps, Tasks, FatalCounted, MainFirst, CfgFirst, FlagsTell,
              AnswersAreRead, SleepNeedsTasks
  <2>1. CASE MainInit
    BY <2>1 DEF MainInit
  <2>2. CASE MainInitFails
    BY <2>2 DEF MainInitFails
  <2>3. CASE MainTelParser
    BY <2>3 DEF MainTelParser
  <2>4. CASE MainGnss
    BY <2>4 DEF MainGnss
  <2>5. CASE MainBt
    BY <2>5 DEF MainBt
  <2>6. CASE MainPolled
    BY <2>6 DEF MainPolled, PolledTasks
  <2>7. CASE CfgFails
    BY <2>7 DEF CfgFails
  <2>8. CASE CfgUartInit
    BY <2>8 DEF CfgUartInit
  <2>9. CASE CfgUartReady
    BY <2>9 DEF CfgUartReady
  <2>10. CASE CfgM10Init \/ CfgSetBaud \/ CfgRemove
    BY <2>10 DEF CfgM10Init, CfgSetBaud, CfgRemove
  <2>11. CASE UartAlloc
    BY <2>11 DEF UartAlloc
  <2>12. CASE UartAllocFails
    BY <2>12 DEF UartAllocFails
  <2>13. CASE BtWaitOver \/ BtReport
    BY <2>13 DEF BtWaitOver, BtReport
  <2>14. CASE BtInit
    BY <2>14 DEF BtInit
  <2>15. CASE BtInitFails
    BY <2>15 DEF BtInitFails
  <2>16. CASE Restart
    BY <2>16 DEF Restart, AtReset
  <2>17. CASE LedTask \/ Connect \/ Disconnect
    BY <2>17 DEF LedTask, Connect, Disconnect
  <2>18. CASE UNCHANGED vars
    BY <2>18 DEF vars
  <2> QED
    BY <2>1, <2>2, <2>3, <2>4, <2>5, <2>6, <2>7, <2>8, <2>9, <2>10, <2>11, <2>12, <2>13,
       <2>14, <2>15, <2>16, <2>17, <2>18 DEF Next, Main, Cfg, Uart, Bt
<1> QED
  BY <1>1, <1>2 DEF BootInv

LEMMA BootInvariant == Spec => []BootInv
  BY InitBoot, NextBoot, PTL DEF Spec

------------------------------------------------------------------------------
\* Every variable keeps its type; the number of restarts keeps its bound, which
\* rests on every FATAL having been counted against it (on_log, on_fatal).
THEOREM BootTypeCorrect == Spec => []TypeOK
<1>1. BootInv => TypeOK
  BY DEF BootInv
<1> QED
  BY BootInvariant, <1>1, PTL

\* The receiver is configured only with the UART task in its event loop, in
\* every interleaving of boots, failures and restarts (gUartTaskReady).
THEOREM ReceiverIsHeard == Spec => []AnswersAreRead
<1>1. BootInv => AnswersAreRead
  BY DEF BootInv
<1> QED
  BY BootInvariant, <1>1, PTL

\* Light sleep is on only when this boot has started the UART task and BLE
\* (the polling loop of app_main).
THEOREM SleepIsHeldOff == Spec => []SleepNeedsTasks
<1>1. BootInv => SleepNeedsTasks
  BY DEF BootInv
<1> QED
  BY BootInvariant, <1>1, PTL
------------------------------------------------------------------------------
\* What the LED is to show next: the one slot of the queue, or what it shows.
NextColour == IF ledQueue = "none" THEN led ELSE ledQueue

\* From BLE_Init on that colour tells the connection, an early one excepted that
\* the report of bt_config_task came after.  Until then nobody is connected, and
\* the colour left by an earlier boot is cleared before any task is started.  A
\* failed configuration of the receiver sends a colour of its own.  The queue is
\* empty when app_main creates the task that reads it.
LedFollows ==
  /\ connected => "Ble" \in active
  /\ connected /\ pc.bt = "report" => early
  /\ pc.main = "init" => ledQueue = "none"
  /\ pc.main \notin {"init", "fatal"} /\ "Ble" \notin active => NextColour # "CONNECTED"
  /\ "Ble" \in active /\ pc.cfg # "fatal" =>
       (NextColour = "CONNECTED" <=> connected /\ (early => pc.bt = "report"))

LEMMA LedFollowsStep ==
  ASSUME BootInv, LedFollows, [Next]_vars
  PROVE  LedFollows'
<1> USE DEF Goto, Fail, bootVars, ledVars
<1>1. pc \in Steps /\ ledQueue \in LedState \cup {"none"}
  BY DEF BootInv, TypeOK
<1>2. "Ble" \in active => pc.bt \in {"report", "gone"}
  BY DEF BootInv, FlagsTell
<1>3. ASSUME UNCHANGED <<connected, early, ledQueue, led>>,
             "Ble" \in active' <=> "Ble" \in active,
             pc'.bt = pc.bt \/ "Ble" \notin active, pc'.main = "init" => pc.main = "init",
             pc'.main \notin {"init", "fatal"} => pc.main \notin {"init", "fatal"},
             pc'.cfg # "fatal" => pc.cfg # "fatal"
      PROVE  LedFollows'
  BY <1>3 DEF LedFollows, NextColour
<1>4. CASE Main
  <2>1. CASE MainInit
    <3>1. led' = "dark" /\ UNCHANGED <<connected, ledQueue>> /\ "Ble" \notin active'
      BY <2>1 DEF MainInit
    <3>2. pc.main = "init" /\ pc'.main = "telparser"
      BY <1>1, <2>1 DEF MainInit, Steps
    <3>3. pc.bt = "off"
      BY <3>2 DEF BootInv, MainFirst
    <3>4. "Ble" \notin active /\ ~connected
      BY <1>2, <3>3 DEF LedFollows
    <3>5. ledQueue # "CONNECTED"
      BY <3>2 DEF LedFollows
    <3> QED BY <3>1, <3>2, <3>4, <3>5 DEF LedFollows, NextColour
  <2>2. CASE MainInitFails \/ MainTelParser \/ MainGnss \/ MainBt \/ MainPolled
    <3>1. UNCHANGED <<connected, early, ledQueue, led>>
      BY <2>2 DEF MainInitFails, MainTelParser, MainGnss, MainBt, MainPolled
    <3>2. "Ble" \in active' <=> "Ble" \in active
      BY <2>2 DEF MainInitFails, MainTelParser, MainGnss, MainBt, MainPolled
    <3>3. pc'.bt = pc.bt \/ "Ble" \notin active
      <4>1. CASE MainBt
        BY <1>2, <4>1 DEF MainBt, BootInv, MainFirst
      <4>2. CASE MainInitFails \/ MainTelParser \/ MainGnss \/ MainPolled
        BY <1>1, <4>2 DEF MainInitFails, MainTelParser, MainGnss, MainPolled, Steps
      <4> QED BY <2>2, <4>1, <4>2
    <3>4. /\ pc'.main \notin {"init", "fatal"} => pc.main \notin {"init", "fatal"}
          /\ pc'.main = "init" => pc.main = "init"
      BY <1>1, <2>2
         DEF MainInitFails, MainTelParser, MainGnss, MainBt, MainPolled, Steps
    <3>5. pc'.cfg # "fatal" => pc.cfg # "fatal"
      <4>1. CASE MainGnss
        BY <4>1 DEF MainGnss, BootInv, MainFirst
      <4>2. CASE MainInitFails \/ MainTelParser \/ MainBt \/ MainPolled
        BY <1>1, <4>2 DEF MainInitFails, MainTelParser, MainBt, MainPolled, Steps
      <4> QED BY <2>2, <4>1, <4>2
    <3> QED BY <1>3, <3>1, <3>2, <3>3, <3>4, <3>5
  <2> QED BY <1>4, <2>1, <2>2 DEF Main
<1>5. CASE Cfg \/ Uart
  <2>1. CASE CfgFails
    <3>1. ledQueue' = "ERROR_GNSS_CFG" /\ UNCHANGED <<active, connected, early>>
      BY <2>1 DEF CfgFails
    <3>2. pc'.cfg = "fatal" /\ pc'.bt = pc.bt /\ pc'.main = pc.main
      BY <1>1, <2>1 DEF CfgFails, Steps
    <3>3. pc.main # "init"
      BY <2>1 DEF CfgFails, BootInv, MainFirst
    <3> QED BY <3>1, <3>2, <3>3 DEF LedFollows, NextColour
  <2>2. CASE CfgUartInit \/ CfgUartReady \/ CfgM10Init \/ CfgSetBaud \/ CfgRemove \/ Uart
    <3>1. UNCHANGED <<connected, early, ledQueue, led>>
      BY <2>2 DEF CfgUartInit, CfgUartReady, CfgM10Init, CfgSetBaud, CfgRemove, Uart,
                  UartAlloc, UartAllocFails
    <3>2. "Ble" \in active' <=> "Ble" \in active
      BY <2>2 DEF CfgUartInit, CfgUartReady, CfgM10Init, CfgSetBaud, CfgRemove, Uart,
                  UartAlloc, UartAllocFails
    <3>3. pc'.bt = pc.bt /\ pc'.main = pc.main
      BY <1>1, <2>2 DEF CfgUartInit, CfgUartReady, CfgM10Init, CfgSetBaud, CfgRemove, Uart,
                        UartAlloc, UartAllocFails, Steps
    <3>4. pc'.cfg # "fatal" => pc.cfg # "fatal"
      BY <1>1, <2>2 DEF CfgUartInit, CfgUartReady, CfgM10Init, CfgSetBaud, CfgRemove, Uart,
                        UartAlloc, UartAllocFails, Steps
    <3> QED BY <1>3, <3>1, <3>2, <3>3, <3>4
  <2> QED BY <1>5, <2>1, <2>2 DEF Cfg
<1>6. CASE Bt
  <2>1. CASE BtWaitOver
    <3>1. UNCHANGED <<active, connected, early, ledQueue, led>>
      BY <2>1 DEF BtWaitOver
    <3>2. "Ble" \notin active /\ pc'.main = pc.main /\ pc'.cfg = pc.cfg
      BY <1>1, <1>2, <2>1 DEF BtWaitOver, Steps
    <3> QED BY <1>3, <3>1, <3>2
  <2>2. CASE BtInit
    <3>1. pc.bt = "configure" /\ pc'.bt = "report" /\ pc'.main = pc.main
      BY <1>1, <2>2 DEF BtInit, Steps
    <3>2. "Ble" \notin active /\ ~connected
      BY <1>2, <3>1 DEF LedFollows
    <3>3. NextColour # "CONNECTED" /\ pc.main # "init"
      BY <3>1, <3>2 DEF LedFollows, BootInv, MainFirst
    <3>4. UNCHANGED <<connected, ledQueue, led>> /\ "Ble" \in active'
      BY <2>2 DEF BtInit
    <3> QED BY <3>1, <3>2, <3>3, <3>4 DEF LedFollows, NextColour
  <2>3. CASE BtInitFails
    <3>1. ledQueue' = "ERROR_BT_CFG" /\ UNCHANGED <<active, connected, early>>
      BY <2>3 DEF BtInitFails
    <3>2. "Ble" \notin active /\ pc.main # "init" /\ pc'.main = pc.main
      BY <1>1, <1>2, <2>3 DEF BtInitFails, BootInv, MainFirst, Steps
    <3> QED BY <3>1, <3>2 DEF LedFollows, NextColour
  <2>4. CASE BtReport
    <3>1. ledQueue' = "READY_TO_CONNECT" /\ UNCHANGED <<active, connected, early>>
      BY <2>4 DEF BtReport
    <3>2. pc.bt = "report" /\ pc'.bt = "gone" /\ pc'.main = pc.main
      BY <1>1, <2>4 DEF BtReport, Steps
    <3>3. (connected => early) /\ pc.main # "init"
      BY <3>2 DEF LedFollows, BootInv, MainFirst
    <3> QED BY <3>1, <3>2, <3>3 DEF LedFollows, NextColour
  <2> QED BY <1>6, <2>1, <2>2, <2>3, <2>4 DEF Bt
<1>7. CASE Restart
  BY <1>7 DEF Restart, AtReset, LedFollows, NextColour
<1>8. CASE LedTask
  <2>1. ledQueue' = "none" /\ led' = ledQueue /\ ledQueue # "none"
    BY <1>8 DEF LedTask
  <2>2. UNCHANGED <<pc, active, connected, early>>
    BY <1>8 DEF LedTask
  <2> QED BY <2>1, <2>2 DEF LedFollows, NextColour
<1>9. CASE Connect \/ Disconnect
  <2>1. "Ble" \in active /\ pc.main # "init" /\ UNCHANGED <<pc, active>>
    BY <1>2, <1>9 DEF Connect, Disconnect, LedFollows, BootInv, MainFirst
  <2>2. CASE Connect
    BY <1>2, <2>1, <2>2 DEF Connect, LedFollows, NextColour
  <2>3. CASE Disconnect
    BY <2>1, <2>3 DEF Disconnect, LedFollows, NextColour
  <2> QED BY <1>9, <2>2, <2>3
<1>10. CASE UNCHANGED vars
  BY <1>3, <1>10 DEF vars
<1> QED
  BY <1>4, <1>5, <1>6, <1>7, <1>8, <1>9, <1>10 DEF Next

\* At rest the LED is green exactly while a central is connected, through every
\* number of connections, failures and restarts and wherever bt_config_task is
\* when a central connects; the exception is stated in LedTellsConnection
\* (STATUSLED_SetState, on_gap_event).
THEOREM LedIsTrue == Spec => []LedTellsConnection
<1>1. Init => LedFollows
  BY DEF Init, AtReset, LedFollows
<1>2. BootInv /\ LedFollows /\ [Next]_vars => LedFollows'
  BY LedFollowsStep
<1>3. LedFollows => LedTellsConnection
  BY DEF LedFollows, LedTellsConnection, NextColour
<1> QED
  BY <1>1, <1>2, <1>3, BootInvariant, PTL DEF Spec
=============================================================================
