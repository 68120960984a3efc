------------------------------- MODULE Startup -------------------------------
(***************************************************************************)
(* Boot of the firmware: app_main (main.c), the self-deleting              *)
(* configuration tasks of gnss.c and bt.c, the start of the UART task, the *)
(* status LED task and the connection events of the BLE host.  Every task  *)
(* is a process of its own.  A FATAL log restarts the chip (log-config.c), *)
(* so a failing step of one task ends all the others wherever they are.    *)
(***************************************************************************)
EXTENDS Naturals

CONSTANTS
  MaxRestarts,    \* bound: steps fail only while there were fewer restarts
  SlowReceiver    \* TRUE: M10_Init outlasts the first poll of bt_config_task

ASSUME StartupAssumption ==
  /\ MaxRestarts \in Nat
  /\ SlowReceiver \in BOOLEAN

VARIABLES
  pc,         \* where each process is
  active,     \* the tasks whose Active flag is set
  cfgNamed,   \* GnssConfigTask.Name # NULL
  uartReady,  \* the binary semaphore gUartTaskReady
  sleep,      \* is light sleep enabled?
  connected,  \* is a BLE central connected?
  early,      \* history: it connected before bt_config_task reported
  ledQueue,   \* gStateQueue, of length 1
  led,        \* what the WS2812 shows; it keeps it through a restart
  restarts    \* restarts so far

bootVars == <<active, cfgNamed, uartReady, sleep, connected, early>>
ledVars == <<ledQueue, led>>
vars == <<pc, bootVars, ledVars, restarts>>

Steps == [main : {"init", "telparser", "gnss", "bt", "poll", "done", "fatal"},
          cfg  : {"off", "uart_init", "wait_uart", "m10_init", "set_baud",
                  "remove", "gone", "fatal"},
          uart : {"off", "alloc", "loop", "fatal"},
          bt   : {"off", "wait", "configure", "report", "gone", "fatal"}]

Tasks == {"TelemetryParser", "GnssUart", "Ble", "StatusLed"}
LedState == {"ERROR_GNSS_CFG", "ERROR_BT_CFG", "READY_TO_CONNECT", "CONNECTED"}

TypeOK ==
  /\ pc \in Steps
  /\ active \subseteq Tasks
  /\ {cfgNamed, uartReady, sleep, connected, early} \subseteq BOOLEAN
  /\ ledQueue \in LedState \cup {"none"}
  /\ led \in LedState \cup {"dark"}
  /\ restarts \in 0..MaxRestarts

\* Where the processes are after a reset.
AtReset == [main |-> "init", cfg |-> "off", uart |-> "off", bt |-> "off"]

Init ==
  /\ pc = AtReset
  /\ active = {}
  /\ cfgNamed = FALSE /\ uartReady = FALSE /\ sleep = FALSE
  /\ connected = FALSE /\ early = FALSE
  /\ ledQueue = "none"
  /\ led = "dark"
  /\ restarts = 0

\* Bound: a step may fail only then.
MayFail == restarts < MaxRestarts

Goto(p, from, to) == pc[p] = from /\ pc' = [pc EXCEPT ![p] = to]

\* A failing step logs a FATAL after setting the colour of the error.
Fail(p, from) == MayFail /\ Goto(p, from, "fatal")

\* on_log and on_fatal: the FATAL restarts the chip.
Restart ==
  /\ \E p \in DOMAIN pc : pc[p] = "fatal"
  /\ pc' = AtReset
  /\ active' = {}
  /\ cfgNamed' = FALSE /\ uartReady' = FALSE /\ sleep' = FALSE
  /\ connected' = FALSE /\ early' = FALSE
  /\ ledQueue' = "none"
  /\ restarts' = restarts + 1
  /\ UNCHANGED led

------------------------------------------------------------------------------
(***************************************************************************)
(* app_main                                                                *)
(***************************************************************************)

\* Logger, power, file system, LED strip and LED task.
MainInit ==
  /\ Goto("main", "init", "telparser")
  /\ active' = {"StatusLed"}
  /\ led' = "dark"
  /\ UNCHANGED <<cfgNamed, uartReady, sleep, connected, early, ledQueue, restarts>>

MainInitFails ==
  /\ Fail("main", "init")
  /\ UNCHANGED <<bootVars, ledVars, restarts>>

MainTelParser ==
  /\ Goto("main", "telparser", "gnss")
  /\ active' = active \cup {"TelemetryParser"}
  /\ UNCHANGED <<cfgNamed, uartReady, sleep, connected, early, ledVars, restarts>>

\* GNSS_Init: the descriptor is filled in, then the task is created.
MainGnss ==
  /\ pc.main = "gnss"
  /\ pc' = [pc EXCEPT !.main = "bt", !.cfg = "uart_init"]
  /\ cfgNamed' = TRUE
  /\ UNCHANGED <<active, uartReady, sleep, connected, early, ledVars, restarts>>

MainBt ==
  /\ pc.main = "bt"
  /\ pc' = [pc EXCEPT !.main = "poll", !.bt = "wait"]
  /\ UNCHANGED <<bootVars, ledVars, restarts>>

\* Mutant of PolledTasks: the BLE task is not waited for.
PolledTasksNoBle == {"GnssUart", "TelemetryParser"}

PolledTasks == {"GnssUart", "TelemetryParser", "Ble"}

MainPolled ==
  /\ Goto("main", "poll", "done")
  /\ PolledTasks \subseteq active
  /\ sleep' = TRUE
  /\ UNCHANGED <<active, cfgNamed, uartReady, connected, early, ledVars, restarts>>

------------------------------------------------------------------------------
(***************************************************************************)
(* gnss_config_task, and gnss_uart_task up to its event loop               *)
(***************************************************************************)

CfgFails ==
  /\ \E s \in {"uart_init", "wait_uart", "m10_init", "set_baud"} : Fail("cfg", s)
  /\ ledQueue' = "ERROR_GNSS_CFG"
  /\ UNCHANGED <<bootVars, led, restarts>>

\* M10_InitUART succeeded; the UART task is created.
CfgUartInit ==
  /\ pc.cfg = "uart_init"
  /\ pc' = [pc EXCEPT !.cfg = "wait_uart", !.uart = "alloc"]
  /\ active' = active \cup {"GnssUart"}
  /\ UNCHANGED <<cfgNamed, uartReady, sleep, connected, early, ledVars, restarts>>

\* Mutant of UartAlloc: the semaphore is not given.
UartAllocSilent ==
  /\ Goto("uart", "alloc", "loop")
  /\ UNCHANGED <<bootVars, ledVars, restarts>>

\* malloc, then the semaphore.
UartAlloc ==
  /\ Goto("uart", "alloc", "loop")
  /\ uartReady' = TRUE
  /\ UNCHANGED <<active, cfgNamed, sleep, connected, early, ledVars, restarts>>

UartAllocFails ==
  /\ Fail("uart", "alloc")
  /\ UNCHANGED <<bootVars, ledVars, restarts>>

\* Mutant of CfgUartReady: the result of xSemaphoreTake is ignored.
CfgUartReadyUnchecked ==
  /\ Goto("cfg", "wait_uart", "m10_init")
  /\ uartReady' = FALSE
  /\ UNCHANGED <<active, cfgNamed, sleep, connected, early, ledVars, restarts>>

CfgUartReady ==
  /\ Goto("cfg", "wait_uart", "m10_init")
  /\ uartReady
  /\ uartReady' = FALSE
  /\ UNCHANGED <<active, cfgNamed, sleep, connected, early, ledVars, restarts>>

CfgM10Init ==
  /\ Goto("cfg", "m10_init", "set_baud")
  /\ SlowReceiver => pc.bt \notin {"off", "wait"}
  /\ UNCHANGED <<bootVars, ledVars, restarts>>

\* M10_SetBaudRate; the check-fix timer is started.
CfgSetBaud ==
  /\ Goto("cfg", "set_baud", "remove")
  /\ UNCHANGED <<bootVars, ledVars, restarts>>

\* SCHEDULER_Remove clears the descriptor.
CfgRemove ==
  /\ Goto("cfg", "remove", "gone")
  /\ cfgNamed' = FALSE
  /\ UNCHANGED <<active, uartReady, sleep, connected, early, ledVars, restarts>>

------------------------------------------------------------------------------
(***************************************************************************)
(* bt_config_task, the BLE host and the status LED                         *)
(***************************************************************************)

BtWaitOver ==
  /\ Goto("bt", "wait", "configure")
  /\ "TelemetryParser" \in active
  /\ cfgNamed
  /\ UNCHANGED <<bootVars, ledVars, restarts>>

\* BT_Configure, BT_InitNotifications, BLE_Init.
BtInit ==
  /\ Goto("bt", "configure", "report")
  /\ active' = active \cup {"Ble"}
  /\ UNCHANGED <<cfgNamed, uartReady, sleep, connected, early, ledVars, restarts>>

BtInitFails ==
  /\ Fail("bt", "configure")
  /\ ledQueue' = "ERROR_BT_CFG"
  /\ UNCHANGED <<bootVars, led, restarts>>

BtReport ==
  /\ Goto("bt", "report", "gone")
  /\ ledQueue' = "READY_TO_CONNECT"
  /\ UNCHANGED <<bootVars, led, restarts>>

\* Mutant of Connect: xQueueSend without a wait instead of xQueueOverwrite.
ConnectIfRoom ==
  /\ "Ble" \in active
  /\ ~connected
  /\ connected' = TRUE
  /\ early' = (pc.bt # "gone")
  /\ ledQueue' = IF ledQueue = "none" THEN "CONNECTED" ELSE ledQueue
  /\ UNCHANGED <<pc, active, cfgNamed, uartReady, sleep, led, restarts>>

\* on_gap_event, in the host task: it runs as soon as BLE_Init has started it.
Connect ==
  /\ "Ble" \in active
  /\ ~connected
  /\ connected' = TRUE
  /\ early' = (pc.bt # "gone")
  /\ ledQueue' = "CONNECTED"
  /\ UNCHANGED <<pc, active, cfgNamed, uartReady, sleep, led, restarts>>

\* The only connection is gone (MaxConnections is 1).
Disconnect ==
  /\ connected
  /\ connected' = FALSE
  /\ early' = FALSE
  /\ ledQueue' = "READY_TO_CONNECT"
  /\ UNCHANGED <<pc, active, cfgNamed, uartReady, sleep, led, restarts>>

\* status_led_task has priority 1 on core 0, gnss_config_task priority 4 on
\* the same core: between STATUSLED_SetState and the restart of the FATAL that
\* follows it the LED task does not run.
LedTask ==
  /\ "StatusLed" \in active
  /\ pc.cfg # "fatal"
  /\ ledQueue # "none"
  /\ ledQueue' = "none"
  /\ led' = ledQueue
  /\ UNCHANGED <<pc, bootVars, restarts>>

------------------------------------------------------------------------------
Main == MainInit \/ MainInitFails \/ MainTelParser \/ MainGnss \/ MainBt \/ MainPolled

Cfg == CfgFails \/ CfgUartInit \/ CfgUartReady \/ CfgM10Init \/ CfgSetBaud \/ CfgRemove

Uart == UartAlloc \/ UartAllocFails

Bt == BtWaitOver \/ BtInit \/ BtInitFails \/ BtReport

Next == Main \/ Cfg \/ Uart \/ Bt \/ Restart \/ LedTask \/ Connect \/ Disconnect

Spec == Init /\ [][Next]_vars

(***************************************************************************)
(* Every task is preemptively scheduled and polls or blocks with a         *)
(* timeout, so each gets on while it can; centrals come and go as they     *)
(* like.                                                                   *)
(***************************************************************************)
FairSpec ==
  Spec /\ WF_vars(Main) /\ WF_vars(Cfg) /\ WF_vars(Uart) /\ WF_vars(Bt)
       /\ WF_vars(Restart) /\ WF_vars(LedTask)

------------------------------------------------------------------------------
(***************************************************************************)
(* Properties.                                                             *)
(***************************************************************************)

\* The receiver is talked to only when the UART task is there to take its
\* answers (the semaphore between gnss_config_task and gnss_uart_task, with
\* all the ways either may fail).
AnswersAreRead ==
  pc.cfg \in {"m10_init", "set_baud", "remove", "gone"} => pc.uart = "loop"

\* Light sleep is enabled only after every pipeline stage was started, in
\* this boot: no restart leaves it on (the polling loop of app_main).
SleepNeedsTasks ==
  sleep => pc.uart # "off" /\ pc.bt \in {"report", "gone"}

\* Three tasks overwrite the one slot of gStateQueue (bt.c:92, on_gap_event,
\* gnss_config_task).  Once status_led_task has taken what is in it, the LED is
\* green exactly while a central is connected, with one exception: a central that
\* connected before bt_config_task reported loses its colour to that report, and
\* the LED stays wrong until that central disconnects, and no longer.
LedTellsConnection ==
  "Ble" \in active /\ pc.cfg # "fatal" /\ ledQueue = "none" =>
    (led = "CONNECTED" <=> connected /\ (early => pc.bt = "report"))

\* Once failures stop, the firmware gets to its final state and stays there:
\* receiver configured, BLE up, light sleep enabled.
Boots == <>[](pc.cfg = "gone" /\ pc.bt = "gone" /\ sleep)

\* "The Name == NULL transition doubles as a completion signal that dependent
\* tasks poll before starting" (README.md:97; the comment of bt.c:34): BLE is
\* configured after the receiver.
BleAfterGnss == pc.bt \in {"configure", "report", "gone"} => pc.cfg = "gone"

\* The LED reports a GNSS error (README.md:38): its colour is on when the
\* restart that follows the error comes.
GnssErrorShown ==
  [][pc.cfg = "fatal" /\ restarts' # restarts => led = "ERROR_GNSS_CFG"]_vars
=============================================================================
