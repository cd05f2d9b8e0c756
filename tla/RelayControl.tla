---------------------------- MODULE RelayControl ----------------------------
(***************************************************************************)
(* The relay mask, its delayed save to flash and its two output pins, as   *)
(* four FreeRTOS tasks share them:                                         *)
(*                                                                         *)
(*   key    (priority 14)           toggles the mask, arms the save timer; *)
(*   relay  (16, capped to 14)      drives the pins, saves at the deadline;*)
(*   clock  (13)                    counts the save timer down;            *)
(*   parse  (3)                     stores the mask a command carries.     *)
(*                                                                         *)
(* The tasks share EepromParameter_st.RelaySwitchMask, SysTimerMs and the  *)
(* REFRESH_RELAY_IO bit without a lock.  A step of a task is one access to *)
(* shared memory.  The scheduler is preemptive: a task steps only when no  *)
(* task of a higher priority is ready; key and relay have the same         *)
(* priority and are time-sliced, so their steps interleave freely.         *)
(***************************************************************************)
EXTENDS Integers

CONSTANTS
    Commands,      \* the RelaySwitchMask values a command may carry
    SaveDelay,     \* ticks from the last change to the save (200)
    RestartDelay,  \* ticks from a long press to esp_restart (250)
    NoBlob         \* what flash holds before the first save

ASSUME CommandsAssumption == Commands \subseteq Nat
ASSUME DelaysAssumption   == /\ SaveDelay \in 2..65535
                             /\ RestartDelay \in Nat /\ RestartDelay >= 1
ASSUME NoBlobAssumption   == NoBlob \notin Nat

VARIABLES
    mask,      \* EepromParameter_st.RelaySwitchMask
    saveTimer, \* SysTimerMs[SaveTimer]
    refresh,   \* REFRESH_RELAY_IO_BIT of system_event_group
    lastMask,  \* lastRelaySwitchMask, a uint8_t
    gpio,      \* the levels of the two relay pins
    temp,      \* TempEepromParameter_st
    nvs,       \* the blob "EepromParameter" in flash
    key,       \* where each task is
    relay,
    clock,
    parse,
    kreg,      \* the mask toggle_relay has read (0 when it holds none)
    held,      \* the key press being handled is a long one too
    kdelay,    \* ticks left of the delay before esp_restart
    creg,      \* the timer value clock_task has read (0 when it holds none)
    lost,      \* history: a flash call failed, or the boot dropped a change,
               \* and no save has succeeded since
    undone     \* history: a command put back the latched mask before a scan

ram  == <<mask, saveTimer, refresh, lastMask, temp>>
regs == <<kreg, held, kdelay, creg>>
pcs  == <<key, relay, clock, parse>>
vars == <<ram, gpio, nvs, pcs, regs, lost, undone>>

-----------------------------------------------------------------------------
(* Tasks and their scheduling.                                             *)

Tasks == {"key", "relay", "clock", "parse"}
\* Mutant: relay_task created below clock_task.
prioRelayBelowClock == [key |-> 14, relay |-> 12, clock |-> 13, parse |-> 3]
prio  == [key |-> 14, relay |-> 14, clock |-> 13, parse |-> 3]

KeyLabels   == {"boot", "scan", "toggle", "store", "flag", "post", "network",
                "arm", "sleep", "delay", "restart"}
RelayLabels == {"driver", "load", "latch", "check", "clear", "copy", "write",
                "consume", "out1", "out2", "sleep"}
ClockLabels == {"init", "test", "load", "store", "sleep"}
ParseLabels == {"queue", "store", "arm"}

Ready == [key   |-> key \notin {"sleep", "delay", "network"},
          relay |-> relay # "sleep",
          clock |-> clock # "sleep",
          parse |-> parse # "queue"]

CanRun(t) == Ready[t] /\ \A u \in Tasks : prio[u] > prio[t] => ~Ready[u]

KeyAt(l)   == key = l   /\ CanRun("key")
RelayAt(l) == relay = l /\ CanRun("relay")
ClockAt(l) == clock = l /\ CanRun("clock")
ParseAt(l) == parse = l /\ CanRun("parse")

KeyGoto(l)   == key' = l   /\ UNCHANGED <<relay, clock, parse>>
RelayGoto(l) == relay' = l /\ UNCHANGED <<key, clock, parse>>
ClockGoto(l) == clock' = l /\ UNCHANGED <<key, relay, parse>>
ParseGoto(l) == parse' = l /\ UNCHANGED <<key, relay, clock>>

-----------------------------------------------------------------------------
(* Masks: RELAY1_BIT and RELAY2_BIT are the two low bits.                  *)

Pins      == {1, 2}
Bit(m, i) == IF i = 1 THEN m % 2 ELSE (m \div 2) % 2
Toggled(m) == IF m % 4 # 0 THEN m - (m % 4) ELSE m + 3
\* Mutant: the latched mask is 32 bits wide.
Uint32(m) == m
Uint8(m)  == m % 256

-----------------------------------------------------------------------------
(* What is true when the program starts: .bss is zero, the tasks have been *)
(* created and none has run; flash keeps what it had.                      *)

AllLow == [i \in Pins |-> 0]

Init ==
    /\ mask = 0 /\ saveTimer = 0 /\ refresh = FALSE /\ lastMask = 0 /\ temp = 0
    /\ gpio = AllLow /\ nvs = NoBlob
    /\ key = "boot" /\ relay = "driver" /\ clock = "init" /\ parse = "queue"
    /\ kreg = 0 /\ held = FALSE /\ kdelay = 0 /\ creg = 0
    /\ lost = FALSE /\ undone = FALSE

(* A reset, whatever its cause: everything but the flash starts again.     *)
Reset ==
    /\ mask' = 0 /\ saveTimer' = 0 /\ refresh' = FALSE /\ lastMask' = 0 /\ temp' = 0
    /\ gpio' = AllLow /\ nvs' = nvs
    /\ key' = "boot" /\ relay' = "driver" /\ clock' = "init" /\ parse' = "queue"
    /\ kreg' = 0 /\ held' = FALSE /\ kdelay' = 0 /\ creg' = 0
    /\ lost' = FALSE /\ undone' = FALSE

PowerLoss == Reset

-----------------------------------------------------------------------------
(* The tick interrupt: every delay of one tick ends, the restart delay     *)
(* loses a tick.                                                           *)

Tick ==
    /\ \/ key \in {"sleep", "delay"} \/ relay = "sleep" \/ clock = "sleep"
    /\ key' = IF key = "sleep" THEN "scan"
              ELSE IF key = "delay" /\ kdelay = 1 THEN "restart" ELSE key
    /\ relay' = IF relay = "sleep" THEN "latch" ELSE relay
    /\ clock' = IF clock = "sleep" THEN "test" ELSE clock
    /\ UNCHANGED parse
    /\ kdelay' = IF key = "delay" THEN kdelay - 1 ELSE kdelay
    /\ UNCHANGED <<ram, gpio, nvs, kreg, held, creg, lost, undone>>

-----------------------------------------------------------------------------
(* key_task.  The statics of key_scan are abstracted to what a scan may    *)
(* report (KeyScan models them): the first scan after a reset reports a    *)
(* pressed button as a short and a long press at once, because             *)
(* LongKeyTimer is still 0; a later scan reports one of the two or none.   *)

KeyFirstScan ==
    /\ KeyAt("boot")
    /\ \/ held' = FALSE /\ KeyGoto("sleep")
       \/ held' = TRUE  /\ KeyGoto("toggle")
    /\ UNCHANGED <<ram, gpio, nvs, kreg, kdelay, creg, lost, undone>>

KeyIdle ==
    /\ KeyAt("scan")
    /\ KeyGoto("sleep")
    /\ UNCHANGED <<ram, gpio, nvs, regs, lost, undone>>

KeyShortPress ==
    /\ KeyAt("scan")
    /\ held' = FALSE /\ KeyGoto("toggle")
    /\ UNCHANGED <<ram, gpio, nvs, kreg, kdelay, creg, lost, undone>>

KeyLongPress ==
    /\ KeyAt("scan")
    /\ kdelay' = RestartDelay /\ KeyGoto("delay")
    /\ UNCHANGED <<ram, gpio, nvs, kreg, held, creg, lost, undone>>

(* toggle_relay reads the mask, stores the toggled one, sets the bit.      *)
ToggleRead ==
    /\ KeyAt("toggle")
    /\ kreg' = mask /\ KeyGoto("store")
    /\ UNCHANGED <<ram, gpio, nvs, held, kdelay, creg, lost, undone>>

ToggleStore ==
    /\ KeyAt("store")
    /\ mask' = Toggled(kreg) /\ kreg' = 0 /\ KeyGoto("flag")
    /\ UNCHANGED <<saveTimer, refresh, lastMask, temp, gpio, nvs, held, kdelay, creg, lost, undone>>

\* Mutant: toggle_relay does not set the bit.
ToggleNoFlag ==
    /\ KeyAt("flag")
    /\ KeyGoto("post")
    /\ UNCHANGED <<ram, gpio, nvs, regs, lost, undone>>

ToggleFlag ==
    /\ KeyAt("flag")
    /\ refresh' = TRUE /\ KeyGoto("post")
    /\ UNCHANGED <<mask, saveTimer, lastMask, temp, gpio, nvs, regs, lost, undone>>

(* post_data_to_clouds returns at once when there is no server; otherwise  *)
(* the publish blocks the task until the network stack has taken it.       *)
KeyPost ==
    /\ KeyAt("post")
    /\ KeyGoto("arm") \/ KeyGoto("network")
    /\ UNCHANGED <<ram, gpio, nvs, regs, lost, undone>>

KeyPosted ==
    /\ key = "network"
    /\ KeyGoto("arm")
    /\ UNCHANGED <<ram, gpio, nvs, regs, lost, undone>>

KeyArm ==
    /\ KeyAt("arm")
    /\ saveTimer' = SaveDelay
    /\ \/ held  /\ KeyGoto("delay") /\ kdelay' = RestartDelay
       \/ ~held /\ KeyGoto("sleep") /\ kdelay' = kdelay
    /\ held' = FALSE
    /\ UNCHANGED <<mask, refresh, lastMask, temp, gpio, nvs, kreg, creg, lost, undone>>

KeyRestart == KeyAt("restart") /\ Reset

-----------------------------------------------------------------------------
(* relay_task.                                                             *)

RelayDriverInit ==
    /\ RelayAt("driver")
    /\ gpio' = AllLow /\ RelayGoto("load")
    /\ UNCHANGED <<ram, nvs, regs, lost, undone>>

\* Mutant: the blob is not read.
RelayNoRead ==
    /\ RelayAt("load")
    /\ RelayGoto("latch")
    /\ nvs' = (IF nvs = NoBlob THEN mask ELSE nvs)
    /\ UNCHANGED <<ram, gpio, regs, lost, undone>>

(* eeprom_parameter_init: read the blob, or create it with the mask as it  *)
(* is.  Any of the flash calls may fail: the code goes on with the mask in *)
(* RAM, and after a read that failed it writes that mask over the blob, if *)
(* the flash takes it.                                                     *)
RelayLoad ==
    /\ RelayAt("load")
    /\ RelayGoto("latch")
    /\ \/ nvs # NoBlob /\ mask' = nvs /\ UNCHANGED <<nvs, lost>>
       \/ nvs = NoBlob /\ nvs' = mask /\ UNCHANGED <<mask, lost>>
       \/ nvs' \in {nvs, mask} /\ lost' = TRUE /\ UNCHANGED mask
    /\ UNCHANGED <<saveTimer, refresh, lastMask, temp, gpio, regs, undone>>

\* Mutant: the new mask is latched, the bit not set.
RelayLatchNoRefresh ==
    /\ RelayAt("latch")
    /\ lastMask' = Uint8(mask) /\ RelayGoto("check")
    /\ undone' = (undone /\ lastMask = mask)
    /\ UNCHANGED <<mask, saveTimer, refresh, temp, gpio, nvs, regs, lost>>

(* relay_dispatch: the 8-bit copy of the mask is compared with the 32-bit  *)
(* mask itself, so a mask above 255 differs on every scan.                 *)
RelayLatch ==
    /\ RelayAt("latch")
    /\ IF lastMask # mask
       THEN lastMask' = Uint8(mask) /\ refresh' = TRUE /\ undone' = FALSE
       ELSE UNCHANGED <<lastMask, refresh, undone>>
    /\ RelayGoto("check")
    /\ UNCHANGED <<mask, saveTimer, temp, gpio, nvs, regs, lost>>

RelayCheck ==
    /\ RelayAt("check")
    /\ RelayGoto(IF saveTimer = 1 THEN "clear" ELSE "consume")
    /\ UNCHANGED <<ram, gpio, nvs, regs, lost, undone>>

RelayClear ==
    /\ RelayAt("clear")
    /\ saveTimer' = 0 /\ RelayGoto("copy")
    /\ UNCHANGED <<mask, refresh, lastMask, temp, gpio, nvs, regs, lost, undone>>

\* Mutant: the parameters are not copied before the write.
RelayNoCopy ==
    /\ RelayAt("copy")
    /\ RelayGoto("write")
    /\ UNCHANGED <<ram, gpio, nvs, regs, lost, undone>>

(* eeprom_parameter_save copies the parameters, then writes the copy; a    *)
(* failure is neither reported nor retried.                                *)
RelayCopy ==
    /\ RelayAt("copy")
    /\ temp' = mask /\ RelayGoto("write")
    /\ UNCHANGED <<mask, saveTimer, refresh, lastMask, gpio, nvs, regs, lost, undone>>

\* Mutant: the timer is cleared after the save.
RelayWriteThenClear ==
    /\ RelayAt("write")
    /\ RelayGoto("consume")
    /\ saveTimer' = 0
    /\ \/ nvs' = temp /\ lost' = FALSE
       \/ nvs' = nvs  /\ lost' = TRUE
    /\ UNCHANGED <<mask, refresh, lastMask, temp, gpio, regs, undone>>

RelayWrite ==
    /\ RelayAt("write")
    /\ RelayGoto("consume")
    /\ \/ nvs' = temp /\ lost' = FALSE
       \/ nvs' = nvs  /\ lost' = TRUE
    /\ UNCHANGED <<ram, gpio, regs, undone>>

(* relay_level_output takes the bit, then reads the mask once for each pin.*)
RelayConsume ==
    /\ RelayAt("consume")
    /\ refresh' = FALSE
    /\ RelayGoto(IF refresh THEN "out1" ELSE "sleep")
    /\ UNCHANGED <<mask, saveTimer, lastMask, temp, gpio, nvs, regs, lost, undone>>

RelayOut1 ==
    /\ RelayAt("out1")
    /\ gpio' = [gpio EXCEPT ![1] = Bit(mask, 1)] /\ RelayGoto("out2")
    /\ UNCHANGED <<ram, nvs, regs, lost, undone>>

RelayOut2 ==
    /\ RelayAt("out2")
    /\ gpio' = [gpio EXCEPT ![2] = Bit(mask, 2)] /\ RelayGoto("sleep")
    /\ UNCHANGED <<ram, nvs, regs, lost, undone>>

-----------------------------------------------------------------------------
(* clock_task: `if (S) S--` is a test, a load and a store, and a task of a *)
(* higher priority may run between them.                                   *)

ClockInit ==
    /\ ClockAt("init")
    /\ saveTimer' = 0 /\ ClockGoto("test")
    /\ lost' = (lost \/ saveTimer # 0)
    /\ UNCHANGED <<mask, refresh, lastMask, temp, gpio, nvs, regs, undone>>

\* Mutant: a timer at 0 is decremented too.
ClockNoTest ==
    /\ ClockAt("test")
    /\ ClockGoto("load")
    /\ UNCHANGED <<ram, gpio, nvs, regs, lost, undone>>

ClockTest ==
    /\ ClockAt("test")
    /\ ClockGoto(IF saveTimer # 0 THEN "load" ELSE "sleep")
    /\ UNCHANGED <<ram, gpio, nvs, regs, lost, undone>>

ClockLoad ==
    /\ ClockAt("load")
    /\ creg' = saveTimer /\ ClockGoto("store")
    /\ UNCHANGED <<ram, gpio, nvs, kreg, held, kdelay, lost, undone>>

ClockStore ==
    /\ ClockAt("store")
    /\ saveTimer' = (creg - 1) % 65536 /\ creg' = 0 /\ ClockGoto("sleep")
    /\ UNCHANGED <<mask, refresh, lastMask, temp, gpio, nvs, kreg, held, kdelay, lost, undone>>

-----------------------------------------------------------------------------
(* Task_ParseJSON, for a message that is an AT_UP_DATA command.  (What the *)
(* other messages do, and the report that follows, is in CommandChannel:   *)
(* neither changes the state of this module.)                              *)

CommandArrives ==
    /\ parse = "queue"
    /\ ParseGoto("store")
    /\ UNCHANGED <<ram, gpio, nvs, regs, lost, undone>>

ParseStore ==
    /\ ParseAt("store")
    /\ \E m \in Commands :
          /\ mask' = m
          /\ undone' = (undone \/ (mask # lastMask /\ m = lastMask))
    /\ ParseGoto("arm")
    /\ UNCHANGED <<saveTimer, refresh, lastMask, temp, gpio, nvs, regs, lost>>

\* Mutant: a command does not arm the save.
ParseNoArm ==
    /\ ParseAt("arm")
    /\ ParseGoto("queue")
    /\ UNCHANGED <<ram, gpio, nvs, regs, lost, undone>>

ParseArm ==
    /\ ParseAt("arm")
    /\ saveTimer' = SaveDelay /\ ParseGoto("queue")
    /\ UNCHANGED <<mask, refresh, lastMask, temp, gpio, nvs, regs, lost, undone>>

-----------------------------------------------------------------------------
KeyStep   == \/ KeyFirstScan \/ KeyIdle \/ KeyShortPress \/ KeyLongPress
             \/ ToggleRead \/ ToggleStore \/ ToggleFlag
             \/ KeyPost \/ KeyArm \/ KeyRestart
RelayStep == \/ RelayDriverInit \/ RelayLoad \/ RelayLatch \/ RelayCheck
             \/ RelayClear \/ RelayCopy \/ RelayWrite
             \/ RelayConsume \/ RelayOut1 \/ RelayOut2
ClockStep == ClockInit \/ ClockTest \/ ClockLoad \/ ClockStore
ParseStep == ParseStore \/ ParseArm

Next == \/ Tick \/ KeyStep \/ KeyPosted \/ RelayStep \/ ClockStep
        \/ CommandArrives \/ ParseStep \/ PowerLoss

(* The tick interrupt keeps coming, and the network stack ends a publish,  *)
(* if only with its timeout.  The scans take microseconds of a tick of 10  *)
(* milliseconds: again and again every task has run until it blocks.       *)
Idle     == \A t \in Tasks : ~Ready[t]
Fairness == WF_vars(Tick) /\ WF_vars(KeyPosted) /\ []<>Idle

Spec     == Init /\ [][Next]_vars
FairSpec == Spec /\ Fairness

-----------------------------------------------------------------------------
Masks == Nat
Bytes == 0..255

(* Every variable has its type: the latched mask is a byte.                *)
TypeOK ==
    /\ mask \in Masks /\ lastMask \in Bytes /\ temp \in Masks /\ kreg \in Masks
    /\ saveTimer \in Nat /\ creg \in Nat /\ kdelay \in Nat
    /\ refresh \in BOOLEAN /\ held \in BOOLEAN /\ lost \in BOOLEAN /\ undone \in BOOLEAN
    /\ gpio \in [Pins -> {0, 1}]
    /\ nvs \in Masks \cup {NoBlob}
    /\ key \in KeyLabels /\ relay \in RelayLabels
    /\ clock \in ClockLabels /\ parse \in ParseLabels

(* The countdown never exceeds the delay it was armed with: the 16-bit     *)
(* decrement of clock_task never wraps below zero, although it tests,      *)
(* loads and stores a timer that others write in between.                  *)
CountdownBounded == saveTimer <= SaveDelay

Loaded == relay \notin {"driver", "load"}

(* The countdown runs, or a task that has changed the mask will start it.  *)
Armed ==
    \/ saveTimer > 0
    \/ key \in {"flag", "post", "network", "arm"}
    \/ parse = "arm"

(* A mask that differs from flash is on its way there: the countdown runs, *)
(* a task that changed the mask has yet to arm it, or the relay task is in *)
(* the middle of the save and will write, or will copy, the current mask.  *)
(* The only changes that get lost are those a flash error dropped and      *)
(* those armed before clock_task cleared the timers (lost).                *)
SavePending ==
    Loaded /\ mask # nvs /\ ~lost =>
        \/ Armed
        \/ relay \in {"clear", "copy"}
        \/ relay = "write" /\ temp = mask

(* relay_task compares the countdown with exactly 1, so a clock_task that  *)
(* went from 1 to 0 on its own would skip the save for good.  Only the     *)
(* relay task that goes on to save ends a countdown, or a reset.           *)
OnlySaveEndsCountdown ==
    [][saveTimer # 0 /\ saveTimer' = 0 =>
          relay' = "copy" \/ clock = "init" \/ key' = "boot"]_vars

(* A pin that does not show the mask is about to: the refresh bit is set   *)
(* or about to be, the next scan will find a new mask, or relay_task has   *)
(* still to write this pin.  The exception is a command that puts back the *)
(* latched value before the scan that would have latched the change.       *)
PinsFollowMask ==
    \A i \in Pins : gpio[i] # Bit(mask, i) =>
        \/ refresh \/ key = "flag"
        \/ lastMask # mask
        \/ relay \in {"driver", "load", "out1"}
        \/ relay = "out2" /\ i = 2
        \/ undone

(* README.md:58 says a command switches the lamp off: once relay_task has  *)
(* latched the mask and sleeps with nothing to refresh, the pins show it.  *)
SettledPinsShowMask ==
    /\ relay = "sleep" /\ key # "flag"
    /\ ~refresh /\ lastMask = mask
    => \A i \in Pins : gpio[i] = Bit(mask, i)

(* The save keeps the promise of DurableMask: the device has no mask until *)
(* eeprom_parameter_init has run, and then the one flash held; a save is   *)
(* in progress from the copy of the parameters to the write of the copy.   *)
CurrentMask == IF Loaded THEN mask ELSE NoBlob
SaveInProgress == IF relay = "write" THEN temp ELSE NoBlob

Durable == INSTANCE DurableMask
               WITH None <- NoBlob, cur <- CurrentMask, snap <- SaveInProgress, dur <- nvs

ImplementsDurableMask == Durable!Spec

Input == KeyFirstScan \/ KeyShortPress \/ KeyLongPress \/ CommandArrives \/ PowerLoss

(* When presses, commands and power losses end, the last mask reaches the  *)
(* flash and stays there, unless a flash error or the boot dropped it.     *)
EventuallySaved == <>[][~Input]_vars => <>[](nvs = mask \/ lost)

(* When they end, both pins come to show the last mask and stay so.        *)
EventuallyShown ==
    <>[][~Input]_vars => <>[](undone \/ \A i \in Pins : gpio[i] = Bit(mask, i))
=============================================================================
