------------------------- MODULE RelayControl_proofs -------------------------
(* Proofs about RelayControl, for every set of commands and every delay.   *)
EXTENDS RelayControl, TLAPS

(* The clock and parse tasks run only while relay_task sleeps, and parse   *)
(* only while clock_task sleeps as well: the priorities of app_main.       *)
LEMMA LowRunsWhenRelaySleeps ==
  /\ CanRun("clock") => relay = "sleep"
  /\ CanRun("parse") => relay = "sleep" /\ clock = "sleep"
<1>1. /\ prio["relay"] = 14 /\ prio["clock"] = 13 /\ prio["parse"] = 3
      /\ "relay" \in Tasks /\ "clock" \in Tasks
  BY DEF prio, Tasks
<1>2. Ready["relay"] = (relay # "sleep") /\ Ready["clock"] = (clock # "sleep")
  BY DEF Ready
<1>3. 14 > 13 /\ 14 > 3 /\ 13 > 3
  OBVIOUS
<1>4. CanRun("clock") => ~Ready["relay"]
  BY <1>1, <1>3 DEF CanRun
<1>5. CanRun("parse") => ~Ready["relay"] /\ ~Ready["clock"]
  BY <1>1, <1>3 DEF CanRun
<1> QED
  BY <1>2, <1>4, <1>5

LEMMA Delays ==
  /\ SaveDelay \in Nat /\ SaveDelay >= 2 /\ SaveDelay <= 65535
  /\ RestartDelay \in Nat /\ RestartDelay >= 1
  BY DelaysAssumption

(* The helpers on masks stay within the naturals, and the low byte keeps   *)
(* the bits of the two pins.                                               *)
LEMMA MaskHelpers ==
  ASSUME NEW m \in Nat
  PROVE  /\ Toggled(m) \in Nat
         /\ Uint8(m) \in Bytes
         /\ \A i \in Pins : Bit(m, i) \in {0, 1}
         /\ \A i \in Pins : Bit(0, i) = 0
  BY DEF Toggled, Uint8, Bytes, Bit, Pins

-----------------------------------------------------------------------------
(* The countdown.  Once it has come down to 1 the clock sleeps and the     *)
(* relay task, which runs before the clock can, has the deadline ahead of  *)
(* it; so a decrement under way never starts from 1.                       *)
Deadline ==
    /\ saveTimer <= SaveDelay
    /\ saveTimer = 1 => \/ relay = "sleep" /\ clock = "sleep"
                        \/ relay \in {"latch", "check", "clear"}
    /\ clock = "load"  => saveTimer >= 2 /\ relay # "clear"
    /\ clock = "store" => saveTimer >= 2 /\ creg >= 2 /\ creg <= SaveDelay /\ relay # "clear"
    /\ key = "delay" => kdelay >= 1

TypeInv == TypeOK /\ Deadline

LEMMA InitTypeInv == Init => TypeInv
<1> SUFFICES ASSUME Init PROVE TypeInv
  OBVIOUS
<1>1. key \in KeyLabels
  BY DEF Init, KeyLabels
<1>2. relay \in RelayLabels
  BY DEF Init, RelayLabels
<1>3. clock \in ClockLabels /\ parse \in ParseLabels
  BY DEF Init, ClockLabels, ParseLabels
<1>4. gpio \in [Pins -> {0, 1}]
  BY DEF Init, AllLow
<1>0. 0 \in Nat /\ 0 \in Bytes
  BY DEF Bytes
<1>5. TypeOK
  BY <1>0, <1>1, <1>2, <1>3, <1>4 DEF Init, TypeOK, Masks
<1>6. Deadline
  BY Delays DEF Init, Deadline
<1> QED
  BY <1>5, <1>6 DEF TypeInv

(* A reset leaves a well-typed state.                                      *)
LEMMA ResetTypeInv == TypeOK /\ Reset => TypeInv'
<1> SUFFICES ASSUME TypeOK, Reset PROVE TypeInv'
  OBVIOUS
<1>1. key' \in KeyLabels
  BY DEF Reset, KeyLabels
<1>2. relay' \in RelayLabels
  BY DEF Reset, RelayLabels
<1>3. clock' \in ClockLabels /\ parse' \in ParseLabels
  BY DEF Reset, ClockLabels, ParseLabels
<1>4. gpio' \in [Pins -> {0, 1}]
  BY DEF Reset, AllLow
<1>0. 0 \in Nat /\ 0 \in Bytes
  BY DEF Bytes
<1>5. TypeOK'
  BY <1>0, <1>1, <1>2, <1>3, <1>4 DEF Reset, TypeOK, Masks
<1>6. Deadline'
  BY Delays DEF Reset, Deadline
<1> QED
  BY <1>5, <1>6 DEF TypeInv

(* Arming the save sets the countdown and, after a long press, the delay   *)
(* before the restart.                                                     *)
LEMMA KeyArmEffect ==
  KeyArm => /\ saveTimer' = SaveDelay
            /\ held' = FALSE
            /\ kdelay' = RestartDelay \/ kdelay' = kdelay
  BY Zenon DEF KeyArm

(* The steps of key_task keep the typing ...                               *)
LEMMA KeyStepType == TypeOK /\ KeyStep /\ ~KeyRestart => TypeOK'
<1> SUFFICES ASSUME TypeOK, KeyStep, ~KeyRestart PROVE TypeOK'
  OBVIOUS
<1> USE DEF ram, regs
<1>1. CASE KeyFirstScan
  <2>1. key' \in KeyLabels
    BY <1>1 DEF KeyFirstScan, KeyGoto, KeyLabels
  <2> QED
    BY <1>1, <2>1 DEF KeyFirstScan, KeyGoto, TypeOK
<1>2. CASE KeyIdle
  <2>1. key' \in KeyLabels
    BY <1>2 DEF KeyIdle, KeyGoto, KeyLabels
  <2> QED
    BY <1>2, <2>1 DEF KeyIdle, KeyGoto, TypeOK
<1>3. CASE KeyShortPress
  <2>1. key' \in KeyLabels
    BY <1>3 DEF KeyShortPress, KeyGoto, KeyLabels
  <2> QED
    BY <1>3, <2>1 DEF KeyShortPress, KeyGoto, TypeOK
<1>4. CASE KeyLongPress
  <2>1. key' \in KeyLabels
    BY <1>4 DEF KeyLongPress, KeyGoto, KeyLabels
  <2> QED
    BY <1>4, <2>1, Delays DEF KeyLongPress, KeyGoto, TypeOK
<1>5. CASE ToggleRead
  <2>1. key' \in KeyLabels
    BY <1>5 DEF ToggleRead, KeyGoto, KeyLabels
  <2> QED
    BY <1>5, <2>1 DEF ToggleRead, KeyGoto, TypeOK
<1>6. CASE ToggleStore
  <2>1. key' \in KeyLabels
    BY <1>6 DEF ToggleStore, KeyGoto, KeyLabels
  <2>2. mask' \in Masks /\ kreg' \in Masks
    BY <1>6, MaskHelpers DEF ToggleStore, TypeOK, Masks
  <2> QED
    BY <1>6, <2>1, <2>2 DEF ToggleStore, KeyGoto, TypeOK
<1>7. CASE ToggleFlag
  <2>1. key' \in KeyLabels
    BY <1>7 DEF ToggleFlag, KeyGoto, KeyLabels
  <2> QED
    BY <1>7, <2>1 DEF ToggleFlag, KeyGoto, TypeOK
<1>8. CASE KeyPost
  <2>1. key' \in KeyLabels
    BY <1>8 DEF KeyPost, KeyGoto, KeyLabels
  <2> QED
    BY <1>8, <2>1 DEF KeyPost, KeyGoto, TypeOK
<1>9. CASE KeyArm
  <2>1. key' \in KeyLabels
    BY <1>9 DEF KeyArm, KeyGoto, KeyLabels
  <2>2. kdelay \in Nat
    BY DEF TypeOK
  <2>3. saveTimer' = SaveDelay /\ (kdelay' = RestartDelay \/ kdelay' = kdelay)
    BY <1>9, KeyArmEffect
  <2>4. saveTimer' \in Nat /\ kdelay' \in Nat
    BY <2>2, <2>3, Delays
  <2>5. held' \in BOOLEAN
    BY <1>9, KeyArmEffect, Zenon
  <2> QED
    BY <1>9, <2>1, <2>4, <2>5 DEF KeyArm, KeyGoto, TypeOK
<1> QED
  BY <1>1, <1>2, <1>3, <1>4, <1>5, <1>6, <1>7, <1>8, <1>9 DEF KeyStep

(* ... and never set the countdown below 2.                                *)
LEMMA KeyStepDeadline == Deadline /\ KeyStep /\ ~KeyRestart => Deadline'
<1> SUFFICES ASSUME Deadline, KeyStep, ~KeyRestart PROVE Deadline'
  OBVIOUS
<1> USE DEF ram, regs, KeyGoto, Deadline
<1>1. CASE KeyFirstScan
  BY <1>1 DEF KeyFirstScan
<1>2. CASE KeyIdle
  BY <1>2 DEF KeyIdle
<1>3. CASE KeyShortPress
  BY <1>3 DEF KeyShortPress
<1>4. CASE KeyLongPress
  BY <1>4, Delays DEF KeyLongPress
<1>5. CASE ToggleRead
  BY <1>5 DEF ToggleRead
<1>6. CASE ToggleStore
  BY <1>6 DEF ToggleStore
<1>7. CASE ToggleFlag
  BY <1>7 DEF ToggleFlag
<1>8. CASE KeyPost
  BY <1>8 DEF KeyPost
<1>9. CASE KeyArm
  BY <1>9, Delays DEF KeyArm
<1> QED
  BY <1>1, <1>2, <1>3, <1>4, <1>5, <1>6, <1>7, <1>8, <1>9 DEF KeyStep

(* The steps of relay_task keep the typing ...                             *)
LEMMA RelayStepType == TypeOK /\ RelayStep => TypeOK'
<1> SUFFICES ASSUME TypeOK, RelayStep PROVE TypeOK'
  OBVIOUS
<1> USE DEF ram, regs
<1>1. CASE RelayDriverInit
  <2>1. relay' \in RelayLabels
    BY <1>1 DEF RelayDriverInit, RelayGoto, RelayLabels
  <2>2. gpio' \in [Pins -> {0, 1}]
    BY <1>1 DEF RelayDriverInit, AllLow
  <2> QED
    BY <1>1, <2>1, <2>2 DEF RelayDriverInit, RelayGoto, TypeOK
<1>2. CASE RelayLoad
  <2>1. relay' \in RelayLabels
    BY <1>2 DEF RelayLoad, RelayGoto, RelayLabels
  <2>2. mask' \in Masks /\ nvs' \in Masks \cup {NoBlob} /\ lost' \in BOOLEAN
    BY <1>2 DEF RelayLoad, TypeOK
  <2> QED
    BY <1>2, <2>1, <2>2 DEF RelayLoad, RelayGoto, TypeOK
<1>3. CASE RelayLatch
  <2>1. relay' \in RelayLabels
    BY <1>3 DEF RelayLatch, RelayGoto, RelayLabels
  <2>2. lastMask' \in Bytes /\ refresh' \in BOOLEAN /\ undone' \in BOOLEAN
    BY <1>3, MaskHelpers DEF RelayLatch, TypeOK, Masks
  <2> QED
    BY <1>3, <2>1, <2>2 DEF RelayLatch, RelayGoto, TypeOK
<1>4. CASE RelayCheck
  <2>1. relay' \in RelayLabels
    BY <1>4 DEF RelayCheck, RelayGoto, RelayLabels
  <2> QED
    BY <1>4, <2>1 DEF RelayCheck, RelayGoto, TypeOK
<1>5. CASE RelayClear
  <2>1. relay' \in RelayLabels
    BY <1>5 DEF RelayClear, RelayGoto, RelayLabels
  <2> QED
    BY <1>5, <2>1 DEF RelayClear, RelayGoto, TypeOK
<1>6. CASE RelayCopy
  <2>1. relay' \in RelayLabels
    BY <1>6 DEF RelayCopy, RelayGoto, RelayLabels
  <2> QED
    BY <1>6, <2>1 DEF RelayCopy, RelayGoto, TypeOK
<1>7. CASE RelayWrite
  <2>1. relay' \in RelayLabels
    BY <1>7 DEF RelayWrite, RelayGoto, RelayLabels
  <2> QED
    BY <1>7, <2>1 DEF RelayWrite, RelayGoto, TypeOK
<1>8. CASE RelayConsume
  <2>1. relay' \in RelayLabels
    BY <1>8 DEF RelayConsume, RelayGoto, RelayLabels
  <2> QED
    BY <1>8, <2>1 DEF RelayConsume, RelayGoto, TypeOK
<1>9. CASE RelayOut1
  <2>1. relay' \in RelayLabels
    BY <1>9 DEF RelayOut1, RelayGoto, RelayLabels
  <2>2. Bit(mask, 1) \in {0, 1}
    BY <1>9, MaskHelpers DEF TypeOK, Masks, Pins
  <2>3. gpio' \in [Pins -> {0, 1}]
    BY <1>9, <2>2 DEF RelayOut1, TypeOK
  <2> QED
    BY <1>9, <2>1, <2>2, <2>3 DEF RelayOut1, RelayGoto, TypeOK
<1>10. CASE RelayOut2
  <2>1. relay' \in RelayLabels
    BY <1>10 DEF RelayOut2, RelayGoto, RelayLabels
  <2>2. Bit(mask, 2) \in {0, 1}
    BY <1>10, MaskHelpers DEF TypeOK, Masks, Pins
  <2>3. gpio' \in [Pins -> {0, 1}]
    BY <1>10, <2>2 DEF RelayOut2, TypeOK
  <2> QED
    BY <1>10, <2>1, <2>2, <2>3 DEF RelayOut2, RelayGoto, TypeOK
<1> QED
  BY <1>1, <1>2, <1>3, <1>4, <1>5, <1>6, <1>7, <1>8, <1>9, <1>10 DEF RelayStep

(* ... and take the deadline only from the check to the clear.             *)
LEMMA RelayStepDeadline == Deadline /\ RelayStep => Deadline'
<1> SUFFICES ASSUME Deadline, RelayStep PROVE Deadline'
  OBVIOUS
<1> USE DEF ram, regs, RelayAt, RelayGoto, Deadline
<1>1. CASE RelayDriverInit
  BY <1>1 DEF RelayDriverInit
<1>2. CASE RelayLoad
  BY <1>2 DEF RelayLoad
<1>3. CASE RelayLatch
  BY <1>3 DEF RelayLatch
<1>4. CASE RelayCheck
  BY <1>4 DEF RelayCheck
<1>5. CASE RelayClear
  <2>1. saveTimer' = 0 /\ relay' = "copy" /\ relay = "clear" /\ UNCHANGED <<key, clock, kdelay>>
    BY <1>5 DEF RelayClear
  <2> QED
    BY <2>1, Delays DEF Deadline
<1>6. CASE RelayCopy
  BY <1>6 DEF RelayCopy
<1>7. CASE RelayWrite
  BY <1>7 DEF RelayWrite
<1>8. CASE RelayConsume
  BY <1>8 DEF RelayConsume
<1>9. CASE RelayOut1
  BY <1>9 DEF RelayOut1
<1>10. CASE RelayOut2
  BY <1>10 DEF RelayOut2
<1> QED
  BY <1>1, <1>2, <1>3, <1>4, <1>5, <1>6, <1>7, <1>8, <1>9, <1>10 DEF RelayStep

(* The clock runs while the relay task sleeps: a countdown it finds is at  *)
(* least 2, so it leaves at least 1.                                       *)
LEMMA ClockStepTypeInv == TypeInv /\ ClockStep => TypeInv'
<1> SUFFICES ASSUME TypeOK, Deadline, ClockStep PROVE TypeInv'
  BY DEF TypeInv
<1> USE DEF ram, regs
<1>0. saveTimer \in Nat /\ creg \in Nat /\ kdelay \in Nat
  BY DEF TypeOK
<1>1. relay = "sleep"
  BY LowRunsWhenRelaySleeps
     DEF ClockStep, ClockAt, ClockInit, ClockTest, ClockLoad, ClockStore
<1>2. CASE ClockInit
  <2>1. clock' \in ClockLabels
    BY <1>2 DEF ClockInit, ClockGoto, ClockLabels
  <2>2. TypeOK'
    BY <1>2, <2>1 DEF ClockInit, ClockGoto, TypeOK
  <2>3. Deadline'
    BY <1>1, <1>2, <1>0, Delays DEF ClockInit, ClockGoto, ClockAt, Deadline
  <2> QED
    BY <2>2, <2>3 DEF TypeInv
<1>3. CASE ClockTest
  <2>1. clock' \in ClockLabels
    BY <1>3 DEF ClockTest, ClockGoto, ClockLabels
  <2>2. TypeOK'
    BY <1>3, <2>1 DEF ClockTest, ClockGoto, TypeOK
  <2>3. Deadline'
    BY <1>1, <1>3, <1>0, Delays DEF ClockTest, ClockGoto, ClockAt, Deadline
  <2> QED
    BY <2>2, <2>3 DEF TypeInv
<1>4. CASE ClockLoad
  <2>1. clock' \in ClockLabels
    BY <1>4 DEF ClockLoad, ClockGoto, ClockLabels
  <2>2. TypeOK'
    BY <1>4, <2>1 DEF ClockLoad, ClockGoto, TypeOK
  <2>3. Deadline'
    BY <1>1, <1>4, <1>0, Delays DEF ClockLoad, ClockGoto, ClockAt, Deadline
  <2> QED
    BY <2>2, <2>3 DEF TypeInv
<1>5. CASE ClockStore
  <2>1. creg >= 2 /\ creg <= SaveDelay
    BY <1>5 DEF ClockStore, ClockAt, Deadline
  <2>2. (creg - 1) % 65536 = creg - 1
    BY <1>0, <2>1, Delays
  <2>3. saveTimer' \in Nat /\ saveTimer' >= 1 /\ saveTimer' <= SaveDelay
    BY <1>0, <1>5, <2>1, <2>2, Delays DEF ClockStore
  <2>4. clock' = "sleep" /\ clock' \in ClockLabels
    BY <1>5 DEF ClockStore, ClockGoto, ClockLabels
  <2>5. TypeOK'
    BY <1>5, <2>3, <2>4 DEF ClockStore, ClockGoto, TypeOK
  <2>6. Deadline'
    BY <1>1, <1>5, <2>3 DEF ClockStore, ClockGoto, Deadline
  <2> QED
    BY <2>5, <2>6 DEF TypeInv
<1> QED
  BY <1>2, <1>3, <1>4, <1>5 DEF ClockStep

(* The typing and the countdown are inductive together: the decrement does *)
(* not wrap because the clock never takes a countdown below 1.             *)
LEMMA NextTypeInv == TypeInv /\ [Next]_vars => TypeInv'
<1> SUFFICES ASSUME TypeOK, Deadline, [Next]_vars PROVE TypeInv'
  BY DEF TypeInv
<1> USE DEF ram, regs
<1>1. CASE UNCHANGED vars
  <2>1. TypeOK'
    BY <1>1 DEF vars, pcs, TypeOK
  <2>2. Deadline'
    BY <1>1 DEF vars, pcs, Deadline
  <2> QED
    BY <2>1, <2>2 DEF TypeInv
<1>2. CASE Tick
  <2>1. key' \in KeyLabels
    BY <1>2 DEF Tick, TypeOK, KeyLabels
  <2>2. relay' \in RelayLabels
    BY <1>2 DEF Tick, TypeOK, RelayLabels
  <2>3. clock' \in ClockLabels
    BY <1>2 DEF Tick, TypeOK, ClockLabels
  <2>4. kdelay' \in Nat
    BY <1>2 DEF Tick, TypeOK, Deadline
  <2>5. UNCHANGED <<ram, gpio, nvs, kreg, held, creg, lost, undone, parse>>
    BY <1>2 DEF Tick
  <2>6. TypeOK'
    BY <2>1, <2>2, <2>3, <2>4, <2>5 DEF TypeOK
  <2>7. kdelay \in Nat
    BY DEF TypeOK
  <2>8. Deadline'
    BY <1>2, <2>7 DEF Tick, Deadline
  <2> QED
    BY <2>6, <2>8 DEF TypeInv
<1>3. CASE KeyStep
  BY <1>3, KeyStepType, KeyStepDeadline, ResetTypeInv DEF TypeInv, KeyRestart
<1>4. CASE KeyPosted
  <2>1. key' \in KeyLabels
    BY <1>4 DEF KeyPosted, KeyGoto, KeyLabels
  <2>2. TypeOK'
    BY <1>4, <2>1 DEF KeyPosted, KeyGoto, TypeOK
  <2>3. Deadline'
    BY <1>4 DEF KeyPosted, KeyGoto, Deadline
  <2> QED
    BY <2>2, <2>3 DEF TypeInv
<1>5. CASE RelayStep
  BY <1>5, RelayStepType, RelayStepDeadline DEF TypeInv
<1>6. CASE ClockStep
  BY <1>6, ClockStepTypeInv DEF TypeInv
<1>7. CASE CommandArrives
  <2>1. parse' \in ParseLabels
    BY <1>7 DEF CommandArrives, ParseGoto, ParseLabels
  <2>2. TypeOK'
    BY <1>7, <2>1 DEF CommandArrives, ParseGoto, TypeOK
  <2>3. Deadline'
    BY <1>7 DEF CommandArrives, ParseGoto, Deadline
  <2> QED
    BY <2>2, <2>3 DEF TypeInv
<1>8. CASE ParseStore
  <2>1. parse' \in ParseLabels
    BY <1>8 DEF ParseStore, ParseGoto, ParseLabels
  <2>2. mask' \in Masks /\ undone' \in BOOLEAN
    BY <1>8, CommandsAssumption DEF ParseStore, TypeOK, Masks
  <2>3. TypeOK'
    BY <1>8, <2>1, <2>2 DEF ParseStore, ParseGoto, TypeOK
  <2>4. Deadline'
    BY <1>8 DEF ParseStore, ParseGoto, Deadline
  <2> QED
    BY <2>3, <2>4 DEF TypeInv
<1>9. CASE ParseArm
  <2>1. parse' \in ParseLabels
    BY <1>9 DEF ParseArm, ParseGoto, ParseLabels
  <2>2. saveTimer' \in Nat
    BY <1>9, Delays DEF ParseArm
  <2>3. TypeOK'
    BY <1>9, <2>1, <2>2 DEF ParseArm, ParseGoto, TypeOK
  <2>4. Deadline'
    BY <1>9, Delays DEF ParseArm, ParseGoto, Deadline
  <2> QED
    BY <2>3, <2>4 DEF TypeInv
<1>10. CASE PowerLoss
  BY <1>10, ResetTypeInv DEF PowerLoss
<1> QED
  BY <1>1, <1>2, <1>3, <1>4, <1>5, <1>6, <1>7, <1>8, <1>9, <1>10 DEF Next, ParseStep

LEMMA TypeInvariant == Spec => []TypeInv
  BY InitTypeInv, NextTypeInv, PTL DEF Spec

(* Every variable keeps its type.                                          *)
THEOREM TypeCorrect == Spec => []TypeOK
  BY TypeInvariant, PTL DEF TypeInv

(* The countdown stays within the delay it was armed with, whatever the    *)
(* interleaving of the tasks that set it and the task that counts it down. *)
THEOREM CountdownNeverWraps == Spec => []CountdownBounded
<1>1. TypeInv => CountdownBounded
  BY DEF TypeInv, Deadline, CountdownBounded
<1> QED
  BY <1>1, TypeInvariant, PTL
-----------------------------------------------------------------------------
(* The steps that write the countdown.                                     *)
LEMMA TimerWriters ==
  [Next]_vars => \/ saveTimer' = saveTimer
                 \/ KeyArm \/ ParseArm \/ RelayClear \/ ClockInit \/ ClockStore \/ Reset
<1> SUFFICES ASSUME [Next]_vars,
                    ~(KeyArm \/ ParseArm \/ RelayClear \/ ClockInit \/ ClockStore \/ Reset)
             PROVE  saveTimer' = saveTimer
  OBVIOUS
<1> USE DEF ram, regs
<1>1. CASE UNCHANGED vars
  BY <1>1 DEF vars
<1>2. CASE Tick \/ KeyPosted \/ CommandArrives \/ ParseStore
  BY <1>2 DEF Tick, KeyPosted, CommandArrives, ParseStore
<1>3. CASE KeyStep
  BY <1>3 DEF KeyStep, KeyFirstScan, KeyIdle, KeyShortPress, KeyLongPress,
              ToggleRead, ToggleStore, ToggleFlag, KeyPost, KeyRestart
<1>4. CASE RelayStep
  BY <1>4 DEF RelayStep, RelayDriverInit, RelayLoad, RelayLatch, RelayCheck,
              RelayCopy, RelayWrite, RelayConsume, RelayOut1, RelayOut2
<1>5. CASE ClockStep
  BY <1>5 DEF ClockStep, ClockTest, ClockLoad
<1> QED
  BY <1>1, <1>2, <1>3, <1>4, <1>5 DEF Next, ParseStep, PowerLoss

(* A decrement leaves a countdown: it started from 2 or more.              *)
LEMMA ClockLeavesOne == TypeInv /\ ClockStore => saveTimer' > 0
<1> SUFFICES ASSUME TypeInv, ClockStore PROVE saveTimer' > 0
  OBVIOUS
<1>1. creg \in Nat /\ creg >= 2 /\ creg <= SaveDelay
  BY DEF ClockStore, ClockAt, TypeInv, TypeOK, Deadline
<1>2. (creg - 1) % 65536 = creg - 1
  BY <1>1, Delays
<1> QED
  BY <1>1, <1>2 DEF ClockStore

(* Only relay_task, going on to save, ends a countdown, or a boot: a save  *)
(* that a task has armed is never skipped.                                 *)
THEOREM SaveNeverSkipped == Spec => OnlySaveEndsCountdown
<1> DEFINE Ends == saveTimer # 0 /\ saveTimer' = 0 =>
                     relay' = "copy" \/ clock = "init" \/ key' = "boot"
<1>1. TypeInv /\ [Next]_vars => [Ends]_vars
  <2> SUFFICES ASSUME TypeInv, [Next]_vars, saveTimer # 0, saveTimer' = 0
               PROVE  relay' = "copy" \/ clock = "init" \/ key' = "boot"
    OBVIOUS
  <2>1. ~KeyArm /\ ~ParseArm
    BY Delays, KeyArmEffect DEF ParseArm
  <2>2. ~ClockStore
    BY ClockLeavesOne
  <2>3. RelayClear \/ ClockInit \/ Reset
    BY <2>1, <2>2, TimerWriters
  <2> QED
    BY <2>3 DEF RelayClear, RelayGoto, ClockInit, ClockAt, Reset
<1> QED
  BY <1>1, TypeInvariant, PTL DEF Spec, OnlySaveEndsCountdown

-----------------------------------------------------------------------------
(* The pending save.                                                       *)

(* A step of a task leaves the other tasks where they are.                 *)
LEMMA KeyStepAlone == KeyStep => UNCHANGED <<relay, clock, parse>> \/ Reset
  BY DEF KeyStep, KeyFirstScan, KeyIdle, KeyShortPress, KeyLongPress, ToggleRead,
         ToggleStore, ToggleFlag, KeyPost, KeyArm, KeyRestart, KeyGoto

LEMMA RelayStepAlone == RelayStep => UNCHANGED <<key, clock, parse>>
  BY DEF RelayStep, RelayDriverInit, RelayLoad, RelayLatch, RelayCheck, RelayClear,
         RelayCopy, RelayWrite, RelayConsume, RelayOut1, RelayOut2, RelayGoto

LEMMA ClockStepAlone == ClockStep => UNCHANGED <<key, relay, parse>>
  BY DEF ClockStep, ClockInit, ClockTest, ClockLoad, ClockStore, ClockGoto

LEMMA ParseStepAlone ==
  CommandArrives \/ ParseStep => UNCHANGED <<key, relay, clock>>
  BY DEF CommandArrives, ParseStep, ParseStore, ParseArm, ParseGoto

(* What is armed stays armed until the relay task takes the deadline.      *)
LEMMA ArmedStays ==
  TypeInv /\ [Next]_vars /\ Armed => Armed' \/ RelayClear \/ ClockInit \/ Reset
<1> SUFFICES ASSUME TypeInv, [Next]_vars, Armed, ~RelayClear, ~ClockInit, ~Reset
             PROVE  Armed'
  OBVIOUS
<1> DEFINE Writing == {"flag", "post", "network", "arm"}
<1>1. CASE KeyArm \/ ParseArm
  <2>1. saveTimer' = SaveDelay
    BY <1>1, KeyArmEffect DEF ParseArm
  <2> QED
    BY <2>1, Delays DEF Armed
<1>2. CASE ClockStore
  BY <1>2, ClockLeavesOne DEF Armed
<1>3. CASE ~KeyArm /\ ~ParseArm /\ ~ClockStore
  <2>1. saveTimer' = saveTimer
    BY <1>3, TimerWriters
  <2>2. CASE KeyStep
    <3>1. UNCHANGED parse
      BY <2>2, KeyStepAlone
    <3>2. key \in Writing => key' \in Writing
      BY <1>3, <2>2
         DEF KeyStep, KeyFirstScan, KeyIdle, KeyShortPress, KeyLongPress, ToggleRead,
             ToggleStore, ToggleFlag, KeyPost, KeyRestart, KeyGoto, KeyAt
    <3> QED
      BY <2>1, <3>1, <3>2 DEF Armed
  <2>3. CASE Tick
    BY <2>1, <2>3 DEF Tick, Armed
  <2>4. CASE KeyPosted
    BY <2>1, <2>4 DEF KeyPosted, KeyGoto, Armed
  <2>5. CASE RelayStep \/ ClockStep
    BY <2>1, <2>5, RelayStepAlone, ClockStepAlone DEF Armed
  <2>6. CASE CommandArrives \/ ParseStep
    <3>1. UNCHANGED key
      BY <2>6, ParseStepAlone
    <3>2. parse = "arm" => parse' = "arm"
      BY <1>3, <2>6 DEF CommandArrives, ParseStep, ParseStore, ParseAt, ParseGoto
    <3> QED
      BY <2>1, <3>1, <3>2 DEF Armed
  <2>7. CASE UNCHANGED vars
    BY <2>1, <2>7 DEF vars, pcs, Armed
  <2> QED
    BY <2>2, <2>3, <2>4, <2>5, <2>6, <2>7 DEF Next, PowerLoss
<1> QED
  BY <1>1, <1>2, <1>3

(* A task that changes the mask is about to arm the save.                  *)
LEMMA ChangeIsArmed ==
  [Next]_vars => mask' = mask \/ RelayLoad \/ Reset \/ Armed'
<1> SUFFICES ASSUME [Next]_vars, ~RelayLoad, ~Reset PROVE mask' = mask \/ Armed'
  OBVIOUS
<1> USE DEF ram, regs
<1>1. CASE UNCHANGED vars
  BY <1>1 DEF vars
<1>2. CASE Tick \/ KeyPosted \/ CommandArrives \/ ParseArm
  BY <1>2 DEF Tick, KeyPosted, CommandArrives, ParseArm
<1>3. CASE ParseStore
  BY <1>3 DEF ParseStore, ParseGoto, Armed
<1>4. CASE ToggleStore
  BY <1>4 DEF ToggleStore, KeyGoto, Armed
<1>5. CASE KeyStep /\ ~ToggleStore
  BY <1>5 DEF KeyStep, KeyFirstScan, KeyIdle, KeyShortPress, KeyLongPress,
              ToggleRead, ToggleFlag, KeyPost, KeyArm, KeyRestart
<1>6. CASE RelayStep
  BY <1>6 DEF RelayStep, RelayDriverInit, RelayLatch, RelayCheck, RelayClear,
              RelayCopy, RelayWrite, RelayConsume, RelayOut1, RelayOut2
<1>7. CASE ClockStep
  BY <1>7 DEF ClockStep, ClockInit, ClockTest, ClockLoad, ClockStore
<1> QED
  BY <1>1, <1>2, <1>3, <1>4, <1>5, <1>6, <1>7 DEF Next, ParseStep, PowerLoss

(* A copy that a change has made stale will be saved again.                *)
CopyFresh == relay = "write" /\ temp # mask => Armed

(* Steps outside relay_task touch neither flash nor the copy, and forget   *)
(* no loss; they move relay_task only from its sleep to its next scan.     *)
LEMMA OtherSteps ==
  [Next]_vars => \/ RelayStep \/ Reset
                 \/ /\ UNCHANGED <<temp, nvs>>
                    /\ lost => lost'
                    /\ relay' = relay \/ (relay = "sleep" /\ relay' = "latch")
<1> SUFFICES ASSUME [Next]_vars, ~RelayStep, ~Reset
             PROVE  /\ UNCHANGED <<temp, nvs>>
                    /\ lost => lost'
                    /\ relay' = relay \/ (relay = "sleep" /\ relay' = "latch")
  OBVIOUS
<1> USE DEF ram, regs
<1>1. CASE UNCHANGED vars
  BY <1>1 DEF vars, pcs
<1>2. CASE Tick
  BY <1>2 DEF Tick
<1>3. CASE KeyPosted \/ CommandArrives \/ ParseStep
  BY <1>3 DEF KeyPosted, KeyGoto, CommandArrives, ParseStep, ParseStore, ParseArm, ParseGoto
<1>4. CASE KeyStep
  <2>1. relay' = relay
    BY <1>4, KeyStepAlone
  <2>2. UNCHANGED <<temp, nvs, lost>>
    <3>1. CASE KeyArm
      BY <3>1 DEF KeyArm
    <3>2. CASE KeyFirstScan \/ KeyIdle \/ KeyShortPress
      BY <3>2 DEF KeyFirstScan, KeyIdle, KeyShortPress
    <3>3. CASE KeyLongPress \/ ToggleRead \/ ToggleStore
      BY <3>3 DEF KeyLongPress, ToggleRead, ToggleStore
    <3>4. CASE ToggleFlag \/ KeyPost
      BY <3>4 DEF ToggleFlag, KeyPost
    <3> QED
      BY <1>4, <3>1, <3>2, <3>3, <3>4 DEF KeyStep, KeyRestart
  <2> QED
    BY <2>1, <2>2
<1>5. CASE ClockStep
  <2>1. relay' = relay
    BY <1>5, ClockStepAlone
  <2>2. UNCHANGED <<temp, nvs>>
    BY <1>5 DEF ClockStep, ClockInit, ClockTest, ClockLoad, ClockStore
  <2>3. CASE ClockInit
    BY <2>1, <2>2, <2>3 DEF ClockInit
  <2>4. CASE ClockTest \/ ClockLoad \/ ClockStore
    BY <2>1, <2>2, <2>4 DEF ClockTest, ClockLoad, ClockStore
  <2> QED
    BY <1>5, <2>3, <2>4 DEF ClockStep
<1> QED
  BY <1>1, <1>2, <1>3, <1>4, <1>5 DEF Next, PowerLoss

(* The induction step of the pending save.                                 *)
LEMMA PendingStep ==
  TypeInv /\ SavePending /\ CopyFresh /\ [Next]_vars => SavePending' /\ CopyFresh'
<1> SUFFICES ASSUME TypeInv, SavePending, CopyFresh, [Next]_vars
             PROVE  SavePending' /\ CopyFresh'
  OBVIOUS
<1> USE DEF ram, regs, RelayGoto, RelayAt
<1>1. CASE Reset
  BY <1>1 DEF Reset, SavePending, CopyFresh, Loaded
<1>2. CASE ClockInit
  <2>1. /\ relay = "sleep" /\ relay' = "sleep" /\ UNCHANGED <<mask, nvs, temp, key, parse>>
        /\ saveTimer' = 0 /\ lost' = (lost \/ saveTimer # 0)
    BY <1>2, LowRunsWhenRelaySleeps DEF ClockInit, ClockAt, ClockGoto
  <2>2. saveTimer \in Nat
    BY DEF TypeInv, TypeOK
  <2>3. CopyFresh'
    BY <2>1 DEF CopyFresh
  <2>4. SavePending'
    <3>1. CASE saveTimer = 0
      BY <2>1, <3>1 DEF SavePending, Loaded, Armed
    <3>2. CASE saveTimer # 0
      BY <2>1, <3>2 DEF SavePending
    <3> QED
      BY <3>1, <3>2
  <2> QED
    BY <2>3, <2>4
<1>3. CASE RelayStep
  <2>1. CASE RelayDriverInit
    BY <2>1 DEF RelayDriverInit, SavePending, CopyFresh, Loaded
  <2>2. CASE RelayLoad
    <3>1. relay' = "latch" /\ (mask' = nvs' \/ lost')
      BY <2>2 DEF RelayLoad
    <3> QED
      BY <3>1 DEF SavePending, CopyFresh
  <2>3. CASE RelayClear
    BY <2>3 DEF RelayClear, SavePending, CopyFresh
  <2>4. CASE RelayCopy
    BY <2>4 DEF RelayCopy, SavePending, CopyFresh
  <2>5. CASE RelayLatch \/ RelayCheck \/ RelayWrite \/ RelayConsume \/ RelayOut1 \/ RelayOut2
    <3>1. ~RelayClear /\ ~ClockInit /\ ~Reset
      BY <2>5, <1>3, RelayStepAlone
         DEF RelayLatch, RelayCheck, RelayWrite, RelayConsume, RelayOut1, RelayOut2,
             RelayClear, ClockInit, ClockAt, ClockGoto, Reset
    <3>2. Armed => Armed'
      BY <3>1, ArmedStays
    <3>3. UNCHANGED <<mask, temp>>
      BY <2>5 DEF RelayLatch, RelayCheck, RelayWrite, RelayConsume, RelayOut1, RelayOut2
    <3>4. CASE RelayWrite
      BY <3>2, <3>3, <3>4 DEF RelayWrite, SavePending, CopyFresh, Loaded
    <3>5. CASE ~RelayWrite
      <4>1. UNCHANGED <<nvs, lost>>
        BY <2>5, <3>5 DEF RelayLatch, RelayCheck, RelayConsume, RelayOut1, RelayOut2
      <4>2. /\ relay \in {"latch", "check", "consume", "out1", "out2"}
            /\ relay' # "write"
        BY <2>5, <3>5 DEF RelayLatch, RelayCheck, RelayConsume, RelayOut1, RelayOut2
      <4> QED
        BY <3>2, <3>3, <4>1, <4>2 DEF SavePending, CopyFresh, Loaded
    <3> QED
      BY <3>4, <3>5
  <2> QED
    BY <1>3, <2>1, <2>2, <2>3, <2>4, <2>5 DEF RelayStep
<1>4. CASE ~Reset /\ ~ClockInit /\ ~RelayStep
  <2>1. ~RelayClear /\ ~RelayLoad
    BY <1>4 DEF RelayStep
  <2>2. Armed => Armed'
    BY <1>4, <2>1, ArmedStays
  <2>3. mask' = mask \/ Armed'
    BY <1>4, <2>1, ChangeIsArmed
  <2>4. /\ UNCHANGED <<temp, nvs>>
        /\ lost => lost'
        /\ relay' = relay \/ (relay = "sleep" /\ relay' = "latch")
    BY <1>4, OtherSteps
  <2> QED
    BY <2>2, <2>3, <2>4 DEF SavePending, CopyFresh, Loaded
<1> QED
  BY <1>1, <1>2, <1>3, <1>4

(* No change of the mask is forgotten: while it differs from flash, its    *)
(* save is armed, about to be armed, or under way, unless a flash error or *)
(* the clearing of the timers at boot has dropped it.                      *)
THEOREM NoChangeForgotten == Spec => []SavePending
<1>1. Init => SavePending /\ CopyFresh
  BY DEF Init, SavePending, CopyFresh, Loaded
<1> QED
  BY <1>1, PendingStep, TypeInvariant, PTL DEF Spec

-----------------------------------------------------------------------------
(* The pins.                                                               *)

(* One pin follows the mask (PinsFollowMask for pin i).                    *)
PinFollows(i) ==
    gpio[i] # Bit(mask, i) =>
        \/ refresh \/ key = "flag"
        \/ lastMask # mask
        \/ relay \in {"driver", "load", "out1"}
        \/ relay = "out2" /\ i = 2
        \/ undone

(* Before the mask is loaded nothing has been latched and the pins are low.*)
BootPins == ~Loaded => lastMask = 0 /\ gpio = AllLow

(* No task but relay_task writes the pins, the latch or, to clear it, the  *)
(* refresh bit.                                                            *)
LEMMA KeyStepPins ==
  KeyStep => \/ Reset
             \/ UNCHANGED <<lastMask, gpio, undone>> /\ (refresh' = refresh \/ refresh' = TRUE)
<1> SUFFICES ASSUME KeyStep, ~Reset
             PROVE  UNCHANGED <<lastMask, gpio, undone>> /\ (refresh' = refresh \/ refresh' = TRUE)
  OBVIOUS
<1> USE DEF ram, regs
<1>1. CASE KeyFirstScan \/ KeyIdle \/ KeyShortPress
  BY <1>1 DEF KeyFirstScan, KeyIdle, KeyShortPress
<1>2. CASE KeyLongPress \/ ToggleRead \/ ToggleStore
  BY <1>2 DEF KeyLongPress, ToggleRead, ToggleStore
<1>3. CASE ToggleFlag \/ KeyPost
  BY <1>3 DEF ToggleFlag, KeyPost
<1>4. CASE KeyArm
  BY <1>4 DEF KeyArm
<1> QED
  BY <1>1, <1>2, <1>3, <1>4 DEF KeyStep, KeyRestart

LEMMA OtherStepPins ==
  [Next]_vars => KeyStep \/ RelayStep \/ Reset \/ UNCHANGED <<lastMask, gpio, refresh>>
<1> SUFFICES ASSUME [Next]_vars, ~KeyStep, ~RelayStep, ~Reset
             PROVE  UNCHANGED <<lastMask, gpio, refresh>>
  OBVIOUS
<1> USE DEF ram, regs
<1>1. CASE UNCHANGED vars
  BY <1>1 DEF vars
<1>2. CASE Tick \/ KeyPosted \/ CommandArrives
  BY <1>2 DEF Tick, KeyPosted, CommandArrives
<1>3. CASE ParseStep
  BY <1>3 DEF ParseStep, ParseStore, ParseArm
<1>4. CASE ClockStep
  BY <1>4 DEF ClockStep, ClockInit, ClockTest, ClockLoad, ClockStore
<1> QED
  BY <1>1, <1>2, <1>3, <1>4 DEF Next, PowerLoss

LEMMA BootPinsStep == BootPins /\ [Next]_vars => BootPins'
<1> SUFFICES ASSUME BootPins, [Next]_vars PROVE BootPins'
  OBVIOUS
<1> USE DEF ram, regs
<1>1. CASE Reset
  BY <1>1 DEF Reset, BootPins
<1>2. CASE RelayStep
  <2>1. CASE RelayDriverInit
    BY <2>1 DEF RelayDriverInit, RelayAt, BootPins, Loaded
  <2>2. CASE ~RelayDriverInit
    BY <1>2, <2>2 DEF RelayStep, RelayLoad, RelayLatch, RelayCheck, RelayClear, RelayCopy,
                      RelayWrite, RelayConsume, RelayOut1, RelayOut2, RelayGoto, BootPins, Loaded
  <2> QED
    BY <2>1, <2>2
<1>3. CASE ~Reset /\ ~RelayStep
  <2>1. relay' = relay \/ (relay = "sleep" /\ relay' = "latch")
    BY <1>3, OtherSteps
  <2>2. UNCHANGED <<lastMask, gpio>>
    BY <1>3, KeyStepPins, OtherStepPins
  <2> QED
    BY <2>1, <2>2 DEF BootPins, Loaded
<1> QED
  BY <1>1, <1>2, <1>3

(* The induction step of the pins.                                         *)
LEMMA PinStep ==
  ASSUME TypeInv, BootPins, [Next]_vars, NEW i \in Pins, PinFollows(i)
  PROVE  PinFollows(i)'
<1> USE DEF ram, regs, RelayGoto, RelayAt
<1>1. CASE Reset
  BY <1>1 DEF Reset, PinFollows
<1>2. CASE KeyStep /\ ~Reset
  <2>1. UNCHANGED <<lastMask, gpio, undone>> /\ (refresh' = refresh \/ refresh' = TRUE)
    BY <1>2, KeyStepPins
  <2>2. UNCHANGED relay
    BY <1>2, KeyStepAlone
  <2>3. CASE ToggleStore
    BY <2>3 DEF ToggleStore, KeyGoto, PinFollows
  <2>4. CASE ToggleFlag
    BY <2>4 DEF ToggleFlag, PinFollows
  <2>5. CASE ~ToggleStore /\ ~ToggleFlag
    <3>1. UNCHANGED mask
      BY <1>2, <2>5
         DEF KeyStep, KeyFirstScan, KeyIdle, KeyShortPress, KeyLongPress,
             ToggleRead, KeyPost, KeyArm, KeyRestart
    <3>2. key # "flag"
      BY <1>2, <2>5
         DEF KeyStep, KeyFirstScan, KeyIdle, KeyShortPress, KeyLongPress,
             ToggleRead, KeyPost, KeyArm, KeyRestart, KeyAt
    <3> QED
      BY <2>1, <2>2, <3>1, <3>2 DEF PinFollows
  <2> QED
    BY <2>3, <2>4, <2>5
<1>3. CASE RelayStep
  <2>1. CASE RelayDriverInit
    BY <2>1 DEF RelayDriverInit, PinFollows
  <2>2. CASE RelayLoad
    <3>1. lastMask' = 0 /\ gpio' = AllLow
      BY <2>2 DEF RelayLoad, BootPins, Loaded
    <3>2. CASE mask' = 0
      <4>1. gpio'[i] = 0 /\ Bit(mask', i) = 0
        BY <3>1, <3>2, MaskHelpers DEF AllLow
      <4> QED
        BY <4>1 DEF PinFollows
    <3>3. CASE mask' # 0
      BY <3>1, <3>3 DEF PinFollows
    <3> QED
      BY <3>2, <3>3
  <2>3. CASE RelayLatch
    BY <2>3 DEF RelayLatch, PinFollows
  <2>4. CASE RelayCheck \/ RelayClear \/ RelayCopy \/ RelayWrite
    BY <2>4 DEF RelayCheck, RelayClear, RelayCopy, RelayWrite, PinFollows
  <2>5. CASE RelayConsume
    BY <2>5 DEF RelayConsume, PinFollows
  <2>6. CASE RelayOut1
    <3>1. gpio'[1] = Bit(mask, 1) /\ relay' = "out2" /\ UNCHANGED mask
      BY <2>6 DEF RelayOut1, TypeInv, TypeOK, Pins
    <3> QED
      BY <3>1 DEF PinFollows, Pins
  <2>7. CASE RelayOut2
    <3>1. /\ gpio'[2] = Bit(mask, 2) /\ gpio'[1] = gpio[1]
          /\ UNCHANGED <<mask, lastMask, refresh, key, undone>> /\ relay = "out2"
      BY <2>7 DEF RelayOut2, TypeInv, TypeOK, Pins
    <3> QED
      BY <3>1 DEF PinFollows, Pins
  <2> QED
    BY <1>3, <2>1, <2>2, <2>3, <2>4, <2>5, <2>6, <2>7 DEF RelayStep
<1>4. CASE ~Reset /\ ~KeyStep /\ ~RelayStep
  <2>1. UNCHANGED <<lastMask, gpio, refresh>>
    BY <1>4, OtherStepPins
  <2>2. relay' = relay \/ (relay = "sleep" /\ relay' = "latch")
    BY <1>4, OtherSteps
  <2>3. CASE ParseStore
    <3>1. relay = "sleep" /\ relay' = "sleep" /\ key' = key
      BY <2>3, LowRunsWhenRelaySleeps DEF ParseStore, ParseAt, ParseGoto
    <3>2. undone' = (undone \/ (mask # lastMask /\ mask' = lastMask))
      BY <2>3 DEF ParseStore
    <3> QED
      BY <2>1, <3>1, <3>2 DEF PinFollows
  <2>4. CASE ~ParseStore
    <3>1. UNCHANGED <<mask, undone>> /\ (key = "flag" => key' = "flag")
      <4>1. CASE Tick \/ KeyPosted \/ CommandArrives \/ UNCHANGED vars
        BY <4>1 DEF Tick, KeyPosted, KeyGoto, CommandArrives, ParseGoto, vars, pcs
      <4>2. CASE ParseArm
        BY <4>2 DEF ParseArm, ParseGoto
      <4>3. CASE ClockStep
        BY <4>3, ClockStepAlone DEF ClockStep, ClockInit, ClockTest, ClockLoad, ClockStore
      <4> QED
        BY <1>4, <2>4, <4>1, <4>2, <4>3 DEF Next, ParseStep, PowerLoss
    <3> QED
      BY <2>1, <2>2, <3>1 DEF PinFollows
  <2> QED
    BY <2>3, <2>4
<1> QED
  BY <1>1, <1>2, <1>3, <1>4

(* A pin that does not show the mask is about to, unless a command put the *)
(* latched mask back before relay_task had seen it change.                 *)
THEOREM PinsCatchUp == Spec => []PinsFollowMask
<1> DEFINE Inv == BootPins /\ \A i \in Pins : PinFollows(i)
<1>1. Init => Inv
  BY DEF Init, BootPins, PinFollows
<1>2. TypeInv /\ Inv /\ [Next]_vars => Inv'
  BY BootPinsStep, PinStep DEF Pins
<1>3. Inv => PinsFollowMask
  BY DEF PinsFollowMask, PinFollows
<1> QED
  BY <1>1, <1>2, <1>3, TypeInvariant, PTL DEF Spec

-----------------------------------------------------------------------------
(* The save implements DurableMask.                                        *)

LEMMA DurableInit == Init => Durable!Init
  BY DEF Init, Durable!Init, CurrentMask, SaveInProgress, Loaded

LEMMA DurableStep ==
  TypeInv /\ TypeInv' /\ [Next]_vars => [Durable!Next]_(Durable!vars)
<1> SUFFICES ASSUME TypeInv, TypeInv', [Next]_vars
             PROVE  Durable!Next \/ UNCHANGED <<CurrentMask, SaveInProgress, nvs, lost>>
  BY DEF Durable!vars
<1> USE DEF ram, regs, RelayGoto, RelayAt
<1>a. mask \in Nat /\ mask' \in Nat /\ temp \in Nat /\ NoBlob \notin Nat
  BY NoBlobAssumption DEF TypeInv, TypeOK, Masks
<1>1. CASE Reset
  <2>1. Durable!Reset
    BY <1>1 DEF Reset, Durable!Reset, CurrentMask, SaveInProgress, Loaded
  <2> QED
    BY <2>1 DEF Durable!Next
<1>2. CASE RelayLoad
  <2>1. /\ relay = "load" /\ relay' = "latch"
        /\ \/ nvs # NoBlob /\ mask' = nvs /\ nvs' = nvs /\ lost' = lost
           \/ nvs = NoBlob /\ nvs' = mask /\ mask' = mask /\ lost' = lost
           \/ nvs' \in {nvs, mask} /\ lost' = TRUE /\ mask' = mask
    BY <1>2 DEF RelayLoad
  <2>2. /\ SaveInProgress = NoBlob /\ SaveInProgress' = NoBlob
        /\ CurrentMask = NoBlob /\ CurrentMask' = mask'
    BY <2>1 DEF SaveInProgress, CurrentMask, Loaded
  <2>3. CASE nvs # NoBlob /\ mask' = nvs /\ nvs' = nvs /\ lost' = lost
    BY <2>2, <2>3 DEF Durable!Next, Durable!Restore
  <2>4. CASE nvs = NoBlob /\ nvs' = mask /\ mask' = mask /\ lost' = lost
    BY <1>a, <2>2, <2>4 DEF Durable!Next, Durable!Create
  <2>5. CASE nvs' \in {nvs, mask} /\ lost' = TRUE /\ mask' = mask
    BY <1>a, <2>2, <2>5 DEF Durable!Next, Durable!Unread
  <2> QED
    BY <2>1, <2>3, <2>4, <2>5
<1>3. CASE RelayCopy
  <2>1. /\ relay = "copy" /\ relay' = "write" /\ temp' = mask
        /\ UNCHANGED <<mask, nvs, lost>>
    BY <1>3 DEF RelayCopy
  <2>2. /\ SaveInProgress = NoBlob /\ SaveInProgress' = mask
        /\ CurrentMask = mask /\ CurrentMask' = mask
    BY <2>1 DEF SaveInProgress, CurrentMask, Loaded
  <2> QED
    BY <1>a, <2>1, <2>2 DEF Durable!Next, Durable!Snapshot
<1>4. CASE RelayWrite
  <2>1. /\ relay = "write" /\ relay' = "consume" /\ UNCHANGED mask
        /\ \/ nvs' = temp /\ lost' = FALSE
           \/ nvs' = nvs /\ lost' = TRUE
    BY <1>4 DEF RelayWrite
  <2>2. SaveInProgress = temp /\ SaveInProgress' = NoBlob /\ temp # NoBlob
    BY <1>a, <2>1 DEF SaveInProgress
  <2>3. CurrentMask' = CurrentMask
    BY <2>1 DEF CurrentMask, Loaded
  <2> QED
    BY <2>1, <2>2, <2>3 DEF Durable!Next, Durable!Commit, Durable!Abandon
<1>5. CASE ~Reset /\ ~RelayLoad /\ ~RelayCopy /\ ~RelayWrite
  <2>1. /\ UNCHANGED <<nvs, temp>>
        /\ relay = "write" <=> relay' = "write"
        /\ Loaded <=> Loaded'
    <3>1. CASE RelayStep
      BY <1>5, <3>1 DEF RelayStep, RelayDriverInit, RelayLatch, RelayCheck, RelayClear,
                        RelayConsume, RelayOut1, RelayOut2, Loaded
    <3>2. CASE ~RelayStep
      BY <1>5, <3>2, OtherSteps DEF Loaded
    <3> QED
      BY <3>1, <3>2
  <2>2. UNCHANGED SaveInProgress
    BY <2>1 DEF SaveInProgress
  <2>3. CASE ClockInit
    <3>1. /\ relay = "sleep" /\ UNCHANGED mask
          /\ (lost' = lost \/ lost' = TRUE)
      BY <2>3, LowRunsWhenRelaySleeps, ClockStepAlone DEF ClockInit, ClockStep, ClockAt, TypeInv, TypeOK
    <3>2. CurrentMask = mask /\ CurrentMask' = CurrentMask
      BY <2>1, <3>1 DEF CurrentMask, Loaded
    <3> QED
      BY <1>a, <2>1, <2>2, <3>1, <3>2 DEF Durable!Next, Durable!Drop
  <2>4. CASE ~ClockInit
    <3>1. UNCHANGED lost
      BY <1>5, <2>4 DEF Next, Tick, KeyStep, KeyPosted, RelayStep, ClockStep,
         CommandArrives, ParseStep, PowerLoss, vars,
         KeyFirstScan, KeyIdle, KeyShortPress, KeyLongPress, ToggleRead, ToggleStore,
         ToggleFlag, KeyPost, KeyArm, KeyRestart, RelayDriverInit, RelayLatch,
         RelayCheck, RelayClear, RelayConsume, RelayOut1, RelayOut2,
         ClockTest, ClockLoad, ClockStore, ParseStore, ParseArm
    <3>2. CASE Loaded
      BY <1>a, <2>1, <2>2, <3>1, <3>2 DEF Durable!Next, Durable!Change, CurrentMask
    <3>3. CASE ~Loaded
      BY <2>1, <2>2, <3>1, <3>3 DEF CurrentMask
    <3> QED
      BY <3>2, <3>3
  <2> QED
    BY <2>3, <2>4
<1> QED
  BY <1>1, <1>2, <1>3, <1>4, <1>5

(* The delayed save keeps the promise of DurableMask: unless a flash call  *)
(* fails the device comes up with the mask in flash, and flash only ever   *)
(* takes a mask the device had when the save began.                        *)
THEOREM SaveImplementsDurableMask == Spec => ImplementsDurableMask
  BY DurableInit, DurableStep, TypeInvariant, PTL
     DEF Spec, ImplementsDurableMask, Durable!Spec
=============================================================================
