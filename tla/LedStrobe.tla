----------------------------- MODULE LedStrobe ------------------------------
(***************************************************************************)
(* The status LED: led_task scans every 10 ms, other tasks choose a speed  *)
(* with set_led_strobe.  Those tasks (the event loop, MQTT, SmartConfig)   *)
(* have lower priorities than led_task: none runs in the middle of a scan, *)
(* and a scan is one step.                                                 *)
(***************************************************************************)
EXTENDS Integers

CONSTANT Period  \* ledStrobeArr: scans between two changes, for each speed

Speeds == 0..3   \* LED_STROBE_DISABLE, _FAST, _MEDIUM, _SLOW

ASSUME PeriodAssumption == Period \in [Speeds -> 0..255] /\ Period[0] = 0

VARIABLES
    StrobeSpeed, LedState,                \* LedParameters_st
    timerCnt, revFlag, lastStrobeSpeed,   \* statics of led_dispatch
    lastLedState,                         \* static of led_driver
    level,                                \* of GPIO 4: low lights the LED
    still                                 \* history: scans at this speed since the last change

vars == <<StrobeSpeed, LedState, timerCnt, revFlag, lastStrobeSpeed, lastLedState,
          level, still>>

Init ==
    /\ StrobeSpeed = 0 /\ LedState = "off"
    /\ timerCnt = 0 /\ revFlag = FALSE /\ lastStrobeSpeed = 0
    /\ lastLedState = "off" /\ level = 0
    /\ still = 0

(* set_led_strobe.                                                         *)
SetStrobe(speed) ==
    /\ StrobeSpeed' = speed
    /\ still' = IF speed = StrobeSpeed THEN still ELSE 0
    /\ UNCHANGED <<LedState, timerCnt, revFlag, lastStrobeSpeed, lastLedState, level>>

-----------------------------------------------------------------------------
(* led_dispatch.                                                           *)

\* Mutant: a new speed keeps the time left at the old one.
KeptTimer == timerCnt

(* A new speed shortens the time left to its own period, never extends it. *)
CurrentTimer ==
    IF lastStrobeSpeed # StrobeSpeed /\ timerCnt > Period[StrobeSpeed]
    THEN Period[StrobeSpeed] ELSE timerCnt

\* Mutant: the state is left as the strobe had it.
SteadyAsItWas ==
    /\ Period[StrobeSpeed] = 0
    /\ LedState' = LedState
    /\ UNCHANGED <<timerCnt, revFlag, lastStrobeSpeed, still>>

Steady ==
    /\ Period[StrobeSpeed] = 0
    /\ LedState' = "on"
    /\ UNCHANGED <<timerCnt, revFlag, lastStrobeSpeed, still>>

Change ==
    /\ Period[StrobeSpeed] # 0 /\ CurrentTimer = 0
    /\ revFlag' = ~revFlag /\ timerCnt' = Period[StrobeSpeed]
    /\ lastStrobeSpeed' = StrobeSpeed
    /\ LedState' = IF revFlag' THEN "on" ELSE "off"
    /\ still' = 0

\* Mutant: the timer is decremented whatever it is.
StayPastZero ==
    /\ Period[StrobeSpeed] # 0
    /\ timerCnt' = CurrentTimer - 1 /\ revFlag' = revFlag
    /\ lastStrobeSpeed' = StrobeSpeed
    /\ LedState' = IF revFlag THEN "on" ELSE "off"
    /\ still' = still + 1

Stay ==
    /\ Period[StrobeSpeed] # 0 /\ CurrentTimer # 0
    /\ timerCnt' = CurrentTimer - 1 /\ revFlag' = revFlag
    /\ lastStrobeSpeed' = StrobeSpeed
    /\ LedState' = IF revFlag THEN "on" ELSE "off"
    /\ still' = still + 1

(* led_driver writes the pin only when the state is not the one it wrote.  *)
Drive ==
    /\ lastLedState' = LedState'
    /\ level' = IF LedState' = lastLedState THEN level
                ELSE IF LedState' = "on" THEN 0 ELSE 1

Scan == (Steady \/ Change \/ Stay) /\ Drive /\ UNCHANGED StrobeSpeed

Next == Scan \/ \E speed \in Speeds : SetStrobe(speed)

Spec == Init /\ [][Next]_vars

-----------------------------------------------------------------------------
TypeOK ==
    /\ StrobeSpeed \in Speeds /\ lastStrobeSpeed \in Speeds
    /\ LedState \in {"on", "off"} /\ lastLedState \in {"on", "off"}
    /\ timerCnt \in 0..255 /\ still \in Nat
    /\ revFlag \in BOOLEAN
    /\ level \in {0, 1}

(* The LED changes in time: at no moment has it kept its state for more    *)
(* scans at the current speed than the period of this speed, whatever was  *)
(* left of a slower one when the speed was changed.                        *)
BlinksInTime ==
    Period[StrobeSpeed] # 0 => still + CurrentTimer <= Period[StrobeSpeed]
=============================================================================
