------------------------------ MODULE KeyScan -------------------------------
(***************************************************************************)
(* The button: key_scan with its static counters, key_task that acts on    *)
(* what it reports, and the finger on a contact that bounces.              *)
(*                                                                         *)
(* A scan samples the level of the pin every 10 ms or later (a publish may *)
(* hold key_task for seconds).  There is no debouncing in the code; the    *)
(* contact is assumed to bounce for less than the time between two scans.  *)
(***************************************************************************)
EXTENDS Integers

CONSTANTS
    ShortTime,  \* a release before that many scans is a click (50)
    LongTime,   \* a release after more scans than that is a long click (300)
    HoldTime,   \* what LongKeyTimer is loaded with (300)
    RepeatTime  \* what it is loaded with after it has fired (5)

ASSUME TimesAssumption ==
    /\ ShortTime \in Nat /\ LongTime \in Nat
    /\ HoldTime \in Nat  /\ HoldTime >= 1
    /\ RepeatTime \in Nat

\* The code's own times: both long presses are judged at the same 300.
ASSUME SameLongAssumption == HoldTime <= LongTime

VARIABLES
    finger,       \* whether the finger is on the button
    bouncing,     \* the contact has bounced since the last scan
    keyShort,     \* what the last scan reported: pressed,
    keyLong,      \*   held,
    shortKey,     \*   clicked,
    longKey,      \*   released after a long press
    keyLongBuff,  \* the sample of the last scan
    LongKeyTimer,
    longKeyBuff,
    tmpReadData,
    task,         \* where key_task is
    wifi,         \* the credentials in flash: stored or erased
    toggles       \* history: presses reported since the finger came down

reports  == <<keyShort, keyLong, shortKey, longKey>>
counters == <<keyLongBuff, LongKeyTimer, longKeyBuff, tmpReadData>>
contact  == <<finger, bouncing>>
vars     == <<contact, reports, counters, task, wifi, toggles>>

-----------------------------------------------------------------------------
Init ==
    /\ finger \in {"up", "down"} /\ bouncing \in BOOLEAN
    /\ keyShort = 0 /\ keyLong = 0 /\ shortKey = 0 /\ longKey = 0
    /\ keyLongBuff = 0 /\ LongKeyTimer = 0 /\ longKeyBuff = 0 /\ tmpReadData = 0
    /\ task = "scan" /\ toggles = 0
    /\ wifi \in {"stored", "erased"}

(* A reset clears the statics; the contact and the flash are not affected. *)
Reset ==
    /\ keyShort' = 0 /\ keyLong' = 0 /\ shortKey' = 0 /\ longKey' = 0
    /\ keyLongBuff' = 0 /\ LongKeyTimer' = 0 /\ longKeyBuff' = 0 /\ tmpReadData' = 0
    /\ task' = "scan" /\ toggles' = 0
    /\ UNCHANGED <<contact, wifi>>

-----------------------------------------------------------------------------
(* The environment.                                                        *)

FingerDown ==
    /\ finger = "up"
    /\ finger' = "down" /\ bouncing' = TRUE /\ toggles' = 0
    /\ UNCHANGED <<reports, counters, task, wifi>>

FingerUp ==
    /\ finger = "down"
    /\ finger' = "up" /\ bouncing' = TRUE
    /\ UNCHANGED <<reports, counters, task, wifi, toggles>>

(* router_wifi_save_info, once the device has been given credentials.      *)
Provisioned ==
    /\ wifi' = "stored"
    /\ UNCHANGED <<contact, reports, counters, task, toggles>>

(* (A power loss while key_task waits to restart is the restart.)          *)
PowerLoss == task # "restart" /\ Reset

-----------------------------------------------------------------------------
(* key_scan.                                                               *)

(* key_driver: a pressed button is 1; a bouncing contact may read anything.*)
Samples == IF bouncing THEN {0, 1} ELSE IF finger = "down" THEN {1} ELSE {0}

\* Mutant: the level is reported, not the edge.
Level(readData) == keyShort' = readData

Edge(readData) == keyShort' = IF readData = 1 /\ keyLongBuff = 0 THEN 1 ELSE 0

\* Mutant: the timer is decremented before it is tested.
HoldOneEarly(readData) ==
    \/ /\ readData = 0
       /\ keyLong' = 0 /\ LongKeyTimer' = HoldTime
    \/ /\ readData = 1 /\ LongKeyTimer <= 1
       /\ keyLong' = 1 /\ LongKeyTimer' = RepeatTime
    \/ /\ readData = 1 /\ LongKeyTimer > 1
       /\ UNCHANGED keyLong /\ LongKeyTimer' = LongKeyTimer - 1

\* Mutant: the timer is decremented whatever it is.
HoldPastZero(readData) ==
    \/ /\ readData = 0
       /\ keyLong' = 0 /\ LongKeyTimer' = HoldTime
    \/ /\ readData = 1
       /\ UNCHANGED keyLong /\ LongKeyTimer' = LongKeyTimer - 1

Hold(readData) ==
    \/ /\ readData = 0
       /\ keyLong' = 0 /\ LongKeyTimer' = HoldTime
    \/ /\ readData = 1 /\ LongKeyTimer = 0
       /\ keyLong' = 1 /\ LongKeyTimer' = RepeatTime
    \/ /\ readData = 1 /\ LongKeyTimer # 0
       /\ UNCHANGED keyLong /\ LongKeyTimer' = LongKeyTimer - 1

(* How long the button was pressed, judged when it is released.            *)
Release(readData) ==
    \/ /\ readData = 1
       /\ longKeyBuff' = longKeyBuff + 1 /\ tmpReadData' = 1
       /\ shortKey' = 0 /\ longKey' = 0
    \/ /\ readData = 0
       /\ longKeyBuff' = 0 /\ tmpReadData' = 0
       /\ \/ /\ longKeyBuff < ShortTime
             /\ shortKey' = tmpReadData /\ UNCHANGED longKey
          \/ /\ longKeyBuff >= ShortTime /\ longKeyBuff > LongTime
             /\ longKey' = tmpReadData /\ UNCHANGED shortKey
          \/ /\ longKeyBuff >= ShortTime /\ longKeyBuff <= LongTime
             /\ shortKey' = 0 /\ longKey' = 0

Scan ==
    /\ task = "scan"
    /\ \E readData \in Samples :
          /\ Edge(readData) /\ keyLongBuff' = readData
          /\ Hold(readData)
          /\ Release(readData)
    /\ toggles' = toggles + keyShort'
    /\ task' = IF keyShort' = 1 THEN "press" ELSE IF keyLong' = 1 THEN "long" ELSE "scan"
    /\ bouncing' = FALSE
    /\ UNCHANGED <<finger, wifi>>

-----------------------------------------------------------------------------
(* key_task, on what the scan reports: RelayControl models what a press    *)
(* does to the relays.  A click and a long click are only logged.          *)

Press ==
    /\ task = "press"
    /\ task' = IF keyLong = 1 THEN "long" ELSE "scan"
    /\ UNCHANGED <<contact, reports, counters, wifi, toggles>>

(* router_wifi_clean_info, which may fail; then the delay of 2.5 s.        *)
LongPress ==
    /\ task = "long"
    /\ task' = "restart"
    /\ wifi' \in {wifi, "erased"}
    /\ UNCHANGED <<contact, reports, counters, toggles>>

\* Mutant: the device restarts only if the credentials are gone.
RestartWhenErased == task = "restart" /\ wifi = "erased" /\ Reset

Restart == task = "restart" /\ Reset

KeyTask == Scan \/ Press \/ LongPress \/ Restart

Next == FingerDown \/ FingerUp \/ Provisioned \/ PowerLoss \/ KeyTask

(* key_task sleeps between scans and has the highest priority: it runs on. *)
Spec     == Init /\ [][Next]_vars
FairSpec == Spec /\ WF_vars(KeyTask)

-----------------------------------------------------------------------------
Bits == {0, 1}

TypeOK ==
    /\ finger \in {"up", "down"} /\ bouncing \in BOOLEAN
    /\ keyShort \in Bits /\ keyLong \in Bits /\ shortKey \in Bits /\ longKey \in Bits
    /\ keyLongBuff \in Bits /\ tmpReadData \in Bits
    /\ LongKeyTimer \in Nat /\ longKeyBuff \in Nat /\ toggles \in Nat
    /\ task \in {"scan", "press", "long", "restart"}
    /\ wifi \in {"stored", "erased"}

(* A press of the finger toggles the relays at most once between restarts, *)
(* however the contact bounces when it comes down and when it is released. *)
OneTogglePerPress == toggles <= 1

(* The two counters of key_scan and its two copies of the sample report    *)
(* what Button says of the length of a press; in particular the branch of  *)
(* the long click is never taken, and a press is a hold only at boot.      *)
Reports == {e \in {"press", "hold", "click", "long click"} :
               \/ e = "press" /\ keyShort = 1
               \/ e = "hold"  /\ keyLong = 1
               \/ e = "click" /\ shortKey = 1
               \/ e = "long click" /\ longKey = 1}

B == INSTANCE Button
         WITH boot   <- LongKeyTimer = 0 /\ longKeyBuff = 0,
              down   <- longKeyBuff,
              events <- Reports

ImplementsButton == B!Spec

(* A finger that stays on the button restarts the device again and again,  *)
(* unless the power keeps failing: each new first scan finds a hold.       *)
HoldRestarts ==
    <>[](finger = "down") /\ <>[][~PowerLoss]_vars => []<><<Restart>>_vars

(* README.md:8 says that a long press makes the device enter provisioning  *)
(* mode: the credentials are erased only for a press as long as that.      *)
ErasedOnlyByLongPress ==
    [][wifi = "stored" /\ wifi' = "erased" => longKeyBuff > LongTime]_vars
=============================================================================
