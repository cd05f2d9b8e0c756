----------------------------- MODULE StatusLed ------------------------------
(***************************************************************************)
(* What the LED tells of the connection: LedStrobe, with its speed set by  *)
(* event_handler, SmartConfig and the MQTT callback as MqttSession has     *)
(* them.  Each of them calls set_led_strobe in the step that says so;      *)
(* led_task scans between any two steps.                                   *)
(***************************************************************************)
EXTENDS LedStrobe

VARIABLES
    good, wifi, netif, smart, events, losing,           \* of MqttSession
    client, tcp, sub, isConnect2Server, led,
    station  \* off, started, or connecting or in SmartConfig and after it

Session == INSTANCE MqttSession

svars == <<good, wifi, netif, smart, events, losing, client, tcp, sub, isConnect2Server, led>>
avars == <<vars, svars, station>>

Speed == [disable |-> 0, fast |-> 1, medium |-> 2, slow |-> 3]

StatusInit == Init /\ Session!Init /\ station = "off"

-----------------------------------------------------------------------------
(* SYSTEM_EVENT_STA_START.                                                 *)
StaStart ==
    /\ station = "off" /\ station' = "started"
    /\ SetStrobe(Speed["medium"]) /\ UNCHANGED svars

(* TaskSmartConfigAirKiss2Net connects with what is stored, or sets the    *)
(* fast strobe and starts SmartConfig: what follows is the session.        *)
StaConnect ==
    /\ station = "started" /\ station' = "up"
    /\ SetStrobe(Speed[led]) /\ UNCHANGED svars

SessionStep ==
    /\ station = "up" /\ Session!Next
    /\ SetStrobe(Speed[led']) /\ UNCHANGED station

(* led_task sleeps one tick and has the highest priority: it scans on.     *)
LedScan == Scan /\ UNCHANGED <<svars, station>>

StatusNext == StaStart \/ StaConnect \/ SessionStep \/ LedScan

(* That of the session; the LED is scanned on, the station is started.     *)
StatusFairness ==
    /\ WF_avars(StaStart \/ StaConnect) /\ WF_avars(LedScan)
    /\ Session!Fairness

StatusSpec     == StatusInit /\ [][StatusNext]_avars
StatusFairSpec == StatusSpec /\ StatusFairness

-----------------------------------------------------------------------------
SessionTypeOK == Session!TypeOK /\ station \in {"off", "started", "up"}

(* What another task is told of the connection: see MqttSession.           *)
ReportsOnlyWhileConnected == Session!ReportsOnlyWhileConnected

(* The queue of the event loop stays short: see MqttSession.               *)
EventsBounded == Session!EventsBounded

(* A network that stays good from some time on is enough for the switch,   *)
(* once SmartConfig is over, to reach its server for good, and, if the     *)
(* subscription was written, to light its LED and keep it lit: no event of *)
(* an earlier link takes back what a later one has achieved, and no half   *)
(* period of a strobe is left.                                             *)
ReachesServer ==
    <>[](good /\ smart = "off")
    => <>[](isConnect2Server /\ (sub = "none" \/ (sub = "done" /\ level = 0)))

(* When the access point is gone for good the LED blinks on and on, even   *)
(* though the answer to a subscription may turn it steady after the loss.  *)
BlinksWithoutWifi == <>[](wifi # "linked") => []<>(level = 0) /\ []<>(level = 1)
=============================================================================
