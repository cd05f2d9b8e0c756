----------------------------- MODULE MqttSession ----------------------------
(***************************************************************************)
(* How the switch gets to its server and back to it: the station, the      *)
(* event task that runs event_handler, the MQTT client, and what they tell *)
(* the others: isConnect2Server and the strobe of the LED.                 *)
(*                                                                         *)
(* The event task (priority 10), the MQTT task (5) and the one SmartConfig *)
(* calls back in interleave freely here, though the first outranks the     *)
(* second: it may block in the calls it makes, and each event reaches it   *)
(* as two queue items.  Nothing of this outlives a restart, which is Init  *)
(* again.  The tasks, the queue and the client are assumed to find the     *)
(* memory they are created in.                                             *)
(***************************************************************************)
EXTENDS Integers, Sequences

VARIABLES
    good,    \* the access point and the server can be reached
    wifi,    \* the station: idle, trying to connect, linked
    netif,   \* its interface: down, waiting for DHCP, with an address
    events,  \* the queue of the event loop
    losing,  \* event_handler is inside esp_wifi_connect
    smart,   \* SmartConfig: off, listening, between the two calls to the
             \* driver its callback makes, waiting for the link to come up
    client,  \* where the MQTT client is
    tcp,     \* its connection: none, open, dead
    sub,     \* its subscription: none, sent, acked by the server, done
    isConnect2Server,
    led      \* the strobe asked for

network == <<good, wifi, netif, smart>>
session == <<client, tcp, sub>>
shown   == <<isConnect2Server, led>>
vars    == <<network, events, losing, session, shown>>

-----------------------------------------------------------------------------
(* TaskSmartConfigAirKiss2Net has called esp_wifi_connect with the stored  *)
(* credentials, or has set the fast strobe and started SmartConfig.        *)
Init ==
    /\ good \in BOOLEAN /\ netif = "down"
    /\ \/ wifi = "trying" /\ smart = "off"    /\ led = "medium"
       \/ wifi = "idle"   /\ smart = "listen" /\ led = "fast"
    /\ events = <<>> /\ losing = FALSE
    /\ client = "none" /\ tcp = "none" /\ sub = "none"
    /\ isConnect2Server = FALSE

-----------------------------------------------------------------------------
(* The air, the WiFi driver and DHCP.                                      *)

NetworkChanges ==
    /\ good' = ~good
    /\ UNCHANGED <<wifi, netif, smart, events, losing, session, shown>>

Link ==
    /\ wifi = "trying" /\ good
    /\ wifi' = "linked" /\ events' = Append(events, "connected")
    /\ UNCHANGED <<good, netif, smart, losing, session, shown>>

(* STA_DISCONNECTED goes to the handler of the SDK, then to the program's. *)
Unlinked == wifi' = "idle" /\ events' = events \o <<"down", "lost">>

LinkFails ==
    /\ wifi = "trying" /\ ~good
    /\ Unlinked
    /\ UNCHANGED <<good, netif, smart, losing, session, shown>>

LinkLost ==
    /\ wifi = "linked" /\ ~good
    /\ Unlinked
    /\ UNCHANGED <<good, netif, smart, losing, session, shown>>

DhcpDone ==
    /\ wifi = "linked" /\ netif = "dhcp" /\ good
    /\ netif' = "ip" /\ events' = Append(events, "got_ip")
    /\ UNCHANGED <<good, wifi, smart, losing, session, shown>>

-----------------------------------------------------------------------------
(* SmartConfig.  At each SC_STATUS_LINK sc_callback disconnects the        *)
(* station ...                                                             *)

SmartDisconnect ==
    /\ smart = "listen" /\ smart' = "apply"
    /\ IF wifi = "idle" THEN UNCHANGED <<wifi, events>> ELSE Unlinked
    /\ UNCHANGED <<good, netif, losing, session, shown>>

(* ... and connects it with what it was given: event_handler will connect  *)
(* it once more for the link that was cut, or has just done so.            *)
SmartConnect ==
    /\ smart = "apply" /\ smart' = "linking"
    /\ wifi' = IF wifi = "idle" THEN "trying" ELSE wifi
    /\ UNCHANGED <<good, netif, events, losing, session, shown>>

(* A link that does not come up makes the library listen again, and cut    *)
(* it if it likes.  That takes it tens of seconds: the event task has had  *)
(* an empty queue since the last SC_STATUS_LINK.                           *)
SmartTimeout ==
    /\ smart = "linking" /\ smart' = "listen"
    /\ events = <<>>
    /\ UNCHANGED <<wifi, events>> \/ (wifi # "idle" /\ Unlinked)
    /\ UNCHANGED <<good, netif, losing, session, shown>>

(* SC_STATUS_LINK_OVER, once there is an address to tell the phone: the    *)
(* task stops SmartConfig.                                                 *)
SmartOver ==
    /\ smart = "linking" /\ netif = "ip" /\ smart' = "off"
    /\ UNCHANGED <<good, wifi, netif, events, losing, session, shown>>

-----------------------------------------------------------------------------
(* The event task.                                                         *)

Handle(e) == events # <<>> /\ Head(events) = e

EventConnected ==
    /\ Handle("connected")
    /\ netif' = "dhcp" /\ events' = Tail(events)
    /\ UNCHANGED <<good, wifi, smart, losing, session, shown>>

(* tcpip_adapter_down takes the address away, and lwIP aborts what is      *)
(* bound to it.                                                            *)
EventDown ==
    /\ Handle("down")
    /\ netif' = "down" /\ events' = Tail(events)
    /\ tcp' = IF tcp = "open" THEN "dead" ELSE tcp
    /\ UNCHANGED <<good, wifi, smart, losing, client, sub, shown>>

(* SYSTEM_EVENT_STA_GOT_IP: the first one creates the task that starts the *)
(* client; after that esp_mqtt_client_start finds it started and fails.    *)
EventGotIp ==
    /\ Handle("got_ip")
    /\ client' = IF client = "none" THEN "created" ELSE client
    /\ events' = Tail(events)
    /\ UNCHANGED <<network, losing, tcp, sub, shown>>

(* SYSTEM_EVENT_STA_DISCONNECTED, the call ...                             *)
EventLost ==
    /\ Handle("lost") /\ ~losing
    /\ wifi' = IF wifi = "idle" THEN "trying" ELSE wifi
    /\ losing' = TRUE
    /\ UNCHANGED <<good, netif, smart, events, session, shown>>

\* Mutant: the LED is set only when the server was connected.
LostIfConnected ==
    /\ losing
    /\ led' = IF isConnect2Server THEN "medium" ELSE led
    /\ isConnect2Server' = FALSE
    /\ losing' = FALSE /\ events' = Tail(events)
    /\ UNCHANGED <<network, session>>

\* Mutant: the handler connects once more before it returns.
LostConnectAgain ==
    /\ losing
    /\ led' = "medium" /\ isConnect2Server' = FALSE
    /\ wifi' = IF wifi = "idle" THEN "trying" ELSE wifi
    /\ losing' = FALSE /\ events' = Tail(events)
    /\ UNCHANGED <<good, netif, smart, session>>

(* ... and what follows it.                                                *)
EventLostEnd ==
    /\ losing
    /\ led' = "medium" /\ isConnect2Server' = FALSE
    /\ losing' = FALSE /\ events' = Tail(events)
    /\ UNCHANGED <<network, session>>

-----------------------------------------------------------------------------
(* The MQTT client and MqttCloudsCallBack.                                 *)

MqttStart ==
    /\ client = "created" /\ client' = "init"
    /\ UNCHANGED <<network, events, losing, tcp, sub, shown>>

(* esp_mqtt_abort_connection closes the transport, then dispatches ...     *)
Abort ==
    /\ tcp' = "none" /\ sub' = "none" /\ client' = "aborting"
    /\ UNCHANGED <<network, events, losing, shown>>

\* Mutant: the callback ignores MQTT_EVENT_DISCONNECTED.
AbortUnnoticed ==
    /\ client = "aborting" /\ client' = "wait"
    /\ UNCHANGED <<network, events, losing, tcp, sub, shown>>

(* ... MQTT_EVENT_DISCONNECTED to the callback.                            *)
MqttAborted ==
    /\ client = "aborting" /\ client' = "wait"
    /\ isConnect2Server' = FALSE
    /\ UNCHANGED <<network, events, losing, tcp, sub, led>>

Reachable == good /\ netif = "ip"

MqttConnect ==
    /\ client = "init" /\ Reachable
    /\ client' = "subscribing" /\ tcp' = "open"
    /\ UNCHANGED <<network, events, losing, sub, shown>>

MqttCannotConnect == client = "init" /\ ~Reachable /\ Abort

(* MQTT_EVENT_CONNECTED: what esp_mqtt_client_subscribe returns is logged, *)
(* whatever it is; the write may fail on a connection that works.          *)
MqttSubscribe ==
    /\ client = "subscribing" /\ client' = "connected"
    /\ \/ tcp = "open" /\ sub' = "sent"
       \/ sub' = "none"
    /\ isConnect2Server' = TRUE
    /\ UNCHANGED <<network, events, losing, tcp, led>>

\* Mutant: the LED gets another strobe than the one that means steady.
SubscribedSlow ==
    /\ client = "connected" /\ sub = "acked"
    /\ sub' = "done" /\ led' = "slow"
    /\ UNCHANGED <<network, events, losing, client, tcp, isConnect2Server>>

(* MQTT_EVENT_SUBSCRIBED: the answer may have been read before the         *)
(* connection died.                                                        *)
MqttSubscribed ==
    /\ client = "connected" /\ sub = "acked"
    /\ sub' = "done" /\ led' = "disable"
    /\ UNCHANGED <<network, events, losing, client, tcp, isConnect2Server>>

(* A read fails, or the server does not answer a ping.                     *)
MqttFails ==
    /\ client = "connected" /\ (tcp = "dead" \/ ~good)
    /\ Abort

MqttWaited ==
    /\ client = "wait" /\ client' = "init"
    /\ UNCHANGED <<network, events, losing, tcp, sub, shown>>

-----------------------------------------------------------------------------
(* The server.                                                             *)

ServerAcks ==
    /\ sub = "sent" /\ tcp = "open" /\ good
    /\ sub' = "acked"
    /\ UNCHANGED <<network, events, losing, client, tcp, shown>>

ServerDrops ==
    /\ tcp = "open" /\ ~good
    /\ tcp' = "dead"
    /\ UNCHANGED <<network, events, losing, client, sub, shown>>

-----------------------------------------------------------------------------
Driver == Link \/ LinkFails \/ DhcpDone
Events == EventConnected \/ EventDown \/ EventGotIp \/ EventLost \/ EventLostEnd
Mqtt   == \/ MqttStart \/ MqttConnect \/ MqttCannotConnect \/ MqttSubscribe
          \/ MqttSubscribed \/ MqttFails \/ MqttAborted \/ MqttWaited
Smart  == SmartDisconnect \/ SmartConnect \/ SmartTimeout \/ SmartOver

Next == \/ NetworkChanges \/ Driver \/ LinkLost \/ Smart
        \/ Events \/ Mqtt \/ ServerAcks \/ ServerDrops

(* Every attempt of the driver ends, the tasks run, and the server answers *)
(* as long as it can be reached.                                           *)
Fairness == WF_vars(Driver) /\ WF_vars(Events) /\ WF_vars(Mqtt) /\ WF_vars(ServerAcks)

Spec == Init /\ [][Next]_vars

-----------------------------------------------------------------------------
TypeOK ==
    /\ good \in BOOLEAN /\ wifi \in {"idle", "trying", "linked"}
    /\ netif \in {"down", "dhcp", "ip"}
    /\ events \in Seq({"connected", "got_ip", "down", "lost"})
    /\ losing \in BOOLEAN /\ smart \in {"off", "listen", "apply", "linking"}
    /\ client \in {"none", "created", "init", "subscribing", "connected", "aborting", "wait"}
    /\ tcp \in {"none", "open", "dead"} /\ sub \in {"none", "sent", "acked", "done"}
    /\ isConnect2Server \in BOOLEAN /\ led \in {"fast", "medium", "disable"}

(* No other task reports, and so uses the buffer of the client, while it   *)
(* connects and subscribes: isConnect2Server allows a report only when the *)
(* client is past that, whatever WiFi does in the meantime.  (While it     *)
(* aborts the client itself refuses what the flag still allows.)           *)
ReportsOnlyWhileConnected == isConnect2Server => client \in {"connected", "aborting"}

(* The event loop never holds more than the events of two links, so that   *)
(* the driver, which waits for room in its queue of 32, is not held up.    *)
(* There are two requesters: event_handler asks for one connection for     *)
(* each one that was lost, and sc_callback for one more after it has cut   *)
(* a link itself, but each link uses up one request.                       *)
EventsBounded == Len(events) <= 8
=============================================================================
