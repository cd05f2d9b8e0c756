--------------------------- MODULE CommandChannel ---------------------------
(***************************************************************************)
(* From the server to the mask and back.  The MQTT task writes each        *)
(* message into the one buffer user_data and queues a pointer to it;       *)
(* Task_ParseJSON takes the pointer, parses the buffer, stores the mask of *)
(* a command and reports the mask; key_task toggles the mask and reports   *)
(* it too.  Reports and acknowledgements are built in one buffer of the    *)
(* MQTT client, which has no lock, and written from it.                    *)
(*                                                                         *)
(* Priorities are key_task 14, MQTT 5, Task_ParseJSON 3.  What a task does *)
(* between two points where it may block is a single step when no task of  *)
(* this module outranks it or when those that do touch nothing it uses.    *)
(* (RelayControl has the save timer and the pins, which this module leaves *)
(* out: nothing here reads them.)                                          *)
(***************************************************************************)
EXTENDS Integers

CONSTANTS
    Updates,      \* the masks that commands carry
    QueueLength,  \* of ParseJSONQueueHandler (5)
    None          \* no mask

ASSUME ChannelAssumption ==
    /\ Updates \subseteq Nat
    /\ QueueLength \in Nat /\ QueueLength >= 1
    /\ None \notin Nat

(* What a message is to Task_ParseJSON: AT_UP_DATA with a mask, AT____SYNC *)
(* (0 for its mask), or anything else, which it ignores, as it does the    *)
(* {"msg": 1} and {"msg": 0} that README.md documents.                     *)
Messages == [kind : {"update"}, mask : Updates]
                \cup [kind : {"sync"}, mask : {0}]
                \cup [kind : {"msg"}, mask : {0}]

VARIABLES
    mask,     \* EepromParameter_st.RelaySwitchMask
    buf,      \* user_data
    queued,   \* pointers to user_data in ParseJSONQueueHandler
    isConnect2Server,
    out,      \* the packet in the output buffer of the client: a mask, or None for an ack
    mqtt, mreg,         \* where the MQTT task is, the message it has read
    parse, preg, torn,  \* where the parser is, its mask; user_data has changed under it
    key,      \* where key_task is
    told,     \* history: the last mask the server was told
    missed,   \* history: a report was not sent, for want of a connection
    wanted,   \* history: the mask of the last command since the last press, or None
    toggled   \* history: a press came after the last message

device  == <<mask, buf, queued, isConnect2Server, out>>
history == <<told, missed, wanted, toggled>>
vars    == <<device, mqtt, mreg, parse, preg, torn, key, history>>

Ignored == [kind |-> "msg", mask |-> 0]

Init ==
    /\ mask = 0 /\ buf = Ignored /\ queued = 0 /\ isConnect2Server = FALSE /\ out = None
    /\ mqtt = "offline" /\ mreg = Ignored
    /\ parse = "wait" /\ preg = 0 /\ torn = FALSE
    /\ key = "scan"
    /\ told = None /\ missed = FALSE /\ wanted = None /\ toggled = FALSE

-----------------------------------------------------------------------------
(* Scheduling: neither key_task nor the MQTT task is ready to run.         *)
MqttReady == mqtt = "deliver" \/ (mqtt = "full" /\ queued < QueueLength)

(* What the server learns from a write: the output buffer as it is by now; *)
(* a write may also fail or time out.                                      *)
Written ==
    \/ told' = (IF out = None THEN told ELSE out) /\ missed' = missed
    \/ told' = told /\ missed' = TRUE

-----------------------------------------------------------------------------
(* The connection comes and goes: MqttCloudsCallBack notes it when the     *)
(* MQTT task connects or gives up, event_handler when WiFi is lost, which  *)
(* the MQTT task may not notice for some time.                             *)
Connect ==
    /\ mqtt = "offline"
    /\ mqtt' = "receive" /\ isConnect2Server' = TRUE
    /\ UNCHANGED <<mask, buf, queued, out, mreg, parse, preg, torn, key, history>>

Disconnect ==
    /\ mqtt = "receive"
    /\ mqtt' = "offline" /\ isConnect2Server' = FALSE
    /\ UNCHANGED <<mask, buf, queued, out, mreg, parse, preg, torn, key, history>>

WifiLost ==
    /\ isConnect2Server /\ isConnect2Server' = FALSE
    /\ UNCHANGED <<mask, buf, queued, out, mqtt, mreg, parse, preg, torn, key, history>>

-----------------------------------------------------------------------------
(* key_task: toggle_relay and post_data_to_clouds, up to the write of the  *)
(* report; nothing here outranks it.                                       *)

\* Mutant: the two relays are taken to be both on or both off.
ToggledBoth(m) == IF m % 4 # 0 THEN m - 3 ELSE m + 3

Toggled(m) == IF m % 4 # 0 THEN m - (m % 4) ELSE m + 3

KeyPress ==
    /\ key = "scan"
    /\ mask' = Toggled(mask) /\ wanted' = None /\ toggled' = TRUE
    /\ \/ /\ isConnect2Server
          /\ out' = mask' /\ key' = "write" /\ missed' = missed
       \/ /\ ~isConnect2Server
          /\ missed' = TRUE /\ UNCHANGED <<out, key>>
    /\ UNCHANGED <<buf, queued, isConnect2Server, mqtt, mreg, parse, preg, torn, told>>

KeyWritten ==
    /\ key = "write" /\ key' = "scan"
    /\ Written
    /\ UNCHANGED <<device, mqtt, mreg, parse, preg, torn, wanted, toggled>>

-----------------------------------------------------------------------------
(* The MQTT task: the client acknowledges a message of QoS 1, then         *)
(* dispatches it.  Only the first packet of a read is looked at: what the  *)
(* server has sent close behind it is dropped, and never a message here.   *)
(* (Messages are far shorter than the buffer of the client; one that TCP   *)
(* delivers in parts is dispatched in parts, which the parser drops.)      *)

MqttReceive ==
    /\ mqtt = "receive"
    /\ mreg' \in Messages
    /\ \/ out' = None /\ mqtt' = "ack"
       \/ out' = out  /\ mqtt' = "deliver"
    /\ UNCHANGED <<mask, buf, queued, isConnect2Server, parse, preg, torn, key, history>>

MqttAcked ==
    /\ mqtt = "ack" /\ mqtt' = "deliver"
    /\ Written
    /\ UNCHANGED <<device, mreg, parse, preg, torn, key, wanted, toggled>>

\* Mutant: the pointer is sent only to a parser that waits for one.
DeliverToIdle ==
    /\ mqtt = "deliver"
    /\ buf' = mreg
    /\ torn' = (parse = "reading")
    /\ IF queued < QueueLength
       THEN queued' = (IF parse = "wait" THEN queued + 1 ELSE queued) /\ mqtt' = "receive"
       ELSE queued' = queued /\ mqtt' = "full"
    /\ toggled' = FALSE
    /\ wanted' = IF mreg.kind = "update" THEN mreg.mask ELSE wanted
    /\ mreg' = Ignored
    /\ UNCHANGED <<mask, isConnect2Server, out, parse, preg, key, told, missed>>

(* MQTT_EVENT_DATA: the message is copied to user_data whatever is queued, *)
(* then the pointer is sent to the queue; a full queue blocks the task.    *)
MqttDeliver ==
    /\ mqtt = "deliver"
    /\ buf' = mreg
    /\ torn' = (parse = "reading")
    /\ IF queued < QueueLength
       THEN queued' = queued + 1 /\ mqtt' = "receive"
       ELSE queued' = queued /\ mqtt' = "full"
    /\ toggled' = FALSE
    /\ wanted' = IF mreg.kind = "update" THEN mreg.mask ELSE wanted
    /\ mreg' = Ignored
    /\ UNCHANGED <<mask, isConnect2Server, out, parse, preg, key, told, missed>>

MqttSend ==
    /\ mqtt = "full" /\ queued < QueueLength
    /\ queued' = queued + 1 /\ mqtt' = "receive"
    /\ UNCHANGED <<mask, buf, isConnect2Server, out, mreg, parse, preg, torn, key, history>>

-----------------------------------------------------------------------------
(* Task_ParseJSON, which the MQTT task and key_task preempt.               *)

ParseAt(l) == parse = l /\ ~MqttReady

ParseReceive ==
    /\ ParseAt("wait") /\ queued > 0
    /\ queued' = queued - 1 /\ parse' = "reading"
    /\ UNCHANGED <<mask, buf, isConnect2Server, out, mqtt, mreg, preg, torn, key, history>>

(* cJSON_Parse: a buffer that changed in the meantime may read as          *)
(* anything; what is not a command or a sync is dropped.                   *)
ParseRead ==
    /\ ParseAt("reading")
    /\ \E m \in IF torn THEN Messages ELSE {buf} :
          \/ m.kind = "update" /\ preg' = m.mask /\ parse' = "store"
          \/ m.kind = "sync"   /\ preg' = preg   /\ parse' = "post"
          \/ m.kind = "msg"    /\ preg' = preg   /\ parse' = "wait"
    /\ torn' = FALSE
    /\ UNCHANGED <<device, mqtt, mreg, key, history>>

ParseStore ==
    /\ ParseAt("store")
    /\ mask' = preg /\ preg' = 0 /\ parse' = "post"
    /\ UNCHANGED <<buf, queued, isConnect2Server, out, mqtt, mreg, torn, key, history>>

(* post_data_to_clouds: the mask is read, then the packet is built, if the *)
(* client still has its connection.                                        *)
ParsePost ==
    /\ ParseAt("post")
    /\ \/ /\ isConnect2Server
          /\ preg' = mask /\ parse' = "build" /\ missed' = missed
       \/ /\ ~isConnect2Server
          /\ preg' = preg /\ parse' = "wait" /\ missed' = TRUE
    /\ UNCHANGED <<device, mqtt, mreg, torn, key, told, wanted, toggled>>

ParseBuild ==
    /\ ParseAt("build")
    /\ preg' = 0
    /\ \/ mqtt # "offline" /\ out' = preg /\ parse' = "write" /\ missed' = missed
       \/ mqtt = "offline" /\ out' = out  /\ parse' = "wait"  /\ missed' = TRUE
    /\ UNCHANGED <<mask, buf, queued, isConnect2Server, mqtt, mreg, torn, key, told, wanted, toggled>>

\* Mutant: the parser does not return to the queue when a report was missed.
ParseWrittenOnce ==
    /\ parse = "write"
    /\ Written
    /\ parse' = IF missed' THEN "write" ELSE "wait"
    /\ UNCHANGED <<device, mqtt, mreg, preg, torn, key, wanted, toggled>>

ParseWritten ==
    /\ parse = "write" /\ parse' = "wait"
    /\ Written
    /\ UNCHANGED <<device, mqtt, mreg, preg, torn, key, wanted, toggled>>

-----------------------------------------------------------------------------
MqttStep  == MqttDeliver \/ MqttSend
ParseStep == ParseReceive \/ ParseRead \/ ParseStore \/ ParsePost \/ ParseBuild

Next == \/ Connect \/ Disconnect \/ WifiLost
        \/ KeyPress \/ KeyWritten
        \/ MqttReceive \/ MqttAcked \/ MqttStep
        \/ ParseStep \/ ParseWritten

(* Writes end, with an error if not with success.  The MQTT task runs      *)
(* whenever it is ready; the parser gets the processor again and again     *)
(* when it has something to do, since the tasks above it block.            *)
Fairness == /\ WF_vars(KeyWritten) /\ WF_vars(MqttAcked) /\ WF_vars(ParseWritten)
            /\ WF_vars(MqttStep) /\ SF_vars(ParseStep)

Spec     == Init /\ [][Next]_vars
FairSpec == Spec /\ Fairness

-----------------------------------------------------------------------------
TypeOK ==
    /\ mask \in Nat /\ preg \in Nat /\ queued \in 0..QueueLength
    /\ buf \in Messages /\ mreg \in Messages
    /\ isConnect2Server \in BOOLEAN /\ torn \in BOOLEAN
    /\ missed \in BOOLEAN /\ toggled \in BOOLEAN
    /\ out \in Nat \cup {None} /\ told \in Nat \cup {None} /\ wanted \in Nat \cup {None}
    /\ mqtt \in {"offline", "receive", "ack", "deliver", "full"}
    /\ parse \in {"wait", "reading", "store", "post", "build", "write"}
    /\ key \in {"scan", "write"}

(* Nothing is on its way from user_data to the mask.                       *)
Quiet == queued = 0 /\ mqtt # "full" /\ parse \notin {"reading", "store"}

(* The last message is never lost to the ones before it: a command that    *)
(* the client has dispatched (it was the first packet of its read) and     *)
(* that neither a message nor a press has followed is the mask once the    *)
(* queue has been worked off, although messages overwrite one buffer and   *)
(* the parser may read it while it changes.                                *)
LastCommandWins ==
    Quiet /\ buf.kind = "update" /\ ~toggled => mask = buf.mask

(* A full queue delays the MQTT task, it does not stop it: the parser      *)
(* makes room, whatever it reads and whether or not its reports get out.   *)
MqttGoesOn == mqtt = "full" ~> mqtt = "receive"

(* xMqtt.c:83 says that the data is sent to the queue: each command takes  *)
(* effect, whatever message follows it.                                    *)
CommandsTakeEffect == Quiet /\ wanted # None => mask = wanted

(* README.md:7 says that a press changes the lamp and reports its state to *)
(* the server: at rest the server has been told the mask as it is.         *)
AtRest == Quiet /\ parse = "wait" /\ key = "scan" /\ mqtt = "receive"
ServerKnowsMask == AtRest /\ ~missed /\ told # None => told = mask
=============================================================================
