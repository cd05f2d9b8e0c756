----------------------- MODULE CommandChannel_proofs ------------------------
(***************************************************************************)
(* Proofs about CommandChannel, for every set of commands and every length *)
(* of the queue.                                                           *)
(***************************************************************************)
EXTENDS CommandChannel, TLAPS

(* A command in user_data that no press has followed is on its way to the  *)
(* mask, or has arrived: a pointer is queued or about to be, or the parser *)
(* is reading it undisturbed, or holds its mask, or has stored it.         *)
OnItsWay ==
    \/ queued > 0
    \/ mqtt = "full"
    \/ parse = "reading" /\ torn = FALSE
    \/ parse = "store" /\ preg = buf.mask
    \/ parse # "store" /\ mask = buf.mask

(* A buffer that changed under the parser will be read again.              *)
ReadAgain == torn = TRUE => parse = "reading" /\ (queued > 0 \/ mqtt = "full")

InFlight == buf.kind = "update" /\ toggled = FALSE => OnItsWay

(* The types that the argument needs.                                      *)
DataOK == queued \in Nat /\ torn \in BOOLEAN /\ toggled \in BOOLEAN

(* The initial state satisfies the invariant.                              *)
LEMMA InitFlight == Init => DataOK /\ ReadAgain /\ InFlight
<1> SUFFICES ASSUME Init PROVE DataOK /\ ReadAgain /\ InFlight
  OBVIOUS
<1>1. queued \in Nat
  BY DEF Init
<1>2. torn = FALSE /\ toggled = FALSE /\ buf.kind = "msg"
  BY DEF Init, Ignored
<1> QED BY <1>1, <1>2 DEF DataOK, ReadAgain, InFlight

(* The queue length is a positive number.                                  *)
LEMMA Lengths == QueueLength \in Nat /\ QueueLength >= 1
BY ChannelAssumption

(* Every step keeps the types.                                             *)
LEMMA DataStep == DataOK /\ [Next]_vars => DataOK'
<1> SUFFICES ASSUME DataOK, [Next]_vars PROVE DataOK'
  OBVIOUS
<1> USE Lengths DEF DataOK, device, history
<1>1. CASE MqttDeliver
  <2>1. queued' \in Nat
    BY <1>1 DEF MqttDeliver
  <2>2. torn' \in BOOLEAN /\ toggled' \in BOOLEAN
    BY <1>1 DEF MqttDeliver
  <2> QED BY <2>1, <2>2
<1>2. CASE MqttSend BY <1>2 DEF MqttSend
<1>3. CASE ParseReceive BY <1>3 DEF ParseReceive
<1>4. CASE ParseRead BY <1>4 DEF ParseRead
<1>5. CASE KeyPress BY <1>5 DEF KeyPress
<1>6. CASE Connect \/ Disconnect \/ WifiLost \/ KeyWritten \/ MqttReceive \/ MqttAcked
  BY <1>6 DEF Connect, Disconnect, WifiLost, KeyWritten, MqttReceive, MqttAcked
<1>7. CASE ParseStore \/ ParsePost \/ ParseBuild \/ ParseWritten
  BY <1>7 DEF ParseStore, ParsePost, ParseBuild, ParseWritten
<1>8. CASE UNCHANGED vars
  BY <1>8 DEF vars
<1> QED
  BY <1>1, <1>2, <1>3, <1>4, <1>5, <1>6, <1>7, <1>8 DEF Next, MqttStep, ParseStep

(* Every step of the MQTT task leaves a pointer queued, or itself waiting  *)
(* to queue one, after it has written user_data.                           *)
LEMMA MqttFlight ==
    ASSUME DataOK, ReadAgain, InFlight, MqttStep
    PROVE  ReadAgain' /\ InFlight'
<1> USE DEF DataOK, ReadAgain, InFlight, OnItsWay
<1>1. queued' > 0 \/ mqtt' = "full"
  <2>1. CASE MqttDeliver
    <3>1. queued' = queued + 1 \/ mqtt' = "full"
      BY <2>1, Zenon DEF MqttDeliver
    <3> QED BY <3>1
  <2>2. CASE MqttSend BY <2>2 DEF MqttSend
  <2> QED BY <2>1, <2>2 DEF MqttStep
<1>2. torn' = TRUE => parse' = "reading"
  <2>1. CASE MqttDeliver BY <2>1 DEF MqttDeliver
  <2>2. CASE MqttSend BY <2>2 DEF MqttSend
  <2> QED BY <2>1, <2>2 DEF MqttStep
<1> QED BY <1>1, <1>2

(* The parser's steps pass the command on, from the queue to the mask.     *)
LEMMA ParseFlight ==
    ASSUME DataOK, ReadAgain, InFlight, ParseStep \/ ParseWritten
    PROVE  ReadAgain' /\ InFlight'
<1> USE DEF DataOK, ReadAgain, InFlight, OnItsWay, history, device
<1>1. CASE ParseReceive
  <2>1. parse = "wait" /\ parse' = "reading" /\ torn' = torn
    BY <1>1 DEF ParseReceive, ParseAt
  <2>2. torn' = FALSE
    BY <2>1
  <2> QED BY <2>1, <2>2
<1>2. CASE ParseRead
  <2>1. torn' = FALSE /\ UNCHANGED <<mask, buf, queued, mqtt, toggled>> /\ parse = "reading"
    BY <1>2 DEF ParseRead, ParseAt
  <2>2. ReadAgain'
    BY <2>1
  <2>3. CASE torn = TRUE
    BY <2>1, <2>3
  <2>4. CASE torn = FALSE /\ buf.kind = "update"
    <3>1. parse' = "store" /\ preg' = buf.mask
      BY <1>2, <2>4 DEF ParseRead
    <3> QED BY <2>1, <2>2, <3>1
  <2>5. CASE buf.kind # "update"
    BY <2>1, <2>2, <2>5
  <2> QED BY <2>3, <2>4, <2>5
<1>3. CASE ParseStore
  <2>1. parse = "store" /\ parse' = "post" /\ mask' = preg
    BY <1>3 DEF ParseStore, ParseAt
  <2>2. UNCHANGED <<buf, queued, mqtt, torn, toggled>>
    BY <1>3 DEF ParseStore
  <2> QED BY <2>1, <2>2
<1>4. CASE ParsePost
  BY <1>4 DEF ParsePost, ParseAt
<1>5. CASE ParseBuild
  BY <1>5 DEF ParseBuild, ParseAt
<1>6. CASE ParseWritten
  BY <1>6 DEF ParseWritten
<1> QED BY <1>1, <1>2, <1>3, <1>4, <1>5, <1>6 DEF ParseStep

(* The other steps touch neither user_data nor the queue.                  *)
LEMMA OtherFlight ==
    ASSUME DataOK, ReadAgain, InFlight,
           \/ Connect \/ Disconnect \/ WifiLost \/ KeyPress \/ KeyWritten
           \/ MqttReceive \/ MqttAcked \/ UNCHANGED vars
    PROVE  ReadAgain' /\ InFlight'
<1> USE DEF DataOK, ReadAgain, InFlight, OnItsWay, history, device
<1>1. CASE KeyPress
  BY <1>1 DEF KeyPress
<1>2. CASE Connect \/ Disconnect \/ WifiLost
  BY <1>2 DEF Connect, Disconnect, WifiLost
<1>3. CASE KeyWritten \/ MqttReceive \/ MqttAcked
  BY <1>3 DEF KeyWritten, MqttReceive, MqttAcked
<1>4. CASE UNCHANGED vars
  BY <1>4 DEF vars
<1> QED BY <1>1, <1>2, <1>3, <1>4

(* Every step keeps the command on its way.                                *)
LEMMA FlightStep ==
    DataOK /\ ReadAgain /\ InFlight /\ [Next]_vars => ReadAgain' /\ InFlight'
BY MqttFlight, ParseFlight, OtherFlight DEF Next

(* The last command that no press has followed becomes the mask, although  *)
(* all the messages share one buffer, for every length of the queue.       *)
THEOREM ChannelKeepsLastCommand == Spec => []LastCommandWins
<1>1. DataOK /\ InFlight => LastCommandWins
  BY DEF DataOK, InFlight, OnItsWay, LastCommandWins, Quiet
<1> QED BY <1>1, InitFlight, DataStep, FlightStep, PTL DEF Spec

(* What the masks and messages are; the places where a task may be.        *)
MasksOK == /\ mask \in Nat /\ preg \in Nat /\ buf \in Messages /\ mreg \in Messages
           /\ out \in Nat \cup {None} /\ told \in Nat \cup {None}
           /\ wanted \in Nat \cup {None}

QueueOK == queued \in 0..QueueLength

FlagsOK == /\ isConnect2Server \in BOOLEAN /\ torn \in BOOLEAN
           /\ missed \in BOOLEAN /\ toggled \in BOOLEAN

PlacesOK == /\ mqtt \in {"offline", "receive", "ack", "deliver", "full"}
            /\ parse \in {"wait", "reading", "store", "post", "build", "write"}
            /\ key \in {"scan", "write"}

(* A message carries a mask; what is ignored is a message.                 *)
LEMMA MessageMasks == /\ \A m \in Messages : m.mask \in Nat
                      /\ Ignored \in Messages
<1>1. Ignored \in Messages
  BY DEF Messages, Ignored
<1>2. ASSUME NEW m \in Messages PROVE m.mask \in Nat
  <2>1. CASE m \in [kind : {"update"}, mask : Updates]
    <3>1. m.mask \in Updates
      BY <2>1
    <3> QED BY <3>1, ChannelAssumption
  <2>2. CASE m \in [kind : {"sync"}, mask : {0}]
    BY <2>2
  <2>3. CASE m \in [kind : {"msg"}, mask : {0}]
    BY <2>3
  <2> QED BY <2>1, <2>2, <2>3 DEF Messages
<1> QED BY <1>1, <1>2

(* Toggling a mask gives a mask.                                           *)
LEMMA ToggledMask == ASSUME NEW m \in Nat PROVE Toggled(m) \in Nat
<1>1. m % 4 \in Nat /\ m % 4 <= m
  OBVIOUS
<1> QED BY <1>1 DEF Toggled

(* The initial state has the types.                                        *)
LEMMA InitTypes == Init => MasksOK /\ QueueOK /\ FlagsOK /\ PlacesOK
<1> SUFFICES ASSUME Init PROVE MasksOK /\ QueueOK /\ FlagsOK /\ PlacesOK
  OBVIOUS
<1>1. MasksOK BY MessageMasks DEF Init, MasksOK
<1>2. QueueOK BY Lengths DEF Init, QueueOK
<1>3. FlagsOK BY DEF Init, FlagsOK
<1>4. PlacesOK BY DEF Init, PlacesOK
<1> QED BY <1>1, <1>2, <1>3, <1>4

(* Every step moves masks and messages around.                             *)
LEMMA MasksStep == MasksOK /\ [Next]_vars => MasksOK'
<1> SUFFICES ASSUME MasksOK, [Next]_vars PROVE MasksOK'
  OBVIOUS
<1> USE MessageMasks DEF MasksOK, device, history
<1>1. CASE Connect \/ Disconnect \/ WifiLost BY <1>1 DEF Connect, Disconnect, WifiLost
<1>2. CASE KeyPress
  <2>1. mask' \in Nat
    BY <1>2, ToggledMask DEF KeyPress
  <2>2. out' = mask' \/ out' = out
    BY <1>2 DEF KeyPress
  <2>3. wanted' = None /\ UNCHANGED <<buf, mreg, preg, told>>
    BY <1>2 DEF KeyPress
  <2> QED BY <2>1, <2>2, <2>3
<1>3. CASE KeyWritten \/ MqttAcked \/ ParseWritten
  <2>1. told' = told \/ told' = out
    BY <1>3 DEF KeyWritten, MqttAcked, ParseWritten, Written
  <2>2. UNCHANGED <<mask, buf, out, mreg, preg, wanted>>
    BY <1>3 DEF KeyWritten, MqttAcked, ParseWritten
  <2> QED BY <2>1, <2>2
<1>4. CASE MqttReceive BY <1>4 DEF MqttReceive
<1>5. CASE MqttDeliver
  <2>1. buf' = mreg /\ mreg' = Ignored /\ UNCHANGED <<mask, out, preg, told>>
    BY <1>5 DEF MqttDeliver
  <2>2. wanted' = mreg.mask \/ wanted' = wanted
    BY <1>5 DEF MqttDeliver
  <2> QED BY <2>1, <2>2
<1>6. CASE MqttSend \/ ParseReceive BY <1>6 DEF MqttSend, ParseReceive
<1>7. CASE ParseRead
  <2>1. UNCHANGED <<mask, buf, mreg, out, told, wanted>>
    BY <1>7 DEF ParseRead
  <2>2. preg' \in Nat
    <3>1. PICK m \in Messages : preg' = m.mask \/ preg' = preg
      BY <1>7 DEF ParseRead
    <3> QED BY <3>1
  <2> QED BY <2>1, <2>2
<1>8. CASE ParseStore \/ ParsePost \/ ParseBuild
  BY <1>8 DEF ParseStore, ParsePost, ParseBuild
<1>9. CASE UNCHANGED vars BY <1>9 DEF vars
<1> QED
  BY <1>1, <1>2, <1>3, <1>4, <1>5, <1>6, <1>7, <1>8, <1>9 DEF Next, MqttStep, ParseStep

(* Nothing is sent to a full queue, or taken from an empty one.            *)
LEMMA QueueStep == QueueOK /\ [Next]_vars => QueueOK'
<1> SUFFICES ASSUME QueueOK, [Next]_vars PROVE QueueOK'
  OBVIOUS
<1> USE Lengths DEF QueueOK, device, history
<1>1. CASE MqttDeliver
  <2>1. queued' = queued \/ (queued < QueueLength /\ queued' = queued + 1)
    BY <1>1, Zenon DEF MqttDeliver
  <2> QED BY <2>1
<1>2. CASE MqttSend BY <1>2 DEF MqttSend
<1>3. CASE ParseReceive BY <1>3 DEF ParseReceive
<1>4. CASE queued' = queued BY <1>4
<1>5. CASE \/ Connect \/ Disconnect \/ WifiLost \/ KeyPress \/ KeyWritten
           \/ MqttReceive \/ MqttAcked \/ ParseRead \/ ParseStore \/ ParsePost
           \/ ParseBuild \/ ParseWritten \/ UNCHANGED vars
  <2>1. queued' = queued
    BY <1>5 DEF Connect, Disconnect, WifiLost, KeyPress, KeyWritten, MqttReceive, MqttAcked,
                ParseRead, ParseStore, ParsePost, ParseBuild, ParseWritten, vars
  <2> QED BY <2>1, <1>4
<1> QED BY <1>1, <1>2, <1>3, <1>5 DEF Next, MqttStep, ParseStep

(* Every step keeps the types of the flags.                                *)
LEMMA FlagsStep == FlagsOK /\ [Next]_vars => FlagsOK'
<1> SUFFICES ASSUME FlagsOK, [Next]_vars PROVE FlagsOK'
  OBVIOUS
<1> USE DEF FlagsOK, device, history
<1>1. CASE Connect \/ Disconnect \/ WifiLost BY <1>1, Zenon DEF Connect, Disconnect, WifiLost
<1>2. CASE KeyPress BY <1>2, Zenon DEF KeyPress
<1>3. CASE KeyWritten \/ MqttAcked \/ ParseWritten
  BY <1>3, Zenon DEF KeyWritten, MqttAcked, ParseWritten, Written
<1>4. CASE MqttReceive \/ MqttSend BY <1>4, Zenon DEF MqttReceive, MqttSend
<1>5. CASE MqttDeliver
  <2>1. torn' \in BOOLEAN /\ toggled' \in BOOLEAN
    BY <1>5 DEF MqttDeliver
  <2>2. UNCHANGED <<isConnect2Server, missed>>
    BY <1>5 DEF MqttDeliver
  <2> QED BY <2>1, <2>2
<1>6. CASE ParseReceive \/ ParseStore BY <1>6, Zenon DEF ParseReceive, ParseStore
<1>7. CASE ParseRead BY <1>7, Zenon DEF ParseRead
<1>8. CASE ParsePost \/ ParseBuild BY <1>8, Zenon DEF ParsePost, ParseBuild
<1>9. CASE UNCHANGED vars BY <1>9, Zenon DEF vars
<1> QED
  BY <1>1, <1>2, <1>3, <1>4, <1>5, <1>6, <1>7, <1>8, <1>9 DEF Next, MqttStep, ParseStep

(* Every task goes from one of its places to another.                      *)
LEMMA PlacesStep == PlacesOK /\ [Next]_vars => PlacesOK'
<1> SUFFICES ASSUME PlacesOK, [Next]_vars PROVE PlacesOK'
  OBVIOUS
<1> USE DEF PlacesOK, device, history
<1>1. CASE Connect \/ Disconnect \/ WifiLost BY <1>1 DEF Connect, Disconnect, WifiLost
<1>2. CASE KeyPress \/ KeyWritten BY <1>2 DEF KeyPress, KeyWritten
<1>3. CASE MqttReceive \/ MqttAcked BY <1>3 DEF MqttReceive, MqttAcked
<1>4. CASE MqttDeliver
  <2>1. (mqtt' = "receive" \/ mqtt' = "full") /\ parse' = parse /\ key' = key
    BY <1>4, Zenon DEF MqttDeliver
  <2> QED BY <2>1
<1>5. CASE MqttSend BY <1>5 DEF MqttSend
<1>6. CASE ParseReceive \/ ParseStore BY <1>6 DEF ParseReceive, ParseStore
<1>7. CASE ParseRead BY <1>7 DEF ParseRead
<1>8. CASE ParsePost \/ ParseBuild \/ ParseWritten
  BY <1>8 DEF ParsePost, ParseBuild, ParseWritten
<1>9. CASE UNCHANGED vars BY <1>9 DEF vars
<1> QED
  BY <1>1, <1>2, <1>3, <1>4, <1>5, <1>6, <1>7, <1>8, <1>9 DEF Next, MqttStep, ParseStep

(* Every variable of CommandChannel keeps its type: the queue never holds  *)
(* more than its length, and what a report carries is a mask.              *)
THEOREM ChannelTypeCorrect == Spec => []TypeOK
<1>1. MasksOK /\ QueueOK /\ FlagsOK /\ PlacesOK => TypeOK
  BY DEF MasksOK, QueueOK, FlagsOK, PlacesOK, TypeOK
<1> QED
  BY <1>1, InitTypes, MasksStep, QueueStep, FlagsStep, PlacesStep, PTL DEF Spec
=============================================================================
