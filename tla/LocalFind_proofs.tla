-------------------------- MODULE LocalFind_proofs --------------------------
(***************************************************************************)
(* Proofs about LocalFind, for every number of sockets and of answers.     *)
(***************************************************************************)
EXTENDS LocalFind, TLAPS

(* What the tasks and the descriptors they hold are.                       *)
TasksOK ==
    /\ sockets \in [Fds -> Users \cup {"free"}]
    /\ smart \in {"wait", "over", "done"}
    /\ ack \in {"start", "open", "over", "ended"} /\ send_sock \in Fds \cup {None}
    /\ find \in {"none", "socket", "bind", "receive", "close", "over", "ended"}
    /\ sock_server \in Fds \cup {None}
    /\ mqtt \in {"init", "connecting", "connected", "wait"} /\ sock \in Fds \cup {None}

FlagsOK == net \in BOOLEAN /\ handleLlocalFind \in BOOLEAN

(* Discovery counts one answer more than its limit, and tests the count of *)
(* the ones before.                                                        *)
CountsOK ==
    /\ counts \in Nat /\ counts <= Packets + 2
    /\ find \in {"none", "socket", "bind", "receive"} => counts <= Packets + 1

(* Who holds a descriptor at each place, and that discovery starts once:   *)
(* it has opened nothing before SmartConfig is over.                       *)
Places ==
    /\ ack \in {"open", "over"} <=> send_sock # None
    /\ mqtt \in {"connecting", "connected"} <=> sock # None
    /\ ack \in {"start", "open"} \/ smart = "over" => find = "none"
    /\ smart = "over" => ack \in {"over", "ended"}
    /\ find \in {"none", "socket"} => sock_server = None

(* OneSocketEach, user by user.                                            *)
Each ==
    \A fd \in Fds : /\ sockets[fd] = "ack"  => send_sock = fd
                    /\ sockets[fd] = "find" => sock_server = fd
                    /\ sockets[fd] = "mqtt" => sock = fd

(* SocketsOwned, user by user.                                             *)
Owned ==
    /\ send_sock # None => sockets[send_sock] = "ack"
    /\ sock_server # None => sockets[sock_server] = "find"
    /\ sock # None => sockets[sock] = "mqtt"

IInv == TasksOK /\ Places /\ Each /\ Owned

(* The limit is a number; neither None nor what is never set is a socket.  *)
LEMMA Constants == Packets \in Nat /\ sock_fd \notin Fds /\ None \notin Fds
BY LocalFindAssumption DEF Fds, None, sock_fd

(* What opening and closing a descriptor do to the table.                  *)
LEMMA Opened ==
    ASSUME TasksOK, NEW user, NEW fd \in Fds, Open(user, fd)
    PROVE  /\ sockets[fd] = "free" /\ sockets'[fd] = user
           /\ \A other \in Fds : other # fd => sockets'[other] = sockets[other]
           /\ user \in Users => sockets' \in [Fds -> Users \cup {"free"}]
BY DEF TasksOK, Open, Lowest, Free

LEMMA Closed ==
    ASSUME TasksOK, NEW fd, Close(fd)
    PROVE  /\ fd \in Fds => sockets'[fd] = "free"
           /\ \A other \in Fds : other # fd => sockets'[other] = sockets[other]
           /\ sockets' \in [Fds -> Users \cup {"free"}]
BY DEF TasksOK, Close

(* The invariant holds at the start.                                       *)
LEMMA InitInv == Init => IInv /\ FlagsOK /\ CountsOK
<1> SUFFICES ASSUME Init PROVE IInv /\ FlagsOK /\ CountsOK
  OBVIOUS
<1>1. TasksOK /\ Each
  BY DEF Init, TasksOK, Each
<1>2. Places /\ Owned
  BY DEF Init, Places, Owned
<1>3. FlagsOK
  BY DEF Init, FlagsOK
<1>4. CountsOK
  BY Constants DEF Init, CountsOK
<1> QED BY <1>1, <1>2, <1>3, <1>4 DEF IInv

(* The steps that open a socket: whoever opens one has none.               *)
LEMMA OpenStep ==
    ASSUME IInv, AckOpen \/ FindSocket \/ MqttSocket PROVE IInv'
<1> USE Constants DEF ackVars, findVars, mqttVars
<1>1. CASE AckOpen
  <2>1. CASE ack' = "ended" /\ UNCHANGED <<sockets, send_sock>>
    BY <1>1, <2>1 DEF AckOpen, IInv, TasksOK, Places, Each, Owned
  <2>2. CASE ack' = "open" /\ \E fd \in Fds : Open("ack", fd) /\ send_sock' = fd
    <3>1. PICK fd \in Fds : Open("ack", fd) /\ send_sock' = fd
      BY <2>2
    <3>2. /\ sockets[fd] = "free" /\ sockets'[fd] = "ack"
          /\ \A other \in Fds : other # fd => sockets'[other] = sockets[other]
          /\ sockets' \in [Fds -> Users \cup {"free"}]
      BY <3>1, Opened DEF IInv, Users
    <3>3. ack = "start" /\ UNCHANGED <<smart, find, sock_server, mqtt, sock>>
      BY <1>1 DEF AckOpen
    <3>4. TasksOK'
      BY <2>2, <3>1, <3>2, <3>3 DEF IInv, TasksOK
    <3>5. Places'
      BY <2>2, <3>1, <3>3 DEF IInv, Places
    <3>6. Each'
      BY <3>1, <3>2, <3>3 DEF IInv, Places, Each
    <3>7. Owned'
      BY <3>1, <3>2, <3>3 DEF IInv, TasksOK, Places, Owned
    <3> QED BY <3>4, <3>5, <3>6, <3>7 DEF IInv
  <2> QED BY <1>1, <2>1, <2>2 DEF AckOpen
<1>2. CASE FindSocket
  <2>1. CASE find' = "ended" /\ UNCHANGED <<sockets, sock_server>>
    BY <1>2, <2>1 DEF FindSocket, IInv, TasksOK, Places, Each, Owned
  <2>2. CASE find' = "bind" /\ \E fd \in Fds : Open("find", fd) /\ sock_server' = fd
    <3>1. PICK fd \in Fds : Open("find", fd) /\ sock_server' = fd
      BY <2>2
    <3>2. /\ sockets[fd] = "free" /\ sockets'[fd] = "find"
          /\ \A other \in Fds : other # fd => sockets'[other] = sockets[other]
          /\ sockets' \in [Fds -> Users \cup {"free"}]
      BY <3>1, Opened DEF IInv, Users
    <3>3. find = "socket" /\ UNCHANGED <<smart, ack, send_sock, mqtt, sock>>
      BY <1>2 DEF FindSocket
    <3>4. TasksOK'
      BY <2>2, <3>1, <3>2, <3>3 DEF IInv, TasksOK
    <3>5. Places'
      BY <2>2, <3>1, <3>3 DEF IInv, Places
    <3>6. Each'
      BY <3>1, <3>2, <3>3 DEF IInv, Places, Each
    <3>7. Owned'
      BY <3>1, <3>2, <3>3 DEF IInv, TasksOK, Places, Owned
    <3> QED BY <3>4, <3>5, <3>6, <3>7 DEF IInv
  <2> QED BY <1>2, <2>1, <2>2 DEF FindSocket
<1>3. CASE MqttSocket
  <2>1. CASE mqtt' = "wait" /\ UNCHANGED <<sockets, sock>>
    BY <1>3, <2>1 DEF MqttSocket, IInv, TasksOK, Places, Each, Owned
  <2>2. CASE mqtt' = "connecting" /\ \E fd \in Fds : Open("mqtt", fd) /\ sock' = fd
    <3>1. PICK fd \in Fds : Open("mqtt", fd) /\ sock' = fd
      BY <2>2
    <3>2. /\ sockets[fd] = "free" /\ sockets'[fd] = "mqtt"
          /\ \A other \in Fds : other # fd => sockets'[other] = sockets[other]
          /\ sockets' \in [Fds -> Users \cup {"free"}]
      BY <3>1, Opened DEF IInv, Users
    <3>3. mqtt = "init" /\ UNCHANGED <<smart, ack, send_sock, find, sock_server>>
      BY <1>3 DEF MqttSocket
    <3>4. TasksOK'
      BY <2>2, <3>1, <3>2, <3>3 DEF IInv, TasksOK
    <3>5. Places'
      BY <2>2, <3>1, <3>3 DEF IInv, Places
    <3>6. Each'
      BY <3>1, <3>2, <3>3 DEF IInv, Places, Each
    <3>7. Owned'
      BY <3>1, <3>2, <3>3 DEF IInv, TasksOK, Places, Owned
    <3> QED BY <3>4, <3>5, <3>6, <3>7 DEF IInv
  <2> QED BY <1>3, <2>1, <2>2 DEF MqttSocket
<1> QED BY <1>1, <1>2, <1>3

(* The steps that close one: it is their own, or none at all.              *)
LEMMA CloseStep ==
    ASSUME IInv, AckEnd \/ MqttFails \/ FindClose PROVE IInv'
<1> USE Constants DEF ackVars, findVars, mqttVars
<1>1. CASE AckEnd
  <2>1. /\ ack \in {"open", "over"} /\ ack' = "ended" /\ send_sock' = None
        /\ UNCHANGED <<smart, find, sock_server, mqtt, sock>>
    BY <1>1 DEF AckEnd
  <2>2. /\ sockets'[send_sock] = "free"
        /\ \A other \in Fds : other # send_sock => sockets'[other] = sockets[other]
        /\ sockets' \in [Fds -> Users \cup {"free"}]
        /\ send_sock \in Fds
    BY <1>1, <2>1, Closed DEF AckEnd, IInv, TasksOK, Places
  <2>3. TasksOK' /\ Places'
    BY <2>1, <2>2 DEF IInv, TasksOK, Places
  <2>4. Each'
    BY <2>1, <2>2 DEF IInv, Each
  <2>5. Owned'
    BY <2>1, <2>2 DEF IInv, TasksOK, Owned
  <2> QED BY <2>3, <2>4, <2>5 DEF IInv
<1>2. CASE MqttFails
  <2>1. /\ mqtt \in {"connecting", "connected"} /\ mqtt' = "wait" /\ sock' = None
        /\ UNCHANGED <<smart, ack, send_sock, find, sock_server>>
    BY <1>2 DEF MqttFails
  <2>2. /\ sockets'[sock] = "free"
        /\ \A other \in Fds : other # sock => sockets'[other] = sockets[other]
        /\ sockets' \in [Fds -> Users \cup {"free"}]
        /\ sock \in Fds
    BY <1>2, <2>1, Closed DEF MqttFails, IInv, TasksOK, Places
  <2>3. TasksOK' /\ Places'
    BY <2>1, <2>2 DEF IInv, TasksOK, Places
  <2>4. Each'
    BY <2>1, <2>2 DEF IInv, Each
  <2>5. Owned'
    BY <2>1, <2>2 DEF IInv, TasksOK, Owned
  <2> QED BY <2>3, <2>4, <2>5 DEF IInv
<1>3. CASE FindClose
  <2>1. /\ find = "close" /\ find' = "over"
        /\ UNCHANGED <<smart, ack, send_sock, sock_server, mqtt, sock>>
    BY <1>3 DEF FindClose
  <2>2. /\ \A other \in Fds : sockets'[other] = sockets[other]
        /\ sockets' \in [Fds -> Users \cup {"free"}]
    BY <1>3, Closed DEF FindClose, IInv
  <2>3. TasksOK' /\ Places'
    BY <2>1, <2>2 DEF IInv, TasksOK, Places
  <2>4. Each'
    BY <2>1, <2>2 DEF IInv, Each
  <2>5. Owned'
    BY <2>1, <2>2 DEF IInv, TasksOK, Owned
  <2> QED BY <2>3, <2>4, <2>5 DEF IInv
<1> QED BY <1>1, <1>2, <1>3

(* The steps that leave the table as it is, and the restart.               *)
LEMMA OtherStep ==
    ASSUME IInv,
           \/ NetworkChanges \/ AckOver \/ SmartOver \/ FindPrepare \/ FindAnswer
           \/ FindFallsOut \/ MqttConnect \/ MqttWaited \/ UNCHANGED vars
    PROVE  IInv'
<1> USE Constants DEF ackVars, findVars, mqttVars, IInv, TasksOK, Places, Each, Owned
<1>1. CASE NetworkChanges BY <1>1 DEF NetworkChanges
<1>2. CASE AckOver BY <1>2 DEF AckOver
<1>3. CASE SmartOver
  <2>1. /\ smart = "over" /\ smart' = "done"
        /\ UNCHANGED <<sockets, ack, send_sock, sock_server, mqtt, sock>>
    BY <1>3 DEF SmartOver
  <2>2. find = "none" /\ (find' = "socket" \/ find' = find)
    BY <1>3, Zenon DEF SmartOver
  <2>3. TasksOK' /\ Each'
    BY <2>1, <2>2
  <2>4. Places'
    BY <2>1, <2>2
  <2>5. Owned'
    BY <2>1, <2>2
  <2> QED BY <2>3, <2>4, <2>5
<1>4. CASE FindPrepare BY <1>4 DEF FindPrepare
<1>5. CASE FindAnswer
  <2>1. find = "receive" /\ (find' = "close" \/ find' = "receive")
    BY <1>5, Zenon DEF FindAnswer
  <2>2. UNCHANGED <<sockets, smart, ack, send_sock, sock_server, mqtt, sock>>
    BY <1>5 DEF FindAnswer
  <2> QED BY <2>1, <2>2
<1>6. CASE FindFallsOut BY <1>6 DEF FindFallsOut
<1>7. CASE MqttConnect \/ MqttWaited BY <1>7 DEF MqttConnect, MqttWaited
<1>8. CASE UNCHANGED vars BY <1>8 DEF vars
<1> QED BY <1>1, <1>2, <1>3, <1>4, <1>5, <1>6, <1>7, <1>8

(* Every step keeps the invariant.                                         *)
LEMMA InvStep == IInv /\ [Next]_vars => IInv'
BY OpenStep, CloseStep, OtherStep DEF Next, Ack, Find, Mqtt

(* Every step keeps the count: the last answer ends the counting.          *)
LEMMA CountsStep == Places /\ CountsOK /\ [Next]_vars => CountsOK'
<1> SUFFICES ASSUME Places, CountsOK, [Next]_vars PROVE CountsOK'
  OBVIOUS
<1> USE Constants DEF CountsOK, ackVars, findVars, mqttVars
<1>1. CASE SmartOver
  <2>1. find = "none"
    BY <1>1 DEF SmartOver, Places
  <2> QED BY <1>1, <2>1 DEF SmartOver
<1>2. CASE FindSocket BY <1>2 DEF FindSocket
<1>3. CASE FindPrepare BY <1>3 DEF FindPrepare
<1>4. CASE FindAnswer
  <2>1. find = "receive" /\ counts' = counts + 1
    BY <1>4 DEF FindAnswer
  <2>2. CASE counts > Packets
    <3>1. find' = "close"
      BY <1>4, <2>2 DEF FindAnswer
    <3> QED BY <2>1, <3>1
  <2>3. CASE ~(counts > Packets)
    BY <2>1, <2>3
  <2> QED BY <2>2, <2>3
<1>5. CASE FindClose BY <1>5 DEF FindClose
<1>6. CASE FindFallsOut BY <1>6 DEF FindFallsOut
<1>7. CASE \/ NetworkChanges \/ AckOpen \/ AckOver \/ AckEnd \/ MqttSocket \/ MqttConnect
           \/ MqttFails \/ MqttWaited \/ UNCHANGED vars
  <2>1. find' = find /\ counts' = counts
    BY <1>7 DEF NetworkChanges, AckOpen, AckOver, AckEnd, MqttSocket, MqttConnect, MqttFails,
                MqttWaited, vars
  <2> QED BY <2>1
<1> QED BY <1>1, <1>2, <1>3, <1>4, <1>5, <1>6, <1>7 DEF Next, Ack, Find, Mqtt

(* Every step keeps the types of the flags.                                *)
LEMMA FlagsStep == FlagsOK /\ [Next]_vars => FlagsOK'
<1> SUFFICES ASSUME FlagsOK, [Next]_vars PROVE FlagsOK'
  OBVIOUS
<1> USE DEF FlagsOK, ackVars, findVars, mqttVars
<1>1. CASE NetworkChanges BY <1>1, Zenon DEF NetworkChanges
<1>2. CASE AckOpen \/ AckOver \/ AckEnd BY <1>2, Zenon DEF AckOpen, AckOver, AckEnd
<1>3. CASE SmartOver BY <1>3, Zenon DEF SmartOver
<1>4. CASE FindSocket \/ FindPrepare BY <1>4, Zenon DEF FindSocket, FindPrepare
<1>5. CASE FindAnswer BY <1>5, Zenon DEF FindAnswer
<1>6. CASE FindClose \/ FindFallsOut BY <1>6, Zenon DEF FindClose, FindFallsOut
<1>7. CASE MqttSocket BY <1>7, Zenon DEF MqttSocket
<1>8. CASE MqttConnect \/ MqttFails \/ MqttWaited
  BY <1>8, Zenon DEF MqttConnect, MqttFails, MqttWaited
<1>9. CASE UNCHANGED vars BY <1>9, Zenon DEF vars
<1> QED
  BY <1>1, <1>2, <1>3, <1>4, <1>5, <1>6, <1>7, <1>8, <1>9 DEF Next, Ack, Find, Mqtt

(* Every variable of LocalFind keeps its type: discovery answers two times *)
(* more than its limit says, and no more.                                  *)
THEOREM FindTypeCorrect == Spec => []TypeOK
<1>1. IInv /\ FlagsOK /\ CountsOK => TypeOK
  <2> SUFFICES ASSUME IInv, FlagsOK, CountsOK PROVE TypeOK
    OBVIOUS
  <2>1. counts \in 0..Packets + 2
    BY Constants DEF CountsOK
  <2> QED BY <2>1 DEF IInv, TasksOK, FlagsOK, TypeOK
<1>2. IInv => Places
  BY DEF IInv
<1> QED BY <1>1, <1>2, InitInv, InvStep, FlagsStep, CountsStep, PTL DEF Spec

(* What a task holds, by its name.                                         *)
LEMMA Holders ==
    Held["ack"] = send_sock /\ Held["find"] = sock_server /\ Held["mqtt"] = sock
BY DEF Held

(* No socket is closed under its holder, for every number of sockets that  *)
(* leaves descriptor 0 to something else.                                  *)
THEOREM FindOwnsSockets == Spec => []SocketsOwned
<1>1. IInv => SocketsOwned
  BY Holders DEF IInv, Owned, SocketsOwned, Users
<1> QED BY <1>1, InitInv, InvStep, PTL DEF Spec

(* Nobody has two sockets: discovery leaks its own, once.                  *)
THEOREM FindLeaksOne == Spec => []OneSocketEach
<1>1. IInv => OneSocketEach
  <2> SUFFICES ASSUME IInv, NEW fd \in Fds, sockets[fd] # "free"
               PROVE  fd = Held[sockets[fd]]
    BY DEF OneSocketEach
  <2>1. sockets[fd] \in {"ack", "find", "mqtt"}
    BY DEF IInv, TasksOK, Users
  <2> QED BY <2>1, Holders DEF IInv, Each
<1> QED BY <1>1, InitInv, InvStep, PTL DEF Spec
=============================================================================
