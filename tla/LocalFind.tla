----------------------------- MODULE LocalFind ------------------------------
(***************************************************************************)
(* The sockets of a device that AirKiss is provisioning: the task of       *)
(* SmartConfig that tells the phone, the MQTT client, and TaskCreatSocket, *)
(* which answers those who look for the device.  lwIP gives out the lowest *)
(* descriptor that is free; TaskCreatSocket, once it has answered enough,  *)
(* closes sock_fd, which nobody has ever set, instead of its own socket.   *)
(*                                                                         *)
(* The tasks interleave freely: all of them block in calls of lwIP.        *)
(* Requests that are not for the device, and answers that cannot be packed *)
(* or sent, change nothing and are left out.                               *)
(***************************************************************************)
EXTENDS Integers

CONSTANTS
    FdSetSize,   \* FD_SETSIZE: descriptors of the VFS
    NumSockets,  \* MEMP_NUM_NETCONN: the last of them are sockets
    Packets      \* COUNTS_BOACAST

ASSUME LocalFindAssumption ==
    /\ FdSetSize \in Nat /\ NumSockets \in Nat /\ Packets \in Nat
    /\ 0 < NumSockets /\ NumSockets < FdSetSize

VARIABLES
    net,      \* the server can be reached
    sockets,  \* the table of lwIP: what each descriptor is open for
    smart,    \* TaskSmartConfigAirKiss2Net: wait, the bit is set (over), done
    ack, send_sock,           \* sc_ack_send_task
    find, sock_server, counts, handleLlocalFind,  \* TaskCreatSocket
    mqtt, sock                \* the MQTT client and its transport

\* Mutant: lwIP without LWIP_SOCKET_OFFSET, as it comes.
FdsFromZero == 0..NumSockets - 1

Fds == FdSetSize - NumSockets..FdSetSize - 1
Users == {"ack", "find", "mqtt"}
None == -1

sock_fd == 0   \* a static that is never set

ackVars  == <<ack, send_sock>>
findVars == <<find, sock_server, counts, handleLlocalFind>>
mqttVars == <<mqtt, sock>>
vars     == <<net, sockets, smart, ackVars, findVars, mqttVars>>

-----------------------------------------------------------------------------
(* lwIP.                                                                   *)

Free == {fd \in Fds : sockets[fd] = "free"}

Lowest(fd) == fd \in Free /\ \A other \in Free : fd <= other

Open(user, fd) == Lowest(fd) /\ sockets' = [sockets EXCEPT ![fd] = user]

(* Closing what is not an open socket is an error without effect.          *)
Close(fd) == sockets' = [i \in Fds |-> IF i = fd THEN "free" ELSE sockets[i]]

-----------------------------------------------------------------------------
Init ==
    /\ net \in BOOLEAN /\ sockets = [fd \in Fds |-> "free"]
    /\ smart = "wait" /\ ack = "start" /\ send_sock = None
    /\ find = "none" /\ sock_server = None /\ counts = 0 /\ handleLlocalFind = FALSE
    /\ mqtt = "init" /\ sock = None

NetworkChanges ==
    /\ net' = ~net
    /\ UNCHANGED <<sockets, smart, ackVars, findVars, mqttVars>>

-----------------------------------------------------------------------------
(* sc_ack_send_task, once there is an address.                             *)

AckOpen ==
    /\ ack = "start"
    /\ \/ ack' = "open" /\ \E fd \in Fds : Open("ack", fd) /\ send_sock' = fd
       \/ ack' = "ended" /\ UNCHANGED <<sockets, send_sock>>
    /\ UNCHANGED <<net, smart, findVars, mqttVars>>

(* SC_STATUS_LINK_OVER: sc_callback sets AIRKISS_DONE_BIT.                 *)
AckOver ==
    /\ ack = "open" /\ ack' = "over" /\ smart' = "over"
    /\ UNCHANGED <<net, sockets, send_sock, findVars, mqttVars>>

(* After that, or when it cannot send or SmartConfig starts over.          *)
AckEnd ==
    /\ ack \in {"open", "over"} /\ ack' = "ended"
    /\ Close(send_sock) /\ send_sock' = None
    /\ UNCHANGED <<net, smart, findVars, mqttVars>>

(* TaskSmartConfigAirKiss2Net takes the bit.                               *)
SmartOver ==
    /\ smart = "over" /\ smart' = "done"
    /\ \/ ~handleLlocalFind /\ find' = "socket" /\ handleLlocalFind' = TRUE
       \/ UNCHANGED <<find, handleLlocalFind>>
    /\ UNCHANGED <<net, sockets, ackVars, sock_server, counts, mqttVars>>

-----------------------------------------------------------------------------
(* TaskCreatSocket.                                                        *)

FindSocket ==
    /\ find = "socket"
    /\ \/ find' = "bind" /\ \E fd \in Fds : Open("find", fd) /\ sock_server' = fd
       \/ find' = "ended" /\ UNCHANGED <<sockets, sock_server>>
    /\ UNCHANGED <<net, smart, ackVars, counts, handleLlocalFind, mqttVars>>

(* bind, and mbedtls_base64_encode into a buffer whose size is the strlen  *)
(* of what happens to be in it: the task may end here, its socket open.    *)
FindPrepare ==
    /\ find = "bind" /\ find' \in {"receive", "ended"}
    /\ UNCHANGED <<net, sockets, smart, ackVars, sock_server, counts,
                   handleLlocalFind, mqttVars>>

\* Mutant: the number of answers is not tested.
AnswerForever ==
    /\ find = "receive"
    /\ counts' = counts + 1 /\ find' = find
    /\ UNCHANGED <<net, sockets, smart, ackVars, sock_server, handleLlocalFind, mqttVars>>

FindAnswer ==
    /\ find = "receive"
    /\ counts' = counts + 1
    /\ find' = IF counts > Packets THEN "close" ELSE "receive"
    /\ UNCHANGED <<net, sockets, smart, ackVars, sock_server, handleLlocalFind, mqttVars>>

(* shutdown, which has nothing to shut down, and closesocket of sock_fd;   *)
(* sock_server stays open.                                                 *)
FindClose ==
    /\ find = "close" /\ find' = "over"
    /\ Close(sock_fd)
    /\ handleLlocalFind' = FALSE
    /\ UNCHANGED <<net, smart, ackVars, sock_server, counts, mqttVars>>

(* recvfrom fails: the break leaves the loop, and the task its function,   *)
(* whose return address is 0.  After the restart SmartConfig is entered    *)
(* again only if the credentials were not stored or cannot be read back.   *)
FindFallsOut ==
    /\ find = "receive" /\ find' = "none"
    /\ sockets' = [fd \in Fds |-> "free"]
    /\ \/ smart' = "done" /\ ack' = "ended"
       \/ smart' = "wait" /\ ack' = "start"
    /\ send_sock' = None /\ sock_server' = None /\ counts' = 0 /\ handleLlocalFind' = FALSE
    /\ mqtt' = "init" /\ sock' = None
    /\ UNCHANGED net

-----------------------------------------------------------------------------
(* The transport of the MQTT client.                                       *)

Works == net /\ sockets[sock] = "mqtt"

(* tcp_connect resolves the name and creates its socket, or fails.         *)
MqttSocket ==
    /\ mqtt = "init"
    /\ \/ net /\ mqtt' = "connecting"
          /\ \E fd \in Fds : Open("mqtt", fd) /\ sock' = fd
       \/ (~net \/ Free = {}) /\ mqtt' = "wait" /\ UNCHANGED <<sockets, sock>>
    /\ UNCHANGED <<net, smart, ackVars, findVars>>

MqttConnect ==
    /\ mqtt = "connecting" /\ Works /\ mqtt' = "connected"
    /\ UNCHANGED <<net, sockets, smart, ackVars, findVars, sock>>

\* Mutant: the socket is not closed.
FailsOpen ==
    /\ mqtt \in {"connecting", "connected"} /\ ~Works
    /\ mqtt' = "wait" /\ sock' = None
    /\ UNCHANGED <<net, sockets, smart, ackVars, findVars>>

(* A call on the socket fails, and it is closed.                           *)
MqttFails ==
    /\ mqtt \in {"connecting", "connected"} /\ ~Works
    /\ mqtt' = "wait" /\ Close(sock) /\ sock' = None
    /\ UNCHANGED <<net, smart, ackVars, findVars>>

MqttWaited ==
    /\ mqtt = "wait" /\ mqtt' = "init"
    /\ UNCHANGED <<net, sockets, smart, ackVars, findVars, sock>>

-----------------------------------------------------------------------------
Ack  == AckOpen \/ AckOver \/ AckEnd
Find == FindSocket \/ FindPrepare \/ FindAnswer \/ FindClose \/ FindFallsOut
Mqtt == MqttSocket \/ MqttConnect \/ MqttFails \/ MqttWaited

Next == NetworkChanges \/ Ack \/ SmartOver \/ Find \/ Mqtt

(* Only the client has to run on: no phone needs to look for the device.   *)
Spec     == Init /\ [][Next]_vars
FairSpec == Spec /\ WF_vars(Mqtt)

-----------------------------------------------------------------------------
TypeOK ==
    /\ net \in BOOLEAN /\ sockets \in [Fds -> Users \cup {"free"}]
    /\ smart \in {"wait", "over", "done"}
    /\ ack \in {"start", "open", "over", "ended"} /\ send_sock \in Fds \cup {None}
    /\ find \in {"none", "socket", "bind", "receive", "close", "over", "ended"}
    /\ sock_server \in Fds \cup {None} /\ counts \in 0..Packets + 2
    /\ handleLlocalFind \in BOOLEAN
    /\ mqtt \in {"init", "connecting", "connected", "wait"} /\ sock \in Fds \cup {None}

Held == [ack |-> send_sock, find |-> sock_server, mqtt |-> sock]

(* Nobody's socket is closed under him, although every descriptor is used  *)
(* again as soon as it is free and TaskCreatSocket closes one that it has  *)
(* not opened: what a descriptor is open for is what its holder opened it  *)
(* for.                                                                    *)
SocketsOwned ==
    \A user \in Users : Held[user] # None => sockets[Held[user]] = user

(* What is open is held by the one who opened it, so that nobody has more  *)
(* than one of the few sockets: all that is leaked is the one that         *)
(* TaskCreatSocket leaves open whichever way it ends.                      *)
OneSocketEach ==
    \A fd \in Fds : sockets[fd] # "free" => fd = Held[sockets[fd]]

(* A network that stays good gets the client connected for good, on a      *)
(* socket that is its own: however often it has lost its connection, there *)
(* is a socket left for it.  The device must not go on restarting: either  *)
(* SmartConfig is left for good or the phone does not come.                *)
MqttComesBack ==
    <>[]net /\ (<>[](smart # "wait") \/ <>[](smart = "wait"))
    => <>[](mqtt = "connected" /\ sockets[sock] = "mqtt")
=============================================================================
