----------------------------- MODULE DurableMap -----------------------------
(***************************************************************************)
(* What the application relies on when it calls NVS: nvs_set_blob and      *)
(* nvs_set_str take effect at one instant before they return ESP_OK, or    *)
(* not at all when they return an error; nvs_erase_all takes one key after *)
(* the other away; and when the power fails, a call has taken effect or    *)
(* has not.                                                                *)
(***************************************************************************)
CONSTANTS Keys, ValuesOf, None, Namespaces, NamespaceOf

VARIABLES
    map,   \* the value of each key, or None
    call,  \* the call in progress
    reply  \* what the last call returned, "none" after a start

mapVars == <<map, call, reply>>

Idle            == [op |-> "none"]
SetCall(k, v)   == [op |-> "set", key |-> k, value |-> v]
Done(c)         == [op |-> "done", key |-> c.key, value |-> c.value]
ClearCall(ns)   == [op |-> "clear", namespace |-> ns]
KeysOf(ns)      == {k \in Keys : NamespaceOf[k] = ns}

MapInit ==
    /\ map = [k \in Keys |-> None]
    /\ call = Idle
    /\ reply = "none"

Begin ==
    /\ call = Idle
    /\ reply' = "none"
    /\ \/ \E k \in Keys : \E v \in ValuesOf[k] : call' = SetCall(k, v)
       \/ \E ns \in Namespaces : call' = ClearCall(ns)
    /\ UNCHANGED map

Store ==
    /\ call.op = "set"
    /\ map' = [map EXCEPT ![call.key] = call.value]
    /\ call' = Done(call)
    /\ UNCHANGED reply

Remove ==
    /\ call.op = "clear"
    /\ \E k \in KeysOf(call.namespace) :
           map[k] # None /\ map' = [map EXCEPT ![k] = None]
    /\ UNCHANGED <<call, reply>>

Return ==
    /\ call' = Idle
    /\ \/ call.op = "set" /\ reply' = "error"
       \/ call.op = "done" /\ reply' = "ok"
       \/ /\ call.op = "clear" /\ reply' = "ok"
          /\ \A k \in KeysOf(call.namespace) : map[k] = None
    /\ UNCHANGED map

PowerFails ==
    /\ call' = Idle
    /\ reply' = "none"
    /\ UNCHANGED map

MapNext == Begin \/ Store \/ Remove \/ Return \/ PowerFails

MapSpec == MapInit /\ [][MapNext]_mapVars
=============================================================================
