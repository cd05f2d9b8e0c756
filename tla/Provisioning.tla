---------------------------- MODULE Provisioning ----------------------------
(***************************************************************************)
(* The credentials of the router: TaskSmartConfigAirKiss2Net reads them or *)
(* starts SmartConfig, sc_callback stores what a phone has sent, and a     *)
(* long press (key_task) erases them and restarts the device.              *)
(*                                                                         *)
(* Each call of NVS is a step, under the lock of NVS; the power may fail   *)
(* between any two.  SmartConfig is a library of the SDK without source:   *)
(* it calls back with SC_STATUS_LINK for what a phone has sent, starts     *)
(* over when it times out, and calls back with SC_STATUS_LINK_OVER when    *)
(* the station has an address and the phone has been told.                 *)
(***************************************************************************)
EXTENDS Integers

CONSTANTS
    Networks,  \* what phones send: a network stands for its ssid and its password
    Length,    \* and this is how long they are
    None,      \* nothing is stored
    NvsFails   \* whether a call of NVS may fail

ASSUME ProvisioningAssumption ==
    /\ Length \in [Networks -> [ssid : 0..32, password : 0..64]]
    /\ None \notin Networks /\ NvsFails \in BOOLEAN

VARIABLES
    flash,   \* "wifi_info": for each of its two entries the network it is of
    config,  \* the same for what the station uses
    found,   \* the ssid routerStartConnect has read
    prov,    \* where TaskSmartConfigAirKiss2Net is
    sc,      \* where SmartConfig and its callback are
    sent,    \* the network of the last SC_STATUS_LINK
    bits,    \* wifi_event_group
    key,     \* where key_task is
    held,    \* history: a long press since SmartConfig was last started
    spoiled  \* history: a save failed, overflowed, or was cut off by a restart

vars == <<flash, config, found, prov, sc, sent, bits, key, held, spoiled>>

Entries  == {"ssid", "password"}
Nothing  == [e \in Entries |-> None]
Stored   == \A e \in Entries : flash[e] # None
DoneBits == {"esptouch", "airkiss"}

(* What strncpy makes of them: a ssid of 32 bytes has no end, and goes on  *)
(* with the password that follows it; data takes 64 and an end.            *)
Chars(n, e) == IF e = "ssid" /\ Length[n].ssid = 32
               THEN 32 + Length[n].password
               ELSE Length[n][e]

Overflows(n, e) == Chars(n, e) > 64

(* nvs_get_str has room for 32 and 64, which the end takes one of.         *)
Room    == [ssid |-> 32, password |-> 64]
Fits(n, e) == n # None /\ Chars(n, e) < Room[e]

-----------------------------------------------------------------------------
Init ==
    /\ flash \in {Nothing} \cup {[e \in Entries |-> n] : n \in Networks}
    /\ config = Nothing /\ found = None
    /\ prov = "init" /\ sc = "off" /\ sent = None /\ bits = {}
    /\ key = "scan" /\ held = FALSE /\ spoiled = FALSE

Saving == sc \in {"open", "ssid", "password"}

Reset ==
    /\ config' = Nothing /\ found' = None
    /\ prov' = "init" /\ sc' = "off" /\ sent' = None /\ bits' = {}
    /\ key' = "scan"
    /\ spoiled' = (spoiled \/ Saving)
    /\ UNCHANGED <<flash, held>>

(* During the delay of key_task this is KeyRestart.                        *)
PowerLoss == key # "delay" /\ Reset

-----------------------------------------------------------------------------
(* TaskSmartConfigAirKiss2Net.                                             *)

(* routerStartConnect opens "wifi_info", which is not there before the     *)
(* first save ...                                                          *)
ProvOpen ==
    /\ prov = "init" /\ key # "wiping"
    /\ prov' = "ssid" \/ ((NvsFails \/ flash = Nothing) /\ prov' = "smart")
    /\ UNCHANGED <<flash, config, found, sc, sent, bits, key, held, spoiled>>

(* ... gets the ssid ...                                                   *)
ProvGetSsid ==
    /\ prov = "ssid" /\ key # "wiping"
    /\ \/ Fits(flash["ssid"], "ssid") /\ found' = flash["ssid"] /\ prov' = "password"
       \/ (NvsFails \/ ~Fits(flash["ssid"], "ssid")) /\ found' = None /\ prov' = "smart"
    /\ UNCHANGED <<flash, config, sc, sent, bits, key, held, spoiled>>

(* ... and the password, and connects ...                                  *)
ProvGetPassword ==
    /\ prov = "password" /\ key # "wiping"
    /\ \/ /\ Fits(flash["password"], "password") /\ prov' = "done"
          /\ config' = [flash EXCEPT !["ssid"] = found]
       \/ /\ NvsFails \/ ~Fits(flash["password"], "password")
          /\ prov' = "smart" /\ config' = config
    /\ found' = None
    /\ UNCHANGED <<flash, sc, sent, bits, key, held, spoiled>>

(* ... or fails, and SmartConfig is started.                               *)
ProvSmartConfig ==
    /\ prov = "smart"
    /\ prov' = "wait" /\ sc' = "listen" /\ held' = FALSE
    /\ UNCHANGED <<flash, config, found, sent, bits, key, spoiled>>

\* Mutant: the bits are tested in the wrong order.
ConnectedFirst ==
    /\ prov = "wait" /\ bits # {}
    /\ bits' = {}
    /\ IF "connected" \notin bits
       THEN prov' = "done" /\ sc' = "off"
       ELSE UNCHANGED <<prov, sc>>
    /\ UNCHANGED <<flash, config, found, sent, key, held, spoiled>>

(* xEventGroupWaitBits returns the bits and clears them all.               *)
ProvWait ==
    /\ prov = "wait" /\ bits # {}
    /\ bits' = {}
    /\ IF bits \cap DoneBits # {}
       THEN prov' = "done" /\ sc' = "off"
       ELSE UNCHANGED <<prov, sc>>
    /\ UNCHANGED <<flash, config, found, sent, key, held, spoiled>>

-----------------------------------------------------------------------------
(* SmartConfig and sc_callback.                                            *)

\* Mutant: SC_STATUS_LINK stores only when nothing is stored.
LinkSavesOnce ==
    /\ sc = "listen"
    /\ \E n \in Networks : sent' = n /\ config' = [e \in Entries |-> n]
    /\ sc' = IF Stored THEN "linking" ELSE "open"
    /\ UNCHANGED <<flash, found, prov, bits, key, held, spoiled>>

(* SC_STATUS_LINK: the station connects, then router_wifi_save_info.       *)
ScLink ==
    /\ sc = "listen"
    /\ \E n \in Networks : sent' = n /\ config' = [e \in Entries |-> n]
    /\ sc' = "open"
    /\ UNCHANGED <<flash, found, prov, bits, key, held, spoiled>>

ScOpen ==
    /\ sc = "open" /\ key # "wiping"
    /\ \/ sc' = "ssid" /\ spoiled' = spoiled
       \/ NvsFails /\ sc' = "linking" /\ spoiled' = TRUE
    /\ UNCHANGED <<flash, config, found, prov, sent, bits, key, held>>

(* nvs_set_str: what it returns is only printed.  Past an overflow it may  *)
(* or may not be reached; the restart that ends it is PowerLoss.           *)
Set(e) ==
    \/ /\ flash' = [flash EXCEPT ![e] = sent]
       /\ spoiled' = (spoiled \/ Overflows(sent, e))
    \/ /\ NvsFails \/ Overflows(sent, e)
       /\ flash' = flash /\ spoiled' = TRUE

ScSaveSsid ==
    /\ sc = "ssid" /\ key # "wiping" /\ sc' = "password"
    /\ Set("ssid")
    /\ UNCHANGED <<config, found, prov, sent, bits, key, held>>

\* Mutant: a password is stored only where there is none.
SaveFirstPassword ==
    /\ sc = "password" /\ key # "wiping" /\ sc' = "linking"
    /\ IF flash["password"] = None THEN Set("password") ELSE UNCHANGED <<flash, spoiled>>
    /\ UNCHANGED <<config, found, prov, sent, bits, key, held>>

ScSavePassword ==
    /\ sc = "password" /\ key # "wiping" /\ sc' = "linking"
    /\ Set("password")
    /\ UNCHANGED <<config, found, prov, sent, bits, key, held>>

ScTimeout ==
    /\ sc = "linking" /\ sc' = "listen"
    /\ UNCHANGED <<flash, config, found, prov, sent, bits, key, held, spoiled>>

(* SC_STATUS_LINK_OVER, for ESPTouch or for AirKiss: the task that calls   *)
(* back (smartconfig_ack.c) always says which, with pdata.                 *)
ScLinkOver ==
    /\ sc = "linking" /\ sc' = "over"
    /\ \E b \in DoneBits : bits' = bits \cup {b}
    /\ UNCHANGED <<flash, config, found, prov, sent, key, held, spoiled>>

-----------------------------------------------------------------------------
(* event_handler: the station gets an address, or loses its link.          *)

GotIp ==
    /\ config # Nothing
    /\ bits' = bits \cup {"connected"}
    /\ UNCHANGED <<flash, config, found, prov, sc, sent, key, held, spoiled>>

Disconnected ==
    /\ bits' = bits \ {"connected"}
    /\ UNCHANGED <<flash, config, found, prov, sc, sent, key, held, spoiled>>

-----------------------------------------------------------------------------
(* key_task, on a long press: nvs_erase_all erases one entry after the     *)
(* other, holding the lock of NVS, and stops where it fails.               *)

KeyLongPress ==
    /\ key = "scan"
    /\ \/ \E e \in Entries : flash' = [flash EXCEPT ![e] = None] /\ key' = "wiping"
       \/ NvsFails /\ flash' = flash /\ key' = "delay"
    /\ held' = TRUE
    /\ UNCHANGED <<config, found, prov, sc, sent, bits, spoiled>>

\* Mutant: the entries are gone, not empty.
WipeDropsEntries ==
    /\ key = "wiping" /\ key' = "delay"
    /\ flash' = [e \in {} |-> None]
    /\ UNCHANGED <<config, found, prov, sc, sent, bits, held, spoiled>>

KeyWipe ==
    /\ key = "wiping" /\ key' = "delay"
    /\ \/ flash' = Nothing
       \/ NvsFails /\ flash' = flash
    /\ UNCHANGED <<config, found, prov, sc, sent, bits, held, spoiled>>

(* After the delay of 2.5 s, during which the other tasks go on.           *)
KeyRestart == key = "delay" /\ Reset

-----------------------------------------------------------------------------
Next == \/ PowerLoss
        \/ ProvOpen \/ ProvGetSsid \/ ProvGetPassword \/ ProvSmartConfig \/ ProvWait
        \/ ScLink \/ ScOpen \/ ScSaveSsid \/ ScSavePassword \/ ScTimeout \/ ScLinkOver
        \/ GotIp \/ Disconnected
        \/ KeyLongPress \/ KeyWipe \/ KeyRestart

(* Only the waiting task has to run on: phones may never come.             *)
Spec     == Init /\ [][Next]_vars
FairSpec == Spec /\ WF_vars(ProvWait)

-----------------------------------------------------------------------------
TypeOK ==
    /\ flash \in [Entries -> Networks \cup {None}]
    /\ config \in [Entries -> Networks \cup {None}]
    /\ found \in Networks \cup {None}
    /\ prov \in {"init", "ssid", "password", "smart", "wait", "done"}
    /\ sc \in {"off", "listen", "open", "ssid", "password", "linking", "over"}
    /\ sent \in Networks \cup {None} /\ bits \subseteq DoneBits \cup {"connected"}
    /\ key \in {"scan", "wiping", "delay"}
    /\ held \in BOOLEAN /\ spoiled \in BOOLEAN

(* A ssid is never stored with the password of another network, unless a   *)
(* save failed or was interrupted: saves repeated by SmartConfig and long  *)
(* presses in the middle of a save do not mix two networks.                *)
PairsTogether ==
    Stored /\ ~spoiled /\ sc # "password" => flash["ssid"] = flash["password"]

(* A device that has been provisioned will read what it is using when it   *)
(* starts next, and connect by itself, unless a save failed or a long      *)
(* press is under way: it does not matter how often the phone had to try.  *)
(* This is for a ssid of less than 32 and a password of less than 64       *)
(* bytes: with longer ones it works until it restarts.                     *)
ReadsBack == [e \in Entries |-> IF Fits(flash[e], e) THEN flash[e] ELSE None]

StoresWhatItUses ==
    /\ prov = "done" /\ key = "scan" /\ ~spoiled
    /\ \A e \in Entries : Fits(config[e], e)
    => ReadsBack = config

(* Once the phone has been told, SmartConfig is stopped, although the task *)
(* that stops it clears every bit whenever one of them is set.             *)
SmartConfigStops == sc = "over" ~> sc = "off"

(* README.md:8 says that a long press makes the device enter provisioning  *)
(* mode: the restart that follows it does not connect to a router.         *)
HoldEntersProvisioning == held /\ key = "scan" => prov # "done"
=============================================================================
