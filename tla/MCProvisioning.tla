--------------------------- MODULE MCProvisioning ---------------------------
(* Provisioning with networks whose ssid and password come back, whose     *)
(* password does not, whose ssid does not, and whose ssid overflows data.  *)
EXTENDS Provisioning

MCNetworks == {"home", "office", "psk", "name", "both"}
MCOneNetwork == {"home"}

LengthsOf(networks) ==
    [n \in networks |->
        [ssid     |-> IF n \in {"name", "both"} THEN 32 ELSE 31,
         password |-> IF n \in {"psk", "both"} THEN 64 ELSE IF n = "name" THEN 32 ELSE 63]]

MCLength == LengthsOf(MCNetworks)
MCOneLength == LengthsOf(MCOneNetwork)
=============================================================================
