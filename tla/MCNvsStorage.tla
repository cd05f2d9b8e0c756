---------------------------- MODULE MCNvsStorage ----------------------------
(***************************************************************************)
(* Three keys on three pages of four entries: the mask, with a value of    *)
(* four entries, and in another namespace a string of three and a number,  *)
(* with its single entry and two values.  Together they fill two pages, so *)
(* that the partition can be full.                                         *)
(***************************************************************************)
EXTENDS NvsStorage

CONSTANTS mask, ssid, channel, m1, s1, c1, c2

MCNamespaceOf == (mask :> "EepromParameter") @@ (ssid :> "wifi_info") @@ (channel :> "wifi_info")
MCValuesOf    == (mask :> {m1}) @@ (ssid :> {s1}) @@ (channel :> {c1, c2})
MCDataEntries == (m1 :> 2) @@ (s1 :> 2) @@ (c1 :> 0) @@ (c2 :> 0)
MCTailEntries == (m1 :> 1) @@ (s1 :> 0) @@ (c1 :> 0) @@ (c2 :> 0)
=============================================================================
