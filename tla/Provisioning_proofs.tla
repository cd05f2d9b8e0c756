------------------------- MODULE Provisioning_proofs ------------------------
(***************************************************************************)
(* Proofs about Provisioning, for any networks, however long their ssids   *)
(* and passwords, and whether or not NVS may fail: two networks are not    *)
(* mixed, and a provisioned device will read what it is using, if it fits, *)
(* as long as no save was spoiled.                                         *)
(***************************************************************************)
EXTENDS Provisioning, TLAPS

(* SmartConfig runs only while the task waits for it, and the phone has    *)
(* been told when one of the done bits is set.                             *)
Phases ==
    /\ prov # "wait" => sc = "off"
    /\ sc = "off" => prov # "wait"
    /\ bits \cap DoneBits # {} => sc = "over"

(* routerStartConnect goes on with the ssid that is stored, unless a long  *)
(* press has been there meanwhile.                                         *)
Reading == prov = "password" /\ key = "scan" => found = flash["ssid"]

(* From SC_STATUS_LINK on the station uses what the phone has sent.        *)
Linked == sc \in {"open", "ssid", "password", "linking", "over"}
Using  == Linked => config = [e \in Entries |-> sent]

(* What is stored while the callback is at work and after it, unless a     *)
(* save was spoiled: a long press can only take an entry away.             *)
Saves ==
    ~spoiled =>
        /\ Stored /\ sc # "password" => flash["ssid"] = flash["password"]
        /\ sc = "password" => flash["ssid"] \in {sent, None}
        /\ sc = "password" /\ key = "scan" => flash["ssid"] = sent
        /\ sc \in {"linking", "over"} /\ key = "scan" => flash = config
        /\ prov = "done" /\ key = "scan" => flash = config

IInv == TypeOK /\ Phases /\ Reading /\ Using /\ Saves

(* The invariant holds at the first boot.                                  *)
LEMMA InitIInv == Init => IInv
BY ProvisioningAssumption
   DEF Init, IInv, TypeOK, Phases, Reading, Using, Linked, Saves, Stored, Entries, DoneBits, Nothing

(* Every step keeps the type invariant.                                    *)
LEMMA TypeStep == TypeOK /\ [Next]_vars => TypeOK'
<1> SUFFICES ASSUME TypeOK, [Next]_vars PROVE TypeOK'
  OBVIOUS
<1> USE ProvisioningAssumption DEF TypeOK, Entries, DoneBits, Nothing
<1>1. CASE PowerLoss BY <1>1 DEF PowerLoss, Reset, Saving
<1>2. CASE ProvOpen \/ ProvGetSsid BY <1>2 DEF ProvOpen, ProvGetSsid
<1>0. CASE ProvGetPassword BY <1>0 DEF ProvGetPassword
<1>3. CASE ProvSmartConfig BY <1>3 DEF ProvSmartConfig
<1>4. CASE ProvWait BY <1>4 DEF ProvWait
<1>5. CASE ScLink BY <1>5 DEF ScLink
<1>6. CASE ScOpen BY <1>6 DEF ScOpen
<1>7. CASE ScSaveSsid
  <2>1. sent \in Networks \cup {None} /\ flash' \in [Entries -> Networks \cup {None}]
    BY <1>7 DEF ScSaveSsid, Set
  <2> QED BY <1>7, <2>1 DEF ScSaveSsid, Set
<1>8. CASE ScSavePassword
  <2>1. sent \in Networks \cup {None} /\ flash' \in [Entries -> Networks \cup {None}]
    BY <1>8 DEF ScSavePassword, Set
  <2> QED BY <1>8, <2>1 DEF ScSavePassword, Set
<1>9. CASE ScTimeout BY <1>9 DEF ScTimeout
<1>10. CASE ScLinkOver BY <1>10 DEF ScLinkOver
<1>11. CASE GotIp BY <1>11 DEF GotIp
<1>12. CASE Disconnected BY <1>12 DEF Disconnected
<1>13. CASE KeyLongPress BY <1>13 DEF KeyLongPress
<1>14. CASE KeyWipe BY <1>14 DEF KeyWipe
<1>15. CASE KeyRestart BY <1>15 DEF KeyRestart, Reset, Saving
<1>16. CASE UNCHANGED vars BY <1>16 DEF vars
<1> QED
  BY <1>0, <1>1, <1>2, <1>3, <1>4, <1>5, <1>6, <1>7, <1>8, <1>9, <1>10, <1>11, <1>12,
     <1>13, <1>14, <1>15, <1>16 DEF Next

(* Every step keeps the phases.                                            *)
LEMMA PhasesStep == TypeOK /\ Phases /\ [Next]_vars => Phases'
<1> SUFFICES ASSUME TypeOK, Phases, [Next]_vars PROVE Phases'
  OBVIOUS
<1> USE DEF Phases, DoneBits
<1>1. CASE PowerLoss \/ KeyRestart BY <1>1 DEF PowerLoss, KeyRestart, Reset
<1>2. CASE ProvOpen \/ ProvGetSsid BY <1>2 DEF ProvOpen, ProvGetSsid
<1>0. CASE ProvGetPassword BY <1>0 DEF ProvGetPassword
<1>3. CASE ProvSmartConfig BY <1>3 DEF ProvSmartConfig
<1>4. CASE ProvWait BY <1>4 DEF ProvWait
<1>5. CASE ScLink BY <1>5 DEF ScLink
<1>6. CASE ScOpen BY <1>6 DEF ScOpen
<1>7. CASE ScSaveSsid \/ ScSavePassword BY <1>7 DEF ScSaveSsid, ScSavePassword
<1>8. CASE ScTimeout BY <1>8 DEF ScTimeout
<1>9. CASE ScLinkOver BY <1>9 DEF ScLinkOver
<1>10. CASE GotIp BY <1>10 DEF GotIp
<1>11. CASE Disconnected BY <1>11 DEF Disconnected
<1>12. CASE KeyLongPress \/ KeyWipe BY <1>12 DEF KeyLongPress, KeyWipe
<1>13. CASE UNCHANGED vars BY <1>13 DEF vars
<1> QED
  BY <1>0, <1>1, <1>2, <1>3, <1>4, <1>5, <1>6, <1>7, <1>8, <1>9, <1>10, <1>11, <1>12, <1>13
  DEF Next

(* Every step keeps what the station uses and what is stored.              *)
LEMMA SavesStep == IInv /\ [Next]_vars => Reading' /\ Using' /\ Saves'
<1> SUFFICES ASSUME IInv, [Next]_vars PROVE Reading' /\ Using' /\ Saves'
  OBVIOUS
<1> USE ProvisioningAssumption DEF IInv, TypeOK, Phases, Reading, Using, Linked, Saves, Stored, Entries, DoneBits
<1>1. CASE PowerLoss \/ KeyRestart BY <1>1 DEF PowerLoss, KeyRestart, Reset, Saving
<1>2. CASE ProvOpen \/ ProvGetSsid BY <1>2 DEF ProvOpen, ProvGetSsid
<1>0. CASE ProvGetPassword BY <1>0 DEF ProvGetPassword
<1>3. CASE ProvSmartConfig BY <1>3 DEF ProvSmartConfig
<1>4. CASE ProvWait BY <1>4 DEF ProvWait
<1>5. CASE ScLink BY <1>5 DEF ScLink
<1>6. CASE ScOpen BY <1>6 DEF ScOpen
<1>7. CASE ScSaveSsid BY <1>7 DEF ScSaveSsid, Set
<1>8. CASE ScSavePassword BY <1>8 DEF ScSavePassword, Set
<1>9. CASE ScTimeout BY <1>9 DEF ScTimeout
<1>10. CASE ScLinkOver BY <1>10 DEF ScLinkOver
<1>11. CASE GotIp BY <1>11 DEF GotIp
<1>12. CASE Disconnected BY <1>12 DEF Disconnected
<1>13. CASE KeyLongPress BY <1>13 DEF KeyLongPress
<1>14. CASE KeyWipe BY <1>14 DEF KeyWipe, Nothing
<1>15. CASE UNCHANGED vars BY <1>15 DEF vars
<1> QED
  BY <1>0, <1>1, <1>2, <1>3, <1>4, <1>5, <1>6, <1>7, <1>8, <1>9, <1>10, <1>11, <1>12,
     <1>13, <1>14, <1>15 DEF Next

(* The invariant of the module.                                            *)
THEOREM ProvisioningInvariant == Spec => []IInv
<1>1. Init => IInv
  BY InitIInv
<1>2. IInv /\ [Next]_vars => IInv'
  BY TypeStep, PhasesStep, SavesStep DEF IInv
<1> QED BY <1>1, <1>2, PTL DEF Spec

(* A ssid is not stored with the password of another network.              *)
THEOREM ProvisioningKeepsPairs == Spec => []PairsTogether
<1>1. IInv => PairsTogether
  BY DEF IInv, Saves, PairsTogether
<1> QED BY <1>1, ProvisioningInvariant, PTL

(* A provisioned device will read what it is using, if that fits.          *)
THEOREM ProvisioningStoresWhatItUses == Spec => []StoresWhatItUses
<1>1. IInv => StoresWhatItUses
  <2> SUFFICES ASSUME IInv, prov = "done", key = "scan", ~spoiled,
                      \A e \in Entries : Fits(config[e], e)
               PROVE  ReadsBack = config
    BY DEF StoresWhatItUses
  <2>1. flash = config /\ config \in [Entries -> Networks \cup {None}]
    BY DEF IInv, TypeOK, Saves
  <2> QED BY <2>1 DEF ReadsBack
<1> QED BY <1>1, ProvisioningInvariant, PTL

(* The variables keep their types.                                         *)
THEOREM ProvisioningTypeCorrect == Spec => []TypeOK
<1>1. IInv => TypeOK
  BY DEF IInv
<1> QED BY <1>1, ProvisioningInvariant, PTL
=============================================================================
