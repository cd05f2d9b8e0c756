--------------------------- MODULE KeyScan_proofs ---------------------------
(***************************************************************************)
(* Proofs about KeyScan.  The invariant Counters relates the two counters  *)
(* of key_scan and its copies of the sample; that the code reports what    *)
(* Button promises follows from it, step by step.                          *)
(***************************************************************************)
EXTENDS KeyScan, TLAPS

(* While the button is down LongKeyTimer and longKeyBuff run in opposite   *)
(* directions and add up to HoldTime; a hold stops the scans, so that no   *)
(* release ever sees a longKeyBuff above HoldTime.                         *)
Counters ==
    /\ tmpReadData = keyLongBuff
    /\ (keyLongBuff = 0) <=> (longKeyBuff = 0)
    /\ keyLong = 0 /\ keyLongBuff = 1 => LongKeyTimer + longKeyBuff = HoldTime
    /\ keyLongBuff = 0 => LongKeyTimer = 0 \/ LongKeyTimer = HoldTime
    /\ task = "scan" => keyLong = 0
    /\ longKey = 0

(* A press that has been reported stays reported: the contact settles down *)
(* with it or the finger has left.                                         *)
Toggles ==
    /\ toggles = 0 \/ toggles = 1
    /\ toggles = 1 =>
          \/ finger = "down" /\ ~bouncing /\ keyLongBuff = 1
          \/ finger = "up" /\ (~bouncing \/ keyLongBuff = 1)

(* The invariant holds at boot.                                            *)
LEMMA InitInv == Init => TypeOK /\ Counters /\ Toggles
BY TimesAssumption DEF Init, TypeOK, Counters, Toggles, Bits

(* The count of the reported presses stays a natural number.               *)
LEMMA NatPlusBit == \A n \in Nat : \A b \in {0, 1} : n + b \in Nat
OBVIOUS

(* Every step keeps the type invariant.                                    *)
LEMMA TypeStep == TypeOK /\ [Next]_vars => TypeOK'
<1> SUFFICES ASSUME TypeOK, [Next]_vars PROVE TypeOK'
  OBVIOUS
<1> USE TimesAssumption DEF TypeOK, Bits, reports, counters, contact
<1>1. CASE FingerDown BY <1>1 DEF FingerDown
<1>2. CASE FingerUp BY <1>2 DEF FingerUp
<1>3. CASE Provisioned BY <1>3 DEF Provisioned
<1>4. CASE PowerLoss BY <1>4 DEF PowerLoss, Reset
<1>5. CASE Scan
  <2> PICK r \in Samples : Edge(r) /\ keyLongBuff' = r /\ Hold(r) /\ Release(r)
    BY <1>5 DEF Scan
  <2>1. r \in Bits
    BY DEF Samples
  <2>2. keyShort' \in Bits
    BY DEF Edge
  <2>3. keyLong' \in Bits /\ LongKeyTimer' \in Nat
    BY DEF Hold
  <2>4. /\ longKeyBuff' \in Nat /\ tmpReadData' \in Bits
        /\ shortKey' \in Bits /\ longKey' \in Bits
    BY DEF Release
  <2>5. toggles' \in Nat
    <3>1. toggles' = toggles + keyShort'
      BY <1>5 DEF Scan
    <3>2. toggles \in Nat /\ keyShort' \in {0, 1}
      BY <2>2
    <3> HIDE DEF TypeOK, Bits
    <3> QED BY <3>1, <3>2, NatPlusBit
  <2>6. task' \in {"scan", "press", "long", "restart"}
    BY <1>5 DEF Scan
  <2> QED
    BY <1>5, <2>1, <2>2, <2>3, <2>4, <2>5, <2>6 DEF Scan
<1>6. CASE Press BY <1>6 DEF Press
<1>7. CASE LongPress BY <1>7 DEF LongPress
<1>8. CASE Restart BY <1>8 DEF Restart, Reset
<1>9. CASE UNCHANGED vars BY <1>9 DEF vars
<1> QED BY <1>1, <1>2, <1>3, <1>4, <1>5, <1>6, <1>7, <1>8, <1>9 DEF Next, KeyTask

(* Every step keeps the relation between the counters.                     *)
LEMMA CountersStep == TypeOK /\ Counters /\ [Next]_vars => Counters'
<1> SUFFICES ASSUME TypeOK, Counters, [Next]_vars PROVE Counters'
  OBVIOUS
<1> USE TimesAssumption, SameLongAssumption DEF Counters
<1>1. CASE FingerDown BY <1>1 DEF FingerDown, reports, counters
<1>2. CASE FingerUp BY <1>2 DEF FingerUp, reports, counters
<1>3. CASE Provisioned BY <1>3 DEF Provisioned, reports, counters
<1>4. CASE PowerLoss BY <1>4 DEF PowerLoss, Reset
<1>5. CASE Scan
  <2> PICK r \in Samples : Edge(r) /\ keyLongBuff' = r /\ Hold(r) /\ Release(r)
    BY <1>5 DEF Scan
  <2> USE DEF TypeOK, Bits
  <2>0. keyLong = 0
    BY <1>5 DEF Scan
  <2>1. CASE r = 0
    <3>1. keyLong' = 0 /\ LongKeyTimer' = HoldTime
      BY <2>1 DEF Hold
    <3>2. longKeyBuff <= HoldTime
      BY <2>0
    <3>3. longKeyBuff' = 0 /\ tmpReadData' = 0 /\ longKey' = 0
      BY <2>1, <3>2 DEF Release
    <3> QED BY <2>1, <3>1, <3>3
  <2>2. CASE r = 1
    <3>1. longKeyBuff' = longKeyBuff + 1 /\ tmpReadData' = 1 /\ longKey' = 0
      BY <2>2 DEF Release
    <3>2. keyLong' = 0 => LongKeyTimer' + longKeyBuff' = HoldTime
      BY <2>0, <2>2, <3>1 DEF Hold
    <3>3. task' = "scan" => keyLong' = 0
      <4>1. keyLong' \in {0, 1}
        BY <2>0, <2>2 DEF Hold
      <4> QED BY <1>5, <4>1 DEF Scan
    <3> QED BY <2>2, <3>1, <3>2, <3>3
  <2>3. r = 0 \/ r = 1
    BY DEF Samples
  <2> QED BY <2>1, <2>2, <2>3
<1>6. CASE Press
  BY <1>6 DEF Press, reports, counters, TypeOK, Bits
<1>7. CASE LongPress BY <1>7 DEF LongPress, reports, counters
<1>8. CASE Restart BY <1>8 DEF Restart, Reset
<1>9. CASE UNCHANGED vars BY <1>9 DEF vars, reports, counters
<1> QED BY <1>1, <1>2, <1>3, <1>4, <1>5, <1>6, <1>7, <1>8, <1>9 DEF Next, KeyTask

(* Every step keeps the bound on the toggles of a press.                   *)
LEMMA TogglesStep == TypeOK /\ Toggles /\ [Next]_vars => Toggles'
<1> SUFFICES ASSUME TypeOK, Toggles, [Next]_vars PROVE Toggles'
  OBVIOUS
<1> USE DEF Toggles, contact, counters
<1>1. CASE FingerDown BY <1>1 DEF FingerDown
<1>2. CASE FingerUp BY <1>2 DEF FingerUp, TypeOK
<1>3. CASE Provisioned BY <1>3 DEF Provisioned
<1>4. CASE PowerLoss BY <1>4 DEF PowerLoss, Reset
<1>5. CASE Scan
  <2> PICK r \in Samples : Edge(r) /\ keyLongBuff' = r
    BY <1>5 DEF Scan
  <2>0. toggles' = toggles + keyShort'
    BY <1>5 DEF Scan
  <2>1. bouncing' = FALSE /\ finger' = finger
    BY <1>5 DEF Scan
  <2>2. CASE toggles = 0
    <3>1. keyShort' = 0 \/ (keyShort' = 1 /\ keyLongBuff' = 1)
      BY DEF Edge
    <3>2. toggles' = keyShort'
      BY <2>0, <2>2, <3>1
    <3>3. finger' = "up" \/ finger' = "down"
      BY <2>1 DEF TypeOK
    <3>4. toggles' = 0 \/ (toggles' = 1 /\ keyLongBuff' = 1)
      BY <3>1, <3>2
    <3> QED BY <2>1, <3>3, <3>4
  <2>3. CASE toggles = 1
    <3>1. keyLongBuff = 1 \/ r = 0
      BY <2>3 DEF Samples
    <3>2. keyShort' = 0
      BY <3>1 DEF Edge
    <3>3. finger = "down" => r = 1
      BY <2>3 DEF Samples
    <3> QED BY <2>0, <2>1, <2>3, <3>2, <3>3 DEF TypeOK
  <2> QED BY <2>2, <2>3
<1>6. CASE Press BY <1>6 DEF Press
<1>7. CASE LongPress BY <1>7 DEF LongPress
<1>8. CASE Restart BY <1>8 DEF Restart, Reset
<1>9. CASE UNCHANGED vars BY <1>9 DEF vars
<1> QED BY <1>1, <1>2, <1>3, <1>4, <1>5, <1>6, <1>7, <1>8, <1>9 DEF Next, KeyTask

(* The three parts together are an invariant of the specification.         *)
THEOREM KeyInvariant == Spec => [](TypeOK /\ Counters /\ Toggles)
<1>1. Init => TypeOK /\ Counters /\ Toggles
  BY InitInv
<1>2. (TypeOK /\ Counters /\ Toggles) /\ [Next]_vars => (TypeOK /\ Counters /\ Toggles)'
  BY TypeStep, CountersStep, TogglesStep
<1> QED BY <1>1, <1>2, PTL DEF Spec

(* The type invariant of KeyScan holds of every behaviour.                 *)
THEOREM KeyTypeCorrect == Spec => []TypeOK
BY KeyInvariant, PTL

(* One press of the finger toggles the relays at most once: the scan finds *)
(* a rising edge once, whatever a bouncing contact reads.                  *)
THEOREM PressTogglesOnce == Spec => []OneTogglePerPress
<1>1. Toggles => OneTogglePerPress
  BY DEF Toggles, OneTogglePerPress
<1> QED BY <1>1, KeyInvariant, PTL

-----------------------------------------------------------------------------
(* KeyScan implements Button.                                              *)

(* What the reports of key_scan are after a sample, in terms of the scans  *)
(* that found the button pressed before.                                   *)
LEMMA ScanReports ==
    ASSUME TypeOK, Counters, keyLong = 0, NEW r \in {0, 1},
           Edge(r), keyLongBuff' = r, Hold(r), Release(r)
    PROVE  /\ keyShort' = 1 <=> r = 1 /\ longKeyBuff = 0
           /\ keyLong' = 1 <=> r = 1 /\ ( \/ LongKeyTimer = 0 /\ longKeyBuff = 0
                                        \/ longKeyBuff = HoldTime)
           /\ shortKey' = 1 <=> r = 0 /\ longKeyBuff > 0 /\ longKeyBuff < ShortTime
           /\ longKey' = 0
           /\ longKeyBuff' = IF r = 1 THEN longKeyBuff + 1 ELSE 0
           /\ LongKeyTimer' # 0 \/ longKeyBuff' # 0
<1> USE TimesAssumption, SameLongAssumption
<1>0. /\ longKeyBuff \in Nat /\ LongKeyTimer \in Nat /\ longKey = 0
      /\ keyLongBuff \in {0, 1} /\ tmpReadData = keyLongBuff
      /\ (keyLongBuff = 0) <=> (longKeyBuff = 0)
      /\ keyLongBuff = 1 => LongKeyTimer + longKeyBuff = HoldTime
      /\ keyLongBuff = 0 => LongKeyTimer = 0 \/ LongKeyTimer = HoldTime
  BY DEF TypeOK, Counters, Bits
<1>1. CASE r = 0
  <2>1. keyLong' = 0 /\ LongKeyTimer' = HoldTime
    BY <1>1 DEF Hold
  <2>2. keyShort' = 0
    BY <1>1 DEF Edge
  <2>3. longKeyBuff' = 0 /\ longKey' = 0
    BY <1>0, <1>1 DEF Release
  <2>4. shortKey' = 1 <=> (longKeyBuff > 0 /\ longKeyBuff < ShortTime)
    BY <1>0, <1>1 DEF Release
  <2> QED BY <1>1, <2>1, <2>2, <2>3, <2>4
<1>2. CASE r = 1
  <2>1. keyShort' = 1 <=> longKeyBuff = 0
    BY <1>0, <1>2 DEF Edge
  <2>2. longKeyBuff' = longKeyBuff + 1 /\ shortKey' = 0 /\ longKey' = 0
    BY <1>2 DEF Release
  <2>3. keyLong' = 1 <=> LongKeyTimer = 0
    BY <1>2 DEF Hold
  <2>4. LongKeyTimer = 0 <=> ( \/ LongKeyTimer = 0 /\ longKeyBuff = 0
                              \/ longKeyBuff = HoldTime)
    BY <1>0
  <2> QED BY <1>0, <1>2, <2>1, <2>2, <2>3, <2>4
<1> QED BY <1>1, <1>2

(* A scan is a scan of the abstract button.                                *)
LEMMA ScanMaps == TypeOK /\ Counters /\ Scan => B!Next
<1> SUFFICES ASSUME TypeOK, Counters, Scan PROVE B!Next
  OBVIOUS
<1> PICK r \in Samples : Edge(r) /\ keyLongBuff' = r /\ Hold(r) /\ Release(r)
  BY DEF Scan
<1>1. r \in {0, 1} /\ keyLong = 0
  BY DEF Samples, Scan, Counters
<1> DEFINE pressed == r = 1
<1>2. /\ keyShort' = 1 <=> pressed /\ longKeyBuff = 0
      /\ keyLong' = 1 <=> pressed /\ ( \/ LongKeyTimer = 0 /\ longKeyBuff = 0
                                      \/ longKeyBuff = HoldTime)
      /\ shortKey' = 1 <=> ~pressed /\ longKeyBuff > 0 /\ longKeyBuff < ShortTime
      /\ longKey' = 0
      /\ longKeyBuff' = IF pressed THEN longKeyBuff + 1 ELSE 0
      /\ LongKeyTimer' # 0 \/ longKeyBuff' # 0
  BY <1>1, ScanReports
<1>3. pressed \in BOOLEAN
  OBVIOUS
<1> HIDE DEF pressed
<1>4. "hold" \notin Reports
  BY <1>1 DEF Reports
<1>5. (LongKeyTimer = 0 /\ longKeyBuff = 0)' = FALSE
  BY <1>2
<1>6. Reports' = B!Reported(pressed)
  <2>1. longKey' # 1
    BY <1>2
  <2>2. ASSUME NEW e PROVE e \in Reports' <=> e \in B!Reported(pressed)
    BY <1>2, <2>1, Zenon DEF Reports, B!Reported
  <2> QED BY <2>2 DEF Reports, B!Reported
<1>7. B!Scan(pressed)
  BY <1>2, <1>4, <1>5, <1>6 DEF B!Scan
<1> QED BY <1>3, <1>7 DEF B!Next

(* Every step is a step of the abstract button or leaves it unchanged.     *)
LEMMA ButtonStep ==
    TypeOK /\ Counters /\ [Next]_vars
        => [B!Next]_<<LongKeyTimer = 0 /\ longKeyBuff = 0, longKeyBuff, Reports>>
<1> SUFFICES ASSUME TypeOK, Counters, [Next]_vars
             PROVE  [B!Next]_<<LongKeyTimer = 0 /\ longKeyBuff = 0, longKeyBuff, Reports>>
  OBVIOUS
<1>1. CASE Scan BY <1>1, ScanMaps
<1>2. CASE Reset
  <2>1. Reports' = {}
    BY <1>2 DEF Reset, Reports
  <2>2. (LongKeyTimer = 0 /\ longKeyBuff = 0)' = TRUE /\ longKeyBuff' = 0
    BY <1>2 DEF Reset
  <2> QED BY <2>1, <2>2 DEF B!Next, B!Restart
<1>3. CASE UNCHANGED <<reports, counters>>
  BY <1>3 DEF reports, counters, Reports
<1>4. FingerDown \/ FingerUp \/ Provisioned \/ Press \/ LongPress \/ UNCHANGED vars
        => UNCHANGED <<reports, counters>>
  BY DEF FingerDown, FingerUp, Provisioned, Press, LongPress, vars
<1> QED BY <1>1, <1>2, <1>3, <1>4 DEF Next, KeyTask, PowerLoss, Restart

(* key_scan reports presses, holds and clicks exactly as Button promises,  *)
(* for every choice of its times: the long click is never reported, and a  *)
(* button that is down at the first scan after a boot is taken for a hold. *)
THEOREM ScanImplementsButton == Spec => ImplementsButton
<1>1. Init => B!Init
  BY DEF Init, B!Init, Reports
<1> QED BY <1>1, ButtonStep, KeyInvariant, PTL DEF Spec, ImplementsButton, B!Spec
=============================================================================
