------------------------------- MODULE Button -------------------------------
(***************************************************************************)
(* What the button of the switch promises, in terms of how many scans in a *)
(* row have found it pressed: a press is reported once, by the first of    *)
(* them; a hold is reported by the scan that follows HoldTime of them; a   *)
(* click is reported by the scan that finds the button released before     *)
(* ShortTime scans; and nothing else is reported.  The first scan after a  *)
(* restart is special: it takes a pressed button for a hold as well.       *)
(***************************************************************************)
EXTENDS Integers

CONSTANTS HoldTime, ShortTime

VARIABLES
    boot,   \* no scan since the restart
    down,   \* the scans in a row that found the button pressed
    events  \* what the last scan reported

Init == boot = TRUE /\ down = 0 /\ events = {}

Reported(pressed) ==
    {e \in {"press", "hold", "click"} :
        \/ e = "press" /\ pressed /\ down = 0
        \/ e = "hold"  /\ pressed /\ (boot \/ down = HoldTime)
        \/ e = "click" /\ ~pressed /\ down > 0 /\ down < ShortTime}

(* There is no scan after a hold: the device restarts.                     *)
Scan(pressed) ==
    /\ "hold" \notin events
    /\ boot' = FALSE
    /\ down' = IF pressed THEN down + 1 ELSE 0
    /\ events' = Reported(pressed)

Restart == boot' = TRUE /\ down' = 0 /\ events' = {}

Next == (\E pressed \in BOOLEAN : Scan(pressed)) \/ Restart

Spec == Init /\ [][Next]_<<boot, down, events>>
=============================================================================
