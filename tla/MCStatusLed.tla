---------------------------- MODULE MCStatusLed -----------------------------
(* StatusLed with the periods of the code, in fifths: 50 ms for a scan.    *)
EXTENDS StatusLed

ledStrobeArr == [s \in Speeds |-> IF s = 0 THEN 0 ELSE IF s = 1 THEN 2
                                 ELSE IF s = 2 THEN 10 ELSE 20]
=============================================================================
