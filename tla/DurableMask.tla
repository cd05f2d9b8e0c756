----------------------------- MODULE DurableMask -----------------------------
(***************************************************************************)
(* What the delayed save of the relay mask promises, without tasks, timers *)
(* or pins.  A device that starts has no mask; unless a flash call fails   *)
(* it comes up with the one in flash, whatever was stored in RAM before.   *)
(* From then on the mask may change at any time, and flash only ever takes *)
(* a value the mask had when a save began.  A save in progress (snap) may  *)
(* fail or be cut off by a reset, never be written twice or half.          *)
(***************************************************************************)
EXTENDS Naturals

CONSTANT None

VARIABLES cur,  \* the mask the device acts on, or None while it starts
          snap, \* the value of a save in progress, or None
          dur,  \* the value in flash, or None before the first save
          lost  \* a flash call failed or a change was dropped since the
                \* last start or successful save

vars == <<cur, snap, dur, lost>>

Init == cur = None /\ snap = None /\ dur = None /\ lost = FALSE

Restore == /\ cur = None /\ dur # None
           /\ cur' = dur /\ UNCHANGED <<snap, dur, lost>>
Create  == /\ cur = None /\ dur = None
           /\ cur' \in Nat /\ dur' = cur' /\ UNCHANGED <<snap, lost>>
Unread  == /\ cur = None
           /\ cur' \in Nat /\ dur' \in {dur, cur'} /\ lost' = TRUE
           /\ UNCHANGED snap

Change   == cur # None /\ cur' \in Nat /\ UNCHANGED <<snap, dur, lost>>
Drop     == cur # None /\ lost' = TRUE /\ UNCHANGED <<cur, snap, dur>>
Snapshot == cur # None /\ snap = None /\ snap' = cur /\ UNCHANGED <<cur, dur, lost>>
Commit   == snap # None /\ dur' = snap /\ snap' = None /\ lost' = FALSE /\ UNCHANGED cur
Abandon  == snap # None /\ snap' = None /\ lost' = TRUE /\ UNCHANGED <<cur, dur>>
Reset    == cur' = None /\ snap' = None /\ lost' = FALSE /\ UNCHANGED dur

Next == \/ Restore \/ Create \/ Unread
        \/ Change \/ Drop \/ Snapshot \/ Commit \/ Abandon \/ Reset

Spec == Init /\ [][Next]_vars
=============================================================================
