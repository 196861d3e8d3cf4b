------------------------- MODULE MCEventController -------------------------
(***************************************************************************)
(* Instances of EventController for TLC.                                   *)
(***************************************************************************)
EXTENDS EventInvariant, TLC

CONSTANTS n1, e1, e2, w1, w2

OneNode   == [e \in Event |-> n1]
TwiceOnce == [e \in Event |-> IF e = e1 THEN 2 ELSE 1]
EachOne   == [e \in Event |-> 1]

Bounds(faults, crashes, writes, expiries) ==
    [faults |-> faults, crashes |-> crashes, writes |-> writes,
     expiries |-> expiries]

Losing == Bounds(1, 1, 1, 1)
Calm   == Bounds(0, 0, 0, 0)
=============================================================================
