-------------------------- MODULE MCNodeController --------------------------
(***************************************************************************)
(* Instances of NodeController for TLC.                                    *)
(***************************************************************************)
EXTENDS NodeInvariant, TLC

CONSTANTS n1, s1

OneGroup == [n \in Node |-> "g"]

Rule(action, escalate) ==
    [nodes |-> {n1}, bucket |-> 1, action |-> action,
     escalate |-> escalate, allow |-> TRUE, dryRun |-> FALSE,
     cooldown |-> 0, max |-> 0]

NoRules     == {<<>>}
RebootFirst == {<<Rule("reboot", "replace")>>}

Bounds(faults, crashes, writes, outages, edits) ==
    [faults |-> faults, crashes |-> crashes, writes |-> writes,
     outages |-> outages, edits |-> edits]

Unsteady == Bounds(0, 1, 3, 2, 0)
OnlyReboots == Bounds(0, 0, 4, 0, 0)
=============================================================================
