-------------------------- MODULE MCNIRController --------------------------
(***************************************************************************)
(* Instances of NIRController for TLC.                                     *)
(***************************************************************************)
EXTENDS NIRInvariant, TLC

CONSTANTS n1, n2, n3, s1, w1, w2

(* n1, n2 and n3 share a label; s1 is the node that joins.                     *)
OneGroup == [n \in Node |-> "g"]

Rule(action, escalate) ==
    [nodes |-> {n1, n2, n3} \cap Node, bucket |-> 1, action |-> action,
     escalate |-> escalate, allow |-> TRUE, dryRun |-> FALSE,
     cooldown |-> 1, max |-> 0]

Bounds(faults, crashes, writes, outages, edits) ==
    [faults |-> faults, crashes |-> crashes, writes |-> writes,
     outages |-> outages, edits |-> edits]

(* Nodes and workers are interchangeable where the run names them alike.   *)
Interchangeable == Permutations({n1, n2, n3}) \cup Permutations({w1, w2})

(* Rules an administrator may have applied.                                *)
RebootFirst == {<<Rule("reboot", "replace")>>}
ReplaceRule == {<<Rule("replace", "paging")>>}
OneAtATime  == {<<[Rule("reboot", "replace") EXCEPT !.max = 1, !.cooldown = 0]>>}
KeepReports == {<<[Rule("reboot", "replace") EXCEPT !.cooldown = 0]>>}

(* A report is kept for good, or cleaned up after its paging.              *)
KeepOrPage  == KeepReports \cup {<<Rule("paging", "paging")>>}

(* n1 is protected in each of these, n2 is not.                            *)
HandsOff(how) == [Rule("reboot", "replace") EXCEPT
                    !.nodes = {n1}, !.allow = ~(how = "denied"),
                    !.dryRun = (how = "dry")]
Protecting == {<<HandsOff("denied"), Rule("replace", "paging")>>,
               <<HandsOff("dry"), Rule("replace", "replace")>>}

(* Budgets.                                                                *)
Quick     == Bounds(1, 1, 2, 1, 0)
Crashing  == Bounds(0, 1, 3, 0, 0)
Editing   == Bounds(1, 0, 2, 1, 1)
TwoWrites == Bounds(0, 0, 2, 0, 0)
FewEvents == Bounds(0, 1, 2, 0, 0)
=============================================================================
