-------------------------- MODULE ReportLifecycle --------------------------
(***************************************************************************)
(* The life of a NodeIssueReport as README-v2 draws it: what anybody who   *)
(* reads the persisted objects can rely on.  A report is opened, goes      *)
(* through a reboot and is kept, or goes through a replacement and is      *)
(* closed; it may be closed at any time; it is never half way between two  *)
(* phases.                                                                 *)
(***************************************************************************)
CONSTANT Node

VARIABLE phase      \* phase[n]: Spec.Phase of the persisted report, or "absent"

(* PhaseNone -> PhaseReboot -> PhaseRebooted -> PhaseNone, and             *)
(* PhaseNone -> PhaseReplace -> PhaseDetached -> PhaseNewJoined ->         *)
(* PhaseDrained.                                                           *)
Follows == {<<"none", "reboot">>, <<"reboot", "rebooted">>, <<"rebooted", "none">>,
            <<"none", "replace">>, <<"replace", "detached">>,
            <<"detached", "newjoined">>, <<"newjoined", "drained">>}

Init == phase = [n \in Node |-> "absent"]

Move(n, from, to) == phase[n] = from /\ phase' = [phase EXCEPT ![n] = to]

Open(n)    == Move(n, "absent", "none")
Advance(n) == \E step \in Follows : Move(n, step[1], step[2])
Close(n)   == phase[n] # "absent" /\ phase' = [phase EXCEPT ![n] = "absent"]

Next == \E n \in Node : Open(n) \/ Advance(n) \/ Close(n)

Spec == Init /\ [][Next]_phase
=============================================================================
