--------------------------- MODULE NodeProperties ---------------------------
(***************************************************************************)
(* What NodeController promises about nodes that leave Ready.              *)
(***************************************************************************)
EXTENDS NodeController

Undisturbed == budget["crashes"] = Budget["crashes"]

(* Somebody will look at n again.                                          *)
Watched(n) ==
    \/ n \in looks \cup due \/ timer[n] # Zero \/ watch[n] # <<>>
    \/ \E f \in Looker \cup Checker : held[f].node = n

Idle(r)     == r.phase = "none" /\ r.action = "none"
Suspects(r) == r.status # "Ready" \/ ~r.problems

(* A report that says "not Ready", or has no problem to be kept for, and   *)
(* asks for nothing is not forgotten: until the process ends some look is  *)
(* still to come that replaces the node, marks it Ready or deletes the     *)
(* report, although looks meet conflicts and in-place edits of others      *)
(* (nodecontroller.go:190-274, 332-360).                                   *)
SuspicionWatched ==
    \A n \in Managed :
        /\ Undisturbed /\ Present(n)
        /\ api[n] # NoReport /\ Idle(api[n]) /\ Suspects(api[n])
        => Watched(n)
-----------------------------------------------------------------------------
(* Liveness.                                                               *)

NodeFairness ==
    /\ \A w \in Worker : WF_nodeVars(Work(w) /\ UNCHANGED queues)
    /\ \A n \in Managed :
         /\ SF_nodeVars(\E w \in Worker : Take(w, n) /\ UNCHANGED queues)
         /\ WF_nodeVars(Deliver(n) /\ UNCHANGED queues)
         /\ SF_nodeVars(\E f \in Looker : LookStep(f, n))
         /\ SF_nodeVars(\E f \in Checker : CheckStep(f, n))
    /\ \A n \in Spare : WF_nodeVars(Launch(n) /\ NodeChanges(n))
    /\ \A f \in Looker : WF_nodeVars(LookSaves(f))
    /\ \A f \in Checker : WF_nodeVars(CheckSaves(f) \/ CheckDeletes(f))
    /\ WF_nodeVars(NodeTick)

NodeFairSpec == NodeSpec /\ NodeFairness

(* A process that ends takes its queues with it; in a second outage a late *)
(* second look may delete the report of the new one; and as the bounded    *)
(* writes are NodeController's too, a behaviour that has used them up says *)
(* nothing.                                                                *)
Excused == \/ ~Undisturbed
           \/ Budget["outages"] - budget["outages"] > 1
           \/ budget["writes"] = 0

(* A node that leaves Ready and stays so is replaced, whatever the state   *)
(* of its report when it is first looked at (Readme-v2.md:41, 220-222;     *)
(* nodecontroller.go:190-245, 332-360).                                    *)
UnreadyReplaced ==
    \A n \in Managed :
        (Present(n) /\ n \in looks) ~> (IsReady(n) \/ ~Present(n) \/ Excused)


(* A replacement that is decided ends with the node and its report gone,   *)
(* unless the node recovers: then the second look may delete the report of *)
(* a replacement under way (nIRcontroller.go:269-424; nodecontroller.go:   *)
(* 268-273).                                                               *)
UnreadyRemoved ==
    \A n \in Managed :
        InPhases(n, Replacing)
            ~> (\/ node[n].place = "gone" /\ api[n] = NoReport
                \/ IsReady(n) \/ Excused)
=============================================================================
