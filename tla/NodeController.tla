--------------------------- MODULE NodeController ---------------------------
(***************************************************************************)
(* The NodeController together with the system it works in: its queue and  *)
(* its delaying queue decide when the Writers of NIRController that stand  *)
(* for it read and write reports.                                          *)
(*                                                                         *)
(* Every step is a step of NIRController, or changes only the two queues:  *)
(* what is proved of NIRController holds here too.                         *)
(***************************************************************************)
EXTENDS NIRProperties

CONSTANTS
    Looker,     \* goroutines of the work queue: the first look
    Checker,    \* goroutines of the delaying queue: the second look
    Managed,    \* nodes of auto scaling groups: not Karpenter's, not Fargate's
    GraceTime,  \* NODE_DOULBE_CHECK_GRACE_TIME, 3 minutes
    Lagging     \* may time pass before the watch has delivered?

VARIABLES
    looks,      \* node keys in the work queue
    timer,      \* timer[n]: time until the delaying queue adds n, or Zero
    due         \* node keys the delaying queue has ready

queues   == <<looks, timer, due>>
nodeVars == <<vars, queues>>

ASSUME NodeAssumption ==
    /\ Looker \cup Checker \subseteq Writer /\ Looker \cap Checker = {}
    /\ Managed \subseteq Node /\ GraceTime \in Nat \ {0, 1}
    /\ Lagging \in BOOLEAN

NodeTypeOK ==
    /\ TypeOK
    /\ looks \subseteq Node /\ due \subseteq Node
    /\ timer \in [Node -> {Zero} \cup (1 .. GraceTime)]

NodeInit ==
    /\ Init
    /\ looks = {} /\ due = {} /\ timer = [n \in Node |-> Zero]
-----------------------------------------------------------------------------
(* The queues.                                                             *)

(* AddAfter: the delaying queue has one entry per key, and the earlier     *)
(* time wins.                                                              *)
Sooner(n, d) == [timer EXCEPT ![n] = IF @ = Zero \/ d < @ THEN d ELSE @]

AddAfter(n, d) == timer' = Sooner(n, d) /\ UNCHANGED due

(* requeueDelayAfter: five seconds after a conflict, one unit of time      *)
(* here; half the grace time when the report has gone.                     *)
RequeueDelay(n) == IF api[n] = NoReport THEN GraceTime \div 2 ELSE 1

Look(f, n) ==
    /\ f \in Looker /\ At(f, "idle") /\ n \in looks
    /\ \A g \in Looker : held[g].node # n
    /\ looks' = looks \ {n}

Check(f, n) ==
    /\ f \in Checker /\ At(f, "idle") /\ n \in due
    /\ \A g \in Checker : held[g].node # n
    /\ due' = due \ {n}
-----------------------------------------------------------------------------
(* processNextItem, the first look.  A Create that meets an existing name  *)
(* is requeued at once: the key stays in the queue.                        *)

LookGone(f, n) ==
    /\ Look(f, n) /\ ~Present(n)
    /\ UNCHANGED <<vars, timer, due>>


LookCreates(f, n) ==
    /\ Look(f, n) /\ NodeCreates(n)
    /\ AddAfter(n, GraceTime)

LookRecords(f, n) ==
    /\ Look(f, n) /\ StatusRecorded(f, n)
    /\ UNCHANGED <<timer, due>>

LookSavesOnce(f) ==     \* mutant: a conflict is not tried again
    /\ f \in Looker /\ WriterSaves(f) /\ UNCHANGED looks
    /\ IF Updatable(f) THEN AddAfter(held[f].node, GraceTime) ELSE UNCHANGED <<timer, due>>

LookSaves(f) ==
    LET n == held[f].node IN
    /\ f \in Looker /\ WriterSaves(f)
    /\ IF Updatable(f) THEN AddAfter(n, GraceTime) /\ UNCHANGED looks
                       ELSE looks' = looks \cup {n} /\ UNCHANGED <<timer, due>>
-----------------------------------------------------------------------------
(* processNextItemDelayqueue, the second look.                             *)


(* No report, or one in an active phase: nothing is left to do.            *)
CheckDrops(f, n) ==
    /\ Check(f, n) /\ Present(n)
    /\ cache[n] # NoReport => ~IsReady(n) /\ cache[n].phase # "none"
    /\ UNCHANGED <<vars, looks, timer>>

CheckRequests(f, n) ==
    /\ Check(f, n) /\ ReplaceRequested(f, n)
    /\ UNCHANGED <<looks, timer>>

(* Recovered, with problems on record: the status becomes Ready.           *)
CheckReady(f, n) ==
    /\ Check(f, n) /\ IsReady(n) /\ cache[n] # NoReport /\ cache[n].problems
    /\ StatusRecorded(f, n)
    /\ UNCHANGED <<looks, timer>>

(* Recovered without problems, or gone: the report is deleted.             *)
CheckWithdraws(f, n) ==
    /\ Check(f, n) /\ ReportWithdrawn(f, n)
    /\ Present(n) \/ api[n] # NoReport
    /\ UNCHANGED <<looks, timer>>

(* A node that has gone together with its report: the Delete fails, and    *)
(* the key comes back, again and again.                                    *)
CheckNothing(f, n) ==
    /\ Check(f, n) /\ ~Present(n) /\ api[n] = NoReport
    /\ timer' = Sooner(n, RequeueDelay(n))
    /\ UNCHANGED <<vars, looks>>

CheckSavesOnce(f) ==    \* mutant: a conflict is not tried again
    f \in Checker /\ WriterSaves(f) /\ UNCHANGED queues

CheckSaves(f) ==
    LET n == held[f].node IN
    /\ f \in Checker /\ WriterSaves(f) /\ UNCHANGED looks
    /\ IF Updatable(f) THEN UNCHANGED <<timer, due>>
                       ELSE AddAfter(n, RequeueDelay(n))

CheckDeletes(f) ==
    LET n == held[f].node IN
    /\ f \in Checker /\ WriterDeletes(f) /\ UNCHANGED looks
    /\ IF api[n] # NoReport THEN UNCHANGED <<timer, due>>
                            ELSE AddAfter(n, RequeueDelay(n))

LookStep(f, n)  == LookGone(f, n) \/ LookCreates(f, n) \/ LookRecords(f, n)
CheckStep(f, n) ==
    \/ CheckDrops(f, n) \/ CheckRequests(f, n) \/ CheckReady(f, n)
    \/ CheckWithdraws(f, n) \/ CheckNothing(f, n)
-----------------------------------------------------------------------------
(* What happens around it.                                                 *)

(* nodeUpdateHandler: only a change from Ready is noticed.                 *)
LeftReady(n) == IsReady(n) /\ node'[n].place = "present" /\ node'[n].ready # "True"

NodeChanges(n) ==
    /\ Environment(n)
    /\ looks' = IF n \in Managed /\ LeftReady(n) THEN looks \cup {n} ELSE looks
    /\ UNCHANGED <<timer, due>>

NodeTickLate ==    \* mutant: a key is due one unit of time after its timer
    /\ Tick /\ UNCHANGED looks
    /\ due' = due \cup {n \in Node : timer[n] = 0}
    /\ timer' = [n \in Node |-> IF timer[n] = Zero THEN Zero ELSE timer[n] - 1]

NodeTick ==
    /\ Tick
    /\ ~Lagging => \A n \in Node : watch[n] = <<>>
    /\ due' = due \cup {n \in Node : timer[n] = 1}
    /\ timer' = [n \in Node |-> IF timer[n] \in {Zero, 1} THEN Zero ELSE timer[n] - 1]
    /\ UNCHANGED looks

(* A successor starts with empty queues, and its informer's first list     *)
(* tells of no change.                                                     *)
NodeRestart ==
    /\ Crash \/ \E w \in Worker : SelfPod(w)
    /\ looks' = {} /\ due' = {} /\ timer' = [n \in Node |-> Zero]

Recorder == Writer \ (Looker \cup Checker)      \* EventController's workers

ControllerStep ==
    /\ \/ \E w \in Worker, n \in Node : Take(w, n)
       \/ \E w \in Worker : Work(w) \/ Fault(w)
       \/ \E n \in Node : CleanerFinds(n) \/ EventCreates(n) \/ Deliver(n)
       \/ CleanerDeletes \/ CleanerFails \/ EditConfigs
       \/ \E f \in Recorder : WriterSaves(f) \/ \E n \in Node : EventRecorded(f, n)
    /\ UNCHANGED queues

NodeNext ==
    \/ \E f \in Looker  : LookSaves(f) \/ \E n \in Node : LookStep(f, n)
    \/ \E f \in Checker : CheckSaves(f) \/ CheckDeletes(f) \/ \E n \in Node : CheckStep(f, n)
    \/ \E n \in Node : NodeChanges(n)
    \/ NodeTick \/ NodeRestart \/ ControllerStep

NodeSpec == NodeInit /\ [][NodeNext]_nodeVars
=============================================================================
