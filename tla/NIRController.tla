--------------------------- MODULE NIRController ---------------------------
(***************************************************************************)
(* The NIRController: three queue workers that walk a NodeIssueReport      *)
(* through reboot or replace, the once-a-minute cleanup goroutine, and the *)
(* world they act on (EC2, the auto scaling group, nodes, pods, SNS).      *)
(*                                                                         *)
(* The other two controllers appear as Writers: goroutines that create,    *)
(* edit and delete the same reports, through the same shared cache.        *)
(*                                                                         *)
(* A handler is one Take action (the reads and the branch it chooses),     *)
(* one action per remote call, and a last action for its Update.  An       *)
(* in-place edit belongs to the step of the call it follows.               *)
(***************************************************************************)
EXTENDS NIRStore, FiniteSets

CONSTANTS
    Worker, Cleaner, Writer,    \* the goroutines
    Spare,          \* nodes that have not joined the cluster yet
    Faulty,         \* bound: nodes that get into trouble
    Group,          \* Group[n]: the node group label of n
    SelfNode,       \* SELF_NODE_NAME, or NoNode
    ConfigChoices,  \* the ToleranceConfigs an administrator may apply
    RebootGrace,    \* rebootGracePeriod, 2 minutes
    JoinWindow,     \* how old a replacement node may be, 15 minutes
    Budget,         \* bounds: how often each disturbance may happen
    NoEntry         \* "no ToleranceConfig entry matches"

VARIABLES
    queue,      \* keys waiting in the rate-limited work queue
    pc,         \* pc[t]: the call goroutine t makes next
    node,       \* node[n]: the Node object, its instance and its pods
    configs,    \* the ToleranceConfig entries in force, in order
    budget      \* what is left of Budget

vars == <<api, cache, watch, held, queue, pc, node, configs, budget>>

(* ToleranceConfigEntry; "nodes" are those bearing nodeLabel.              *)
Entry == [nodes : SUBSET Node, bucket : Nat,
          action : Action, escalate : Action,
          allow : BOOLEAN, dryRun : BOOLEAN, cooldown : Nat, max : Nat]

Disturbance == {"faults", "crashes", "writes", "outages", "edits"}

ASSUME ControllerAssumption ==
    /\ Thread = Worker \cup {Cleaner} \cup Writer
    /\ Cleaner \notin Worker /\ Cleaner \notin Writer /\ Worker \cap Writer = {}
    /\ Spare \subseteq Node /\ Faulty \subseteq Node
    /\ SelfNode \in Node \cup {NoNode}
    /\ RebootGrace \in Nat /\ JoinWindow \in Nat
    /\ ConfigChoices # {} /\ ConfigChoices \subseteq Seq(Entry)
    /\ Budget \in [Disturbance -> Nat]
    /\ NoEntry \notin Entry

(* Where a goroutine may be.  Retried: a failing call requeues the key.    *)
Notifying == {"notifyReplaced", "notifyDenied", "page", "pageEscalated"}
Draining  == {"cordonOld", "evictOld", "forceCordon", "forceTaint", "forceStale",
              "cordonReboot", "evictReboot"}
Retried   == Notifying \cup Draining \cup
             {"deleteNode", "deletePaged", "detach", "reboot", "uncordon"}
Saving    == {"saveRetry", "saveLog"}
Label     == Retried \cup Saving \cup
             {"idle", "deleteReport", "selfReport", "selfNode", "selfPod",
              "startReboot", "startReplace", "expire", "commit", "remove"}

NodeRecord == [place : {"absent", "present", "gone"},
               ready : {"True", "False", "Unknown"},
               cordoned : BOOLEAN, tainted : BOOLEAN, pods : BOOLEAN,
               inAsg : BOOLEAN,
               boot : {"steady", "requested", "down"},
               rebootAge : Stamp,   \* since RebootInstances was last called
               age : 0 .. AgeCap]   \* since the Node object was created

TypeOK ==
    /\ StoreTypeOK
    /\ queue \subseteq Node
    /\ pc \in [Thread -> Label]
    /\ node \in [Node -> NodeRecord]
    /\ configs \in ConfigChoices
    /\ budget \in [Disturbance -> Nat]

Fresh(place, age) ==
    [place |-> place, ready |-> "True", cordoned |-> FALSE, tainted |-> FALSE,
     pods |-> place = "present", inAsg |-> TRUE, boot |-> "steady",
     rebootAge |-> Zero, age |-> age]

Init ==
    /\ StoreInit
    /\ queue = {}
    /\ pc = [t \in Thread |-> "idle"]
    /\ node = [n \in Node |-> IF n \in Spare THEN Fresh("absent", 0)
                                             ELSE Fresh("present", AgeCap)]
    /\ configs \in ConfigChoices
    /\ budget = Budget
-----------------------------------------------------------------------------
(* Helpers: the policy of a node, and what the handlers ask of the caches. *)

(* getToleranceConfigForNode: the first entry whose label the node bears.  *)
Matching(n) == {i \in DOMAIN configs : n \in configs[i].nodes}

Policy(n) ==
    IF Matching(n) = {} THEN NoEntry
    ELSE configs[CHOOSE i \in Matching(n) : \A j \in Matching(n) : i <= j]

Present(n) == node[n].place = "present"
IsReady(n) == Present(n) /\ node[n].ready = "True"

(* countActiveActionsForEntry, on the cached reports.                      *)
ActiveUnder(entry) ==
    {n \in Node : /\ cache[n] # NoReport /\ cache[n].phase # "none"
                  /\ Present(n) /\ n \in entry.nodes}

(* findReadyReplacementNode: any young Ready node of the group will do.    *)
ReadyReplacement(n) ==
    \E m \in Node \ {n} :
        IsReady(m) /\ node[m].age <= JoinWindow /\ Group[m] = Group[n]

(* The action a pending report asks for.                                   *)
Dispatched(n) ==
    IF cache[n].escalated /\ Policy(n) # NoEntry
      THEN Policy(n).escalate ELSE cache[n].action

Denied(n) == Policy(n) # NoEntry /\ ~Policy(n).allow
DryRun(n) == Policy(n) # NoEntry /\ Policy(n).dryRun
LimitOffByOne(n) ==     \* mutant
    /\ Policy(n) # NoEntry /\ Policy(n).max > 0
    /\ Cardinality(ActiveUnder(Policy(n))) > Policy(n).max
AtLimit(n) ==
    /\ Policy(n) # NoEntry /\ Policy(n).max > 0
    /\ Cardinality(ActiveUnder(Policy(n))) >= Policy(n).max

(* The report a finished or refused action leaves behind.                  *)
Settled(r) == [r EXCEPT !.phase = "none", !.action = "none"]
InPhase(r, p) == [r EXCEPT !.phase = p]

Spend(what) ==
    /\ budget[what] > 0
    /\ budget' = [budget EXCEPT ![what] = @ - 1]
-----------------------------------------------------------------------------
(* Queue discipline: a key is handed to one worker at a time.              *)

Dequeue(w, n) ==
    /\ pc[w] = "idle" /\ n \in queue
    /\ \A v \in Worker : held[v].node # n

(* w starts on n, the cached report becoming r, and will do l next.        *)
Begin(w, n, r, l) ==
    /\ Dequeue(w, n) /\ cache[n] # NoReport /\ Present(n)
    /\ queue' = queue \ {n}
    /\ held' = [held EXCEPT ![w] = Lookup(n)]
    /\ cache' = [cache EXCEPT ![n] = r]
    /\ pc' = [pc EXCEPT ![w] = l]
    /\ UNCHANGED <<api, watch, node, configs, budget>>

(* n is dropped: a later event of the informer may bring it back.          *)
Drop(w, n) ==
    /\ Dequeue(w, n)
    /\ queue' = queue \ {n}
    /\ UNCHANGED <<api, cache, watch, held, pc, node, configs, budget>>

(* w is done with its key; AddRateLimited puts it back into the queue.     *)
Finish(w, again) ==
    /\ pc' = [pc EXCEPT ![w] = "idle"]
    /\ queue' = IF again THEN queue \cup {held[w].node} ELSE queue

Retry(w) ==
    /\ Finish(w, TRUE) /\ held' = Released(w)
    /\ UNCHANGED <<api, cache, watch, node, configs>>

(* A call of w succeeded: the world changes to m, the report is edited     *)
(* into r, and l is next.                                                  *)
Proceed(w, m, r, l) ==
    /\ node' = [node EXCEPT ![held[w].node] = m]
    /\ cache' = Edited(w, r)
    /\ pc' = [pc EXCEPT ![w] = l]
    /\ UNCHANGED <<api, watch, held, queue, configs, budget>>

Mine(w) == cache[held[w].node]
Here(w) == node[held[w].node]
At(w, l) == pc[w] = l
-----------------------------------------------------------------------------
(* processNextItem, one action per branch.  Where the code requeues at     *)
(* once and has changed nothing (no replacement yet, grace period, node    *)
(* not ready, concurrency limit), the key simply stays in the queue.       *)

TakeMissing(w, n) == (cache[n] = NoReport \/ ~Present(n)) /\ Drop(w, n)

TakeDrained(w, n) ==
    cache[n].phase = "drained" /\ Begin(w, n, cache[n], "notifyReplaced")

TakeNewJoined(w, n) ==
    /\ cache[n].phase = "newjoined"
    /\ Begin(w, n, cache[n],
             IF cache[n].status = "Unknown" THEN "forceCordon" ELSE "cordonOld")

TakeDetachedUndrained(w, n) ==      \* mutant: draining forgotten
    /\ cache[n].phase = "detached" /\ ReadyReplacement(n)
    /\ Begin(w, n, InPhase(cache[n], "drained"), "saveRetry")
TakeDetached(w, n) ==
    /\ cache[n].phase = "detached" /\ ReadyReplacement(n)
    /\ Begin(w, n, InPhase(cache[n], "newjoined"), "saveRetry")

TakeReplace(w, n) ==
    cache[n].phase = "replace" /\ Begin(w, n, cache[n], "detach")

(* The grace period runs from LastActionTime; a report without one would   *)
(* use LastUpdateTime, which may be any.                                   *)
TakeRebooted(w, n) ==
    /\ cache[n].phase = "rebooted" /\ IsReady(n)
    /\ cache[n].lastAction = Zero \/ cache[n].lastAction >= RebootGrace
    /\ Begin(w, n, cache[n], "uncordon")

TakeReboot(w, n) ==
    cache[n].phase = "reboot" /\ Begin(w, n, cache[n], "cordonReboot")

Pending(n) == cache[n].phase = "none" /\ cache[n].action # "none"

TakeDenied(w, n) ==
    Pending(n) /\ Denied(n) /\ Begin(w, n, cache[n], "notifyDenied")

TakeDryRun(w, n) ==
    /\ Pending(n) /\ ~Denied(n) /\ DryRun(n)
    /\ Begin(w, n, Settled(cache[n]), "saveLog")

(* Under the limit now; the phase changes only in the next step.           *)
TakeStartDryRun(w, n) ==            \* mutant: dryRun is not asked
    /\ Pending(n) /\ ~Denied(n) /\ ~AtLimit(n)
    /\ \E a \in {"reboot", "replace"} :
         Dispatched(n) = a
           /\ Begin(w, n, cache[n], IF a = "reboot" THEN "startReboot" ELSE "startReplace")
TakeStart(w, n) ==
    /\ Pending(n) /\ ~Denied(n) /\ ~DryRun(n) /\ ~AtLimit(n)
    /\ \/ /\ Dispatched(n) = "reboot"
          /\ Begin(w, n, cache[n], "startReboot")
       \/ /\ Dispatched(n) = "replace"
          /\ Begin(w, n, cache[n], "startReplace")
       \/ /\ Dispatched(n) = "paging"
          /\ Begin(w, n, cache[n],
                   IF cache[n].escalated THEN "pageEscalated" ELSE "page")

TakeUnknownAction(w, n) ==
    /\ Pending(n) /\ Present(n)
    /\ ~Denied(n) /\ ~DryRun(n) /\ ~AtLimit(n)
    /\ Dispatched(n) \in {"none", "unset"} /\ Drop(w, n)

(* The score bucket.                                                       *)
Waiting(n)  == cache[n].phase = "none" /\ cache[n].action = "none"
Overflow(n) == Policy(n) # NoEntry /\ cache[n].score >= Policy(n).bucket

WithinCooldown(n) ==
    /\ cache[n].lastAction # Zero /\ Policy(n).cooldown > 0
    /\ cache[n].lastAction <= Policy(n).cooldown

TakeOverflowUntimed(w, n) ==        \* mutant: LastActionTime is not set
    /\ Waiting(n) /\ Overflow(n)
    /\ Begin(w, n, [cache[n] EXCEPT !.score = 0, !.action = Policy(n).action], "saveLog")
TakeOverflow(w, n) ==
    /\ Waiting(n) /\ Overflow(n)
    /\ LET r == [cache[n] EXCEPT !.score = 0, !.lastAction = 0]
       IN  Begin(w, n,
                 IF WithinCooldown(n)
                   THEN [r EXCEPT !.action = Policy(n).escalate, !.escalated = TRUE]
                   ELSE [r EXCEPT !.action = Policy(n).action],
                 "saveLog")

TakeQuiet(w, n) ==
    /\ cache[n] # NoReport /\ Present(n)
    /\ Waiting(n) /\ ~Overflow(n) /\ Drop(w, n)

TakeReport(w, n) ==
    /\ cache[n] # NoReport
    /\ \/ TakeDrained(w, n) \/ TakeNewJoined(w, n) \/ TakeDetached(w, n)
       \/ TakeReplace(w, n) \/ TakeRebooted(w, n) \/ TakeReboot(w, n)
       \/ TakeDenied(w, n) \/ TakeDryRun(w, n) \/ TakeStart(w, n)
       \/ TakeUnknownAction(w, n) \/ TakeOverflow(w, n) \/ TakeQuiet(w, n)

Take(w, n) == TakeMissing(w, n) \/ TakeReport(w, n)
-----------------------------------------------------------------------------
(* The remote calls.                                                       *)

(* The phase is set without looking at the active count again.             *)
StartUnsaved(w) ==      \* mutant: acts before the phase is stored
    At(w, "startReboot")
      /\ Proceed(w, Here(w), InPhase(Mine(w), "reboot"), "cordonReboot")
Start(w) ==
    \/ /\ At(w, "startReboot")
       /\ Proceed(w, Here(w), InPhase(Mine(w), "reboot"), "saveLog")
    \/ /\ At(w, "startReplace")
       /\ Proceed(w, Here(w), InPhase(Mine(w), "replace"), "saveLog")

(* RebootInstances returns before the machine goes down.                   *)
RebootSettled(w) ==     \* mutant: the report is reset as soon as EC2 answers
    /\ At(w, "reboot")
    /\ Proceed(w, [Here(w) EXCEPT !.boot = "requested", !.rebootAge = 0],
               Settled(Mine(w)), "saveLog")
Reboot(w) ==
    /\ At(w, "reboot")
    /\ Proceed(w, [Here(w) EXCEPT !.boot = "requested", !.rebootAge = 0],
               InPhase(Mine(w), "rebooted"), "saveLog")

(* GetASGId reads the instance's group tag, DetachInstances drops it; a    *)
(* replacement will be launched, as the desired capacity stays.            *)
Detach(w) ==
    /\ At(w, "detach") /\ Here(w).inAsg
    /\ Proceed(w, [Here(w) EXCEPT !.inAsg = FALSE],
               InPhase(Mine(w), "detached"), "saveRetry")

DetachRefusedResets(w) ==   \* mutant: the action is given up
    /\ At(w, "detach") /\ ~Here(w).inAsg
    /\ Proceed(w, Here(w), Settled(Mine(w)), "saveRetry")
DetachRefused(w) ==
    At(w, "detach") /\ ~Here(w).inAsg /\ Retry(w) /\ UNCHANGED budget

(* RunCordonOrUncordon makes no call when the node is as wanted already.   *)
Patched(w, wanted) == Here(w).place = "present" \/ Here(w).cordoned = wanted

(* drainNode, not forced: cordon, then evict everything or fail.           *)
Cordon(w) ==
    /\ pc[w] \in {"cordonOld", "cordonReboot"} /\ Patched(w, TRUE)
    /\ Proceed(w, [Here(w) EXCEPT !.cordoned = TRUE], Mine(w),
               IF At(w, "cordonOld") THEN "evictOld" ELSE "evictReboot")

EvictOld(w) ==
    /\ At(w, "evictOld")
    /\ Proceed(w, [Here(w) EXCEPT !.pods = FALSE],
               InPhase(Mine(w), "drained"), "saveRetry")

EvictReboot(w) ==
    /\ At(w, "evictReboot")
    /\ Proceed(w, [Here(w) EXCEPT !.pods = FALSE], Mine(w), "reboot")

(* drainNode, forced: the cordon patch makes the taint's Update stale, so  *)
(* the taint goes on only when the node was cordoned already; the drain    *)
(* after it may leave pods behind.                                         *)
ForceCordon(w) ==
    /\ At(w, "forceCordon") /\ Patched(w, TRUE)
    /\ Proceed(w, [Here(w) EXCEPT !.cordoned = TRUE], Mine(w),
               IF Here(w).cordoned THEN "forceTaint" ELSE "forceStale")

ForceStaleDrained(w) ==     \* mutant: the error of the taint is ignored
    At(w, "forceStale") /\ Proceed(w, Here(w), InPhase(Mine(w), "drained"), "saveRetry")
ForceStale(w) == At(w, "forceStale") /\ Retry(w) /\ UNCHANGED budget

ForceTaint(w) ==
    /\ At(w, "forceTaint") /\ Here(w).place = "present"
    /\ \E left \in {Here(w).pods, FALSE} :
           Proceed(w, [Here(w) EXCEPT !.tainted = TRUE, !.pods = left],
                   InPhase(Mine(w), "drained"), "saveRetry")

UncordonForgotten(w) ==     \* mutant: the report is settled, the node is not
    At(w, "uncordon") /\ Proceed(w, Here(w), Settled(Mine(w)), "saveRetry")
Uncordon(w) ==
    /\ At(w, "uncordon") /\ Patched(w, FALSE)
    /\ Proceed(w, [Here(w) EXCEPT !.cordoned = FALSE],
               Settled(Mine(w)), "saveRetry")

(* Calls on a node that has gone answer NotFound.                          *)
NodeGone(w) ==
    /\ \/ pc[w] \in {"cordonOld", "cordonReboot", "forceCordon"} /\ ~Patched(w, TRUE)
       \/ At(w, "uncordon") /\ ~Patched(w, FALSE)
       \/ pc[w] \in {"forceTaint", "deleteNode"} /\ Here(w).place # "present"
    /\ Retry(w) /\ UNCHANGED budget

Notify(w) ==
    \/ /\ At(w, "notifyReplaced")
       /\ Proceed(w, Here(w), Mine(w),
                  IF held[w].node = SelfNode THEN "selfReport" ELSE "deleteNode")
    \/ At(w, "notifyDenied") /\ Proceed(w, Here(w), Settled(Mine(w)), "saveRetry")
    \/ At(w, "page") /\ Proceed(w, Here(w), Settled(Mine(w)), "saveLog")
    \/ At(w, "pageEscalated") /\ Proceed(w, Here(w), Mine(w), "deletePaged")

DeleteNodeKept(w) ==        \* mutant: the call is forgotten
    /\ At(w, "deleteNode") /\ Here(w).place = "present"
    /\ Proceed(w, Here(w), Mine(w), "deleteReport")
DeleteNode(w) ==
    /\ At(w, "deleteNode") /\ Here(w).place = "present"
    /\ Proceed(w, [Here(w) EXCEPT !.place = "gone"], Mine(w), "deleteReport")

(* The report goes last; an error here is logged and nothing else.         *)
DeleteReport(w) ==
    /\ At(w, "deleteReport") /\ Finish(w, FALSE)
    /\ Remove(held[w].node, Released(w))
    /\ UNCHANGED <<cache, node, configs, budget>>

(* Escalated paging is terminal; a missing report counts as a failure.     *)
DeletePaged(w) ==
    /\ At(w, "deletePaged") /\ Finish(w, api[held[w].node] = NoReport)
    /\ Remove(held[w].node, Released(w))
    /\ UNCHANGED <<cache, node, configs, budget>>

(* The controller's own node: report, node, then its own pod.              *)
SelfReport(w) ==
    /\ At(w, "selfReport")
    /\ pc' = [pc EXCEPT ![w] = "selfNode"]
    /\ Remove(held[w].node, held)
    /\ UNCHANGED <<cache, queue, node, configs, budget>>

SelfNodeGone(w) ==
    /\ At(w, "selfNode")
    /\ Proceed(w, [Here(w) EXCEPT !.place = "gone"], Mine(w), "selfPod")

(* Update of the report; only some callers requeue when it fails.          *)
Save(w) ==
    /\ pc[w] \in Saving /\ Updatable(w) /\ Finish(w, FALSE)
    /\ Persist(held[w].node, Mine(w), Released(w))
    /\ UNCHANGED <<cache, node, configs, budget>>

SaveConflict(w) ==
    /\ pc[w] \in Saving /\ ~Updatable(w) /\ Finish(w, At(w, "saveRetry"))
    /\ held' = Released(w)
    /\ UNCHANGED <<api, cache, watch, node, configs, budget>>

Work(w) ==
    \/ Start(w) \/ Reboot(w) \/ Detach(w) \/ DetachRefused(w)
    \/ Cordon(w) \/ EvictOld(w) \/ EvictReboot(w)
    \/ ForceCordon(w) \/ ForceStale(w) \/ ForceTaint(w) \/ Uncordon(w)
    \/ NodeGone(w) \/ Notify(w) \/ DeleteNode(w)
    \/ DeleteReport(w) \/ DeletePaged(w) \/ SelfReport(w) \/ SelfNodeGone(w)
    \/ Save(w) \/ SaveConflict(w)
-----------------------------------------------------------------------------
(* Calls that fail though nothing forbade them (bound: budget.faults).     *)

CallFails(w) == pc[w] \in Retried /\ Retry(w) /\ Spend("faults")

(* An error reached the caller, but the call had taken effect.             *)
CallLost(w) ==
    /\ \E l \in {"detach", "reboot", "deleteNode"} : At(w, l)
    /\ Finish(w, TRUE) /\ held' = Released(w) /\ Spend("faults")
    /\ node' = [node EXCEPT ![held[w].node] =
         CASE At(w, "detach")     -> [@ EXCEPT !.inAsg = FALSE]
           [] At(w, "reboot")     -> [@ EXCEPT !.boot = "requested", !.rebootAge = 0]
           [] At(w, "deleteNode") -> [@ EXCEPT !.place = "gone"]]
    /\ UNCHANGED <<api, cache, watch, configs>>

SaveFails(w) ==
    /\ pc[w] \in Saving /\ Finish(w, At(w, "saveRetry")) /\ Spend("faults")
    /\ \/ held' = Released(w) /\ UNCHANGED <<api, watch>>
       \/ Updatable(w) /\ Persist(held[w].node, Mine(w), Released(w))
    /\ UNCHANGED <<cache, node, configs>>

(* The final Delete fails: logged, and the report stays.                   *)
DeleteReportFails(w) ==
    /\ At(w, "deleteReport") /\ Finish(w, FALSE) /\ held' = Released(w)
    /\ Spend("faults") /\ UNCHANGED <<api, cache, watch, node, configs>>

(* Errors on the way of replacing the controller's own node are ignored.   *)
SelfCallFails(w) ==
    /\ Spend("faults")
    /\ \/ At(w, "selfReport") /\ pc' = [pc EXCEPT ![w] = "selfNode"] /\ held' = held
       \/ At(w, "selfNode") /\ pc' = [pc EXCEPT ![w] = "selfPod"] /\ held' = held
       \/ At(w, "selfPod") /\ pc' = [pc EXCEPT ![w] = "idle"] /\ held' = Released(w)
    /\ UNCHANGED <<api, cache, watch, queue, node, configs>>

Fault(w) ==
    \/ CallFails(w) \/ CallLost(w) \/ SaveFails(w)
    \/ DeleteReportFails(w) \/ SelfCallFails(w)
-----------------------------------------------------------------------------
(* cleanupExpiredNIRs: looks at the cached report, notifies (an SNS error  *)
(* is ignored), and deletes by name, whatever the report says by then.     *)

ExpiredEarly(n) ==    \* mutant: within the cooldown instead of after it
    /\ cache[n] # NoReport /\ Waiting(n) /\ cache[n].lastAction # Zero
    /\ Present(n) /\ Policy(n) # NoEntry /\ Policy(n).cooldown > 0
    /\ cache[n].lastAction < Policy(n).cooldown
Expired(n) ==
    /\ cache[n] # NoReport /\ Waiting(n) /\ cache[n].lastAction # Zero
    /\ Present(n) /\ Policy(n) # NoEntry /\ Policy(n).cooldown > 0
    /\ cache[n].lastAction > Policy(n).cooldown

CleanerFinds(n) ==
    /\ At(Cleaner, "idle") /\ Expired(n)
    /\ held' = [held EXCEPT ![Cleaner] = Lookup(n)]
    /\ pc' = [pc EXCEPT ![Cleaner] = "expire"]
    /\ UNCHANGED <<api, cache, watch, queue, node, configs, budget>>

CleanerDeletes ==
    /\ At(Cleaner, "expire")
    /\ pc' = [pc EXCEPT ![Cleaner] = "idle"]
    /\ Remove(held[Cleaner].node, Released(Cleaner))
    /\ UNCHANGED <<cache, queue, node, configs, budget>>

(* The Delete failed: logged, the next round tries again.                  *)
CleanerFails ==
    /\ At(Cleaner, "expire") /\ Spend("faults")
    /\ pc' = [pc EXCEPT ![Cleaner] = "idle"] /\ held' = Released(Cleaner)
    /\ UNCHANGED <<api, cache, watch, queue, node, configs>>
-----------------------------------------------------------------------------
(* EventController and NodeController, as far as reports go (bound:        *)
(* budget.writes).  Their queues and their reasons are their own modules'. *)

OpenedUnset(status, problems, score) ==     \* mutant: Phase is left empty
    [status |-> status, problems |-> problems, action |-> "none",
     phase |-> "", escalated |-> FALSE, score |-> score, lastAction |-> Zero]
Opened(status, problems, score) ==
    [status |-> status, problems |-> problems, action |-> "none",
     phase |-> "none", escalated |-> FALSE, score |-> score, lastAction |-> Zero]

Create(n, status, problems, score) ==
    /\ cache[n] = NoReport /\ api[n] = NoReport /\ Present(n) /\ n \in Faulty
    /\ Spend("writes") /\ Persist(n, Opened(status, problems, score), held)
    /\ UNCHANGED <<cache, queue, pc, node, configs>>

EventCreates(n) == \E s \in 0 .. ScoreCap : Create(n, "Ready", TRUE, s)
NodeCreates(n)  == Create(n, "NotReady", FALSE, 0)

(* A writer gets the report, edits it in place and goes on to l.           *)
WriterBegins(f, n, r, l) ==
    /\ At(f, "idle") /\ n \in Faulty
    /\ Spend("writes")
    /\ held' = [held EXCEPT ![f] = Lookup(n)]
    /\ cache' = [cache EXCEPT ![n] = r]
    /\ pc' = [pc EXCEPT ![f] = l]
    /\ UNCHANGED <<api, watch, queue, node, configs>>

(* An event is recorded: the score is recalculated, in whatever phase.     *)
EventRecorded(f, n) ==
    cache[n] # NoReport /\ \E s \in 0 .. ScoreCap :
        WriterBegins(f, n, [cache[n] EXCEPT !.problems = TRUE, !.score = s], "commit")

StatusOf(n) == CASE node[n].ready = "True"  -> "Ready"
                 [] node[n].ready = "False" -> "NotReady"
                 [] OTHER                   -> "Unknown"

(* NodeController, first look at a node that left Ready.                   *)
StatusRecorded(f, n) ==
    /\ Present(n) /\ cache[n] # NoReport
    /\ WriterBegins(f, n, [cache[n] EXCEPT !.status = StatusOf(n)], "commit")

(* NodeController, second look: still not ready, so ask for a replacement  *)
(* unless some phase is active; only Unknown is written into the status.   *)
ReplaceRequested(f, n) ==
    /\ Present(n) /\ ~IsReady(n) /\ cache[n] # NoReport /\ cache[n].phase = "none"
    /\ WriterBegins(f, n,
         [cache[n] EXCEPT !.action = "replace",
                          !.status = IF node[n].ready = "Unknown" THEN "Unknown" ELSE @],
         "commit")

(* NodeController, second look: recovered, or the node has gone.           *)
ReportWithdrawn(f, n) ==
    /\ ~Present(n) \/ (IsReady(n) /\ cache[n] # NoReport /\ ~cache[n].problems)
    /\ WriterBegins(f, n, cache[n], "remove")

WriterSaves(f) ==
    /\ At(f, "commit")
    /\ pc' = [pc EXCEPT ![f] = "idle"]
    /\ IF Updatable(f) THEN Persist(held[f].node, Mine(f), Released(f))
                       ELSE held' = Released(f) /\ UNCHANGED <<api, watch>>
    /\ UNCHANGED <<cache, queue, node, configs, budget>>

WriterDeletes(f) ==
    /\ At(f, "remove")
    /\ pc' = [pc EXCEPT ![f] = "idle"]
    /\ Remove(held[f].node, Released(f))
    /\ UNCHANGED <<cache, queue, node, configs, budget>>

Write(f, n) ==
    \/ EventRecorded(f, n) \/ StatusRecorded(f, n)
    \/ ReplaceRequested(f, n) \/ ReportWithdrawn(f, n)
-----------------------------------------------------------------------------
(* The informer, the process and the administrator.                        *)

(* The watch delivers a version; Add and Update handlers enqueue the key,  *)
(* and there is no Delete handler.                                         *)
DeliverAddOnly(n) ==    \* mutant: no UpdateFunc handler
    /\ DeliverNext(n)
    /\ queue' = IF Head(watch[n]) # NoReport /\ cache[n] = NoReport
                  THEN queue \cup {n} ELSE queue
    /\ UNCHANGED <<pc, node, configs, budget>>
Deliver(n) ==
    /\ DeliverNext(n)
    /\ queue' = IF Head(watch[n]) = NoReport THEN queue ELSE queue \cup {n}
    /\ UNCHANGED <<pc, node, configs, budget>>

Restart ==
    /\ Relist
    /\ queue' = {n \in Node : api[n] # NoReport}
    /\ pc' = [t \in Thread |-> "idle"]
    /\ UNCHANGED <<node, configs>>

Crash == Spend("crashes") /\ Restart

(* The pod of the controller is deleted by itself (an error is logged).    *)
SelfPod(w) == At(w, "selfPod") /\ Restart /\ UNCHANGED budget

EditConfigs ==
    /\ Spend("edits")
    /\ configs' \in ConfigChoices \ {configs}
    /\ UNCHANGED <<api, cache, watch, held, queue, pc, node>>
-----------------------------------------------------------------------------
(* Nodes and instances (not under this repository's control).              *)

World(n, m) ==
    /\ node' = [node EXCEPT ![n] = m]
    /\ UNCHANGED <<api, cache, watch, held, queue, pc, configs>>

Steady(n) == Present(n) /\ node[n].boot = "steady"

Outage(n) ==
    /\ Steady(n) /\ IsReady(n) /\ n \in Faulty /\ Spend("outages")
    /\ \E s \in {"False", "Unknown"} : World(n, [node[n] EXCEPT !.ready = s])

Recover(n) ==
    /\ Steady(n) /\ ~IsReady(n)
    /\ World(n, [node[n] EXCEPT !.ready = "True"]) /\ UNCHANGED budget

GoesDown(n) ==
    /\ Present(n) /\ node[n].boot = "requested"
    /\ World(n, [node[n] EXCEPT !.boot = "down", !.ready = "False"])
    /\ UNCHANGED budget

ComesUp(n) ==
    /\ Present(n) /\ node[n].boot = "down"
    /\ World(n, [node[n] EXCEPT !.boot = "steady", !.ready = "True"])
    /\ UNCHANGED budget

(* A node joins: launched by the group for a detached instance, or because *)
(* somebody scales the group out.                                          *)
Joined(n) == node[n].place = "absent" /\ World(n, Fresh("present", 0))

Detached(g)  == {m \in Node : Group[m] = g /\ ~node[m].inAsg}
Launched(g)  == {m \in Spare : Group[m] = g /\ node[m].place # "absent"}

Launch(n) ==
    /\ Cardinality(Launched(Group[n])) < Cardinality(Detached(Group[n]))
    /\ Joined(n) /\ UNCHANGED budget

ScaleOut(n) == Joined(n) /\ Spend("outages")

Vanish(n) ==
    /\ Present(n) /\ n \in Faulty /\ Spend("outages")
    /\ World(n, [node[n] EXCEPT !.place = "gone"])

PodsScheduled(n) ==
    /\ IsReady(n) /\ ~node[n].cordoned /\ ~node[n].tainted /\ ~node[n].pods
    /\ World(n, [node[n] EXCEPT !.pods = TRUE]) /\ UNCHANGED budget

TaintEvicts(n) ==
    /\ Present(n) /\ node[n].tainted /\ node[n].pods
    /\ World(n, [node[n] EXCEPT !.pods = FALSE]) /\ UNCHANGED budget

AgeNode(m) == [m EXCEPT !.rebootAge = Older(@),
                        !.age = IF m.place = "present" THEN Older(@) ELSE @]

Tick ==
    /\ AgeReports
    /\ node' = [n \in Node |-> AgeNode(node[n])]
    /\ UNCHANGED <<queue, pc, configs, budget>>

Environment(n) ==
    \/ Outage(n) \/ Recover(n) \/ GoesDown(n) \/ ComesUp(n)
    \/ Launch(n) \/ ScaleOut(n) \/ Vanish(n) \/ PodsScheduled(n) \/ TaintEvicts(n)

Next ==
    \/ \E w \in Worker, n \in Node : Take(w, n)
    \/ \E w \in Worker : Work(w) \/ Fault(w) \/ SelfPod(w)
    \/ \E n \in Node : CleanerFinds(n)
    \/ CleanerDeletes \/ CleanerFails
    \/ \E n \in Node : EventCreates(n) \/ NodeCreates(n)
    \/ \E f \in Writer, n \in Node : Write(f, n)
    \/ \E f \in Writer : WriterSaves(f) \/ WriterDeletes(f)
    \/ \E n \in Node : Deliver(n) \/ Environment(n)
    \/ Crash \/ EditConfigs \/ Tick

Spec == Init /\ [][Next]_vars
=============================================================================
