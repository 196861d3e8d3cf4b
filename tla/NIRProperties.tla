--------------------------- MODULE NIRProperties ---------------------------
(***************************************************************************)
(* What NIRController promises, and the fairness under which it delivers.  *)
(***************************************************************************)
EXTENDS NIRController

Replacing == {"replace", "detached", "newjoined", "drained"}

(* The reports of n that exist anywhere.                                   *)
Copies(n) == ({api[n], cache[n]} \cup {watch[n][i] : i \in DOMAIN watch[n]})
                \ {NoReport}

PhaseClaims(m, r) ==
    /\ r.phase \in {"detached", "newjoined", "drained"} => ~m.inAsg
    /\ r.phase = "drained" => m.cordoned /\ (m.tainted \/ ~m.pods)
    /\ r.phase = "rebooted" => m.rebootAge # Zero

(* A phase is never ahead of the world: wherever a report says detached,   *)
(* the instance has left its group; drained, no pod is left unprotected on *)
(* the node; rebooted, the reboot was requested.  Recovery after a crash   *)
(* and every later step rely on it (nIRcontroller.go:269-424).             *)
PhaseEffects == \A n \in Node : \A r \in Copies(n) : PhaseClaims(node[n], r)

(* The controller deletes a Node object only when its instance is out of   *)
(* the group and its pods are evicted or being evicted, whatever happened  *)
(* to the report meanwhile (nIRcontroller.go:285-308).                     *)
DeletedNodeWasDrained ==
    [][\A w \in Worker, n \in Node :
         /\ held[w].node = n /\ pc[w] \in {"deleteNode", "selfNode"}
         /\ pc'[w] # pc[w] /\ node[n].place = "present" /\ node'[n].place = "gone"
         => ~node[n].inAsg /\ node[n].cordoned /\ (node[n].tainted \/ ~node[n].pods)
      ]_vars
-----------------------------------------------------------------------------
(* Persisted reports.                                                      *)

PersistedPhase == [n \in Node |-> IF api[n] = NoReport THEN "absent" ELSE api[n].phase]

Lifecycle == INSTANCE ReportLifecycle WITH phase <- PersistedPhase

(* Conflicts, crashes and the other controllers' writes through the shared *)
(* cache never make a persisted report skip or repeat a phase              *)
(* (Readme-v2.md:171): the controller implements ReportLifecycle as long   *)
(* as no API call fails for another reason.                                *)
FollowsLifecycle == Lifecycle!Spec

Rank(p) == CASE p = "replace"   -> 1
             [] p = "detached"  -> 2
             [] p = "newjoined" -> 3
             [] p = "drained"   -> 4
             [] OTHER           -> 0

(* With failing calls a phase may be skipped, as the edit of a failed      *)
(* Update stays in the cache; but a replacement never goes back, until its *)
(* report is deleted (nIRcontroller.go:296-424).                           *)
ReplaceOnlyForward ==
    [][\A n \in Node :
         api[n] # NoReport /\ api'[n] # NoReport
            => Rank(api'[n].phase) >= Rank(api[n].phase)]_vars

Timed(r) ==
    r.phase \in {"reboot", "rebooted"} \/ r.action = "reboot" \/ r.escalated
        => r.lastAction # Zero

(* Whoever asked for it, a reboot is timed by LastActionTime: the fallback *)
(* to LastUpdateTime (nIRcontroller.go:440-443) is never taken, and a      *)
(* report is escalated only after an action.                               *)
RebootTimed == \A n \in Node : \A r \in Copies(n) : Timed(r)
-----------------------------------------------------------------------------
(* The work queue.                                                         *)

HasWork(n) ==
    /\ Present(n) /\ cache[n] # NoReport
    /\ \/ cache[n].phase # "none"
       \/ cache[n].action # "none" /\ Dispatched(n) \in {"reboot", "replace", "paging"}

(* A report with something to do is queued, being worked on, or about to   *)
(* be changed by a delivery or by a writer: although handlers drop keys on *)
(* many paths, none is forgotten while API calls succeed or conflict and   *)
(* the rules stay (nIRcontroller.go:232-267, 536-540, 648-652).            *)
NoLostWork ==
    \A n \in Node : HasWork(n) =>
        \/ n \in queue \/ watch[n] # <<>>
        \/ \E t \in Worker \cup Writer : held[t].node = n
-----------------------------------------------------------------------------
(* What nodes suffer.                                                      *)

Touched(n) == node[n].cordoned \/ node[n].tainted \/ ~node[n].inAsg
                \/ node[n].rebootAge # Zero

Protected(n, entries) ==
    \E i \in DOMAIN entries :
        /\ n \in entries[i].nodes /\ (~entries[i].allow \/ entries[i].dryRun)
        /\ \A j \in 1 .. (i - 1) : n \notin entries[j].nodes

(* A node whose rule forbids operations, or is a dry run, is never         *)
(* cordoned, detached or rebooted, whichever controller asked and however  *)
(* the rules are edited, as long as they keep protecting it                *)
(* (toleranceconfig_types.go:54-56, 72-75; nIRcontroller.go:559-598).      *)
ProtectedUntouched ==
    \A n \in Node : (\A c \in ConfigChoices : Protected(n, c)) => ~Touched(n)

(* Nodes out of service because of the controller.                         *)
Disrupted(entry) == {n \in entry.nodes : Present(n) /\ node[n].cordoned}

(* maxConcurrentActions (toleranceconfig_types.go:77-79) is checked in one  *)
(* step and used up in another: each further worker may take one node more *)
(* of an entry out of service, and no more (nIRcontroller.go:600-648).     *)
LimitOvershoot ==
    \A i \in DOMAIN configs :
        configs[i].max > 0 =>
            Cardinality(Disrupted(configs[i])) <= configs[i].max + Cardinality(Worker) - 1

(* A cordoned node has a persisted report that still has to finish with    *)
(* it, so a successor process will (nIRcontroller.go:426-548).             *)
CordonRemembered ==
    \A n \in Node : Present(n) /\ node[n].cordoned =>
        /\ api[n] # NoReport
        /\ api[n].phase # "none" \/ api[n].action # "none"
-----------------------------------------------------------------------------
(* Liveness.  Goroutines and watches go on, time passes, a rebooted        *)
(* machine goes down and comes up, a group refills itself.  A key waits in *)
(* a queue other keys share, hence strong fairness for taking it.          *)

Fairness ==
    /\ \A w \in Worker : WF_vars(Work(w) \/ SelfPod(w))
    /\ \A n \in Node :
         /\ SF_vars(\E w \in Worker : Take(w, n))
         /\ WF_vars(Deliver(n)) /\ WF_vars(CleanerFinds(n))
         /\ WF_vars(GoesDown(n)) /\ WF_vars(ComesUp(n)) /\ WF_vars(Launch(n))
    /\ \A f \in Writer : WF_vars(WriterSaves(f) \/ WriterDeletes(f))
    /\ WF_vars(CleanerDeletes) /\ WF_vars(Tick)

FairSpec == Spec /\ Fairness

InPhases(n, phases) == api[n] # NoReport /\ api[n].phase \in phases

(* A reboot that is decided ends with the node back in service and its     *)
(* report settled, even if events keep conflicting with the controller's   *)
(* own updates or it restarts half way (nIRcontroller.go:426-548).         *)
RebootCompletes ==
    \A n \in Node :
        InPhases(n, {"reboot", "rebooted"})
            ~> (~InPhases(n, {"reboot", "rebooted"}) /\ ~node[n].cordoned)

(* A report kept for escalation leaves when its cooldown is over, unless   *)
(* it is needed again; without a cooldown it is kept for good              *)
(* (nIRcontroller.go:762-802).                                             *)
CoolsDown(n) == Policy(n) # NoEntry /\ Policy(n).cooldown > 0

CooldownEnds ==
    \A n \in Node :
        (InPhases(n, {"none"}) /\ api[n].lastAction # Zero /\ CoolsDown(n))
            ~> (api[n] = NoReport \/ api[n].action # "none" \/ api[n].score > 0)
-----------------------------------------------------------------------------
(* Claims of the documentation that the code does not keep.                *)

(* "no pending action": the cleanup deletes no report that its own process *)
(* has decided to act on (comment, nIRcontroller.go:762-763).              *)
CleanupSparesPending ==
    [][\A n \in Node :
         CleanerDeletes /\ held[Cleaner].node = n /\ cache[n] # NoReport
            => Waiting(n)]_vars

(* A replacement on its way goes on until the node has been removed, also  *)
(* if events are recorded meanwhile (test-plan.md TC-4.1) or a new process *)
(* takes over (TC-15.4).                                                   *)
ReplacementCarriedOut ==
    \A n \in Node : InPhases(n, Replacing) ~> node[n].place = "gone"
=============================================================================
