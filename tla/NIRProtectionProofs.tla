------------------------ MODULE NIRProtectionProofs ------------------------
(***************************************************************************)
(* ShieldInv is inductive: a node that every policy an administrator may   *)
(* apply protects is never touched, for any number of nodes, workers,      *)
(* writers, faults, crashes and rule changes.                              *)
(*                                                                         *)
(* The whole argument is in Take: it is the only action that asks the      *)
(* policy, and it is asked before the first phase.  After that the rules   *)
(* are never looked at again, so the proof is that no other action leads   *)
(* a calm report into a phase, or a harmless worker to a call.             *)
(***************************************************************************)
EXTENDS NIRSafetyProofs

Calm(r) == r # NoReport => r.phase = "none"

CalmReports(n) ==
    /\ Calm(api[n]) /\ Calm(cache[n])
    /\ \A i \in 1 .. Len(watch[n]) : Calm(watch[n][i])

Hands(n) == \A w \in Worker : held[w].node = n => pc[w] \in Harmless

Shield(n) == ~Touched(n) /\ CalmReports(n) /\ Hands(n)

LEMMA ShieldIs ==
    ASSUME TypeInv
    PROVE  ShieldInv <=> \A n \in ProtectedNodes : Shield(n)
<1>1. ASSUME NEW n \in Node
      PROVE  (\A r \in Copies(n) : r.phase = "none") <=> CalmReports(n)
  BY <1>1, CopiesAre DEF CalmReports, Calm
<1>2. ProtectedNodes \subseteq Node
  BY DEF ProtectedNodes
<1> QED BY <1>1, <1>2 DEF ShieldInv, Shield, Hands

LEMMA ShieldWillBe ==
    ASSUME TypeInv', \A n \in ProtectedNodes : Shield(n)'
    PROVE  ShieldInv'
<1>1. ASSUME NEW n \in Node, CalmReports(n)'
      PROVE  \A r \in Copies(n)' : r.phase = "none"
  BY <1>1, CopiesWillBe DEF CalmReports, Calm
<1>2. ProtectedNodes \subseteq Node /\ ProtectedNodes' = ProtectedNodes
  BY DEF ProtectedNodes, Protected
<1> QED BY <1>1, <1>2 DEF ShieldInv, Shield, Hands
-----------------------------------------------------------------------------
(* The rule in force for a protected node is the one that protects it: it  *)
(* is the first that matches.                                              *)
LEMMA PolicyProtects ==
    ASSUME TypeOK, NEW n \in ProtectedNodes
    PROVE  Denied(n) \/ DryRun(n)
<1>1. configs \in Seq(Entry) /\ configs \in ConfigChoices
  BY ControllerAssumption DEF TypeOK
<1>2. /\ DOMAIN configs = 1 .. Len(configs) /\ Len(configs) \in Nat
      /\ \A i \in DOMAIN configs : configs[i] \in Entry
  BY <1>1, ElementOfSeq, LenProperties
<1>3. PICK i \in DOMAIN configs :
         /\ n \in configs[i].nodes /\ (~configs[i].allow \/ configs[i].dryRun)
         /\ \A j \in 1 .. (i - 1) : n \notin configs[j].nodes
  BY <1>1 DEF ProtectedNodes, Protected
<1>4. i \in Matching(n) /\ \A j \in Matching(n) : i <= j
  BY <1>2, <1>3 DEF Matching
<1>5. \A k \in Matching(n) : (\A j \in Matching(n) : k <= j) => k = i
  BY <1>2, <1>4 DEF Matching
<1>6. (CHOOSE k \in Matching(n) : \A j \in Matching(n) : k <= j) = i
  BY <1>4, <1>5
<1>7. Policy(n) = configs[i]
  BY <1>4, <1>6 DEF Policy
<1>8. Policy(n) # NoEntry
  BY <1>2, <1>3, <1>7, ControllerAssumption
<1> QED BY <1>3, <1>7, <1>8 DEF Denied, DryRun
-----------------------------------------------------------------------------
(* One lemma for each shape of step.                                       *)

LEMMA ShieldEdit ==
    ASSUME NEW n \in Node, Shield(n),
           api'[n] = api[n], watch'[n] = watch[n], Calm(cache'[n]),
           ~Touched(n)', Hands(n)'
    PROVE  Shield(n)'
BY DEF Shield, CalmReports, Calm

(* Workers that go on as they were, let go, or do nothing harmful.         *)
LEMMA HandsKept ==
    ASSUME NEW n \in Node, Hands(n),
           \A v \in Worker : held'[v].node = n =>
              pc'[v] \in Harmless \/ (held[v].node = n /\ pc'[v] = pc[v])
    PROVE  Hands(n)'
BY DEF Hands

LEMMA ShieldAside ==
    ASSUME NEW n \in Node, Shield(n),
           api'[n] = api[n], watch'[n] = watch[n], cache'[n] = cache[n],
           node'[n] = node[n],
           \A v \in Worker : held'[v].node = n =>
              pc'[v] \in Harmless \/ (held[v].node = n /\ pc'[v] = pc[v])
    PROVE  Shield(n)'
<1>1. Hands(n)'
  BY HandsKept DEF Shield
<1> QED BY <1>1 DEF Shield, CalmReports, Calm, Touched

LEMMA ShieldPersist ==
    ASSUME TypeInv, NEW n \in Node, Shield(n), NEW k \in Node, NEW r \in Stored,
           NEW h \in [Thread -> Hold], Persist(k, r, h),
           UNCHANGED <<cache, node>>, k = n => Calm(r),
           \A v \in Worker : h[v].node = n =>
              pc'[v] \in Harmless \/ (held[v].node = n /\ pc'[v] = pc[v])
    PROVE  Shield(n)'
<1>1. \A t \in Thread : held'[t].node = h[t].node
  BY DEF Persist, Outdated
<1>2. Hands(n)'
  BY <1>1, HandsKept, ThreadKinds DEF Shield
<1>3. api \in [Node -> Stored] /\ watch \in [Node -> Seq(Stored)]
  BY DEF TypeInv, TypeOK, StoreTypeOK, Stored
<1>4. CASE k = n
  <2>1. api'[n] = r /\ watch'[n] = Append(watch[n], r)
    BY <1>3, <1>4 DEF Persist
  <2>2. watch[n] \in Seq(Stored) /\ Len(watch[n]) \in Nat
    BY <1>3, LenProperties
  <2>3. /\ Len(watch'[n]) = Len(watch[n]) + 1
        /\ \A i \in 1 .. Len(watch[n]) : watch'[n][i] = watch[n][i]
        /\ watch'[n][Len(watch[n]) + 1] = r
    BY <2>1, <2>2, AppendProperties
  <2>4. \A i \in 1 .. Len(watch'[n]) : i \in 1 .. Len(watch[n]) \/ i = Len(watch[n]) + 1
    BY <2>2, <2>3
  <2>5. Calm(r)
    BY <1>4
  <2>6. ASSUME NEW i \in 1 .. Len(watch'[n])
        PROVE  Calm(watch'[n][i])
    BY <2>3, <2>4, <2>5, <2>6 DEF Shield, CalmReports
  <2> QED BY <1>2, <2>1, <2>5, <2>6 DEF Shield, CalmReports, Touched
<1>5. CASE k # n
  BY <1>2, <1>3, <1>5 DEF Persist, Shield, CalmReports, Touched
<1> QED BY <1>4, <1>5

LEMMA ShieldRemove ==
    ASSUME TypeInv, NEW n \in Node, Shield(n), NEW k \in Node,
           NEW h \in [Thread -> Hold], Remove(k, h), UNCHANGED <<cache, node>>,
           \A v \in Worker : h[v].node = n =>
              pc'[v] \in Harmless \/ (held[v].node = n /\ pc'[v] = pc[v])
    PROVE  Shield(n)'
<1>1. NoReport \in Stored /\ Calm(NoReport)
  BY DEF Stored, Calm
<1>2. CASE api[k] = NoReport
  BY <1>2, ShieldAside DEF Remove
<1>3. CASE api[k] # NoReport
  BY <1>1, <1>3, ShieldPersist DEF Remove
<1> QED BY <1>2, <1>3

(* Letting go of a report.                                                 *)
LEMMA Freed ==
    ASSUME TypeInv, NEW t \in Thread, NEW n \in Node
    PROVE  /\ Released(t) \in [Thread -> Hold]
           /\ Released(t)[t] = Nothing /\ Nothing.node # n
           /\ \A s \in Thread : s # t => Released(t)[s] = held[s]
           /\ \A s \in Thread : Released(t)[s].node = n => s # t /\ held[s].node = n
BY StoreAssumption DEF TypeInv, TypeOK, StoreTypeOK, Released, Hold, Ref, Nothing
-----------------------------------------------------------------------------
(* The handlers.                                                           *)

LEMMA TakeBegins ==
    ASSUME NEW w \in Worker, NEW k \in Node, Take(w, k)
    PROVE  Drop(w, k) \/ \E r, l : Begin(w, k, r, l)
BY DEF Take, TakeMissing, TakeReport, TakeDrained, TakeNewJoined, TakeDetached,
       TakeReplace, TakeRebooted, TakeReboot, TakeDenied, TakeDryRun, TakeStart,
       TakeUnknownAction, TakeOverflow, TakeQuiet

(* What a worker makes of a calm report whose rule says no.                *)
LEMMA TakeCalm ==
    ASSUME TypeInv, NEW w \in Worker, NEW n \in Node, Take(w, n),
           Calm(cache[n]), Denied(n) \/ DryRun(n)
    PROVE  Drop(w, n) \/ \E r, l : Begin(w, n, r, l) /\ Calm(r) /\ l \in Harmless
<1> USE DEF Calm, Harmless, Saving
<1>1. CASE TakeMissing(w, n)
  BY <1>1 DEF TakeMissing
<1>2. CASE TakeReport(w, n)
  <2>1. cache[n] \in Report /\ cache[n].phase = "none"
    BY <1>2 DEF TakeReport, TypeInv, TypeOK, StoreTypeOK
  <2>2. CASE TakeDenied(w, n)
    BY <2>1, <2>2 DEF TakeDenied
  <2>3. CASE TakeDryRun(w, n)
    <3>1. Begin(w, n, Settled(cache[n]), "saveLog")
      BY <2>3 DEF TakeDryRun
    <3>2. Settled(cache[n]).phase = "none"
      BY <2>1 DEF Settled, Report
    <3> QED BY <3>1, <3>2
  <2>4. CASE TakeOverflow(w, n)
    <3> DEFINE r == [cache[n] EXCEPT !.score = 0, !.lastAction = 0]
               up == [r EXCEPT !.action = Policy(n).escalate, !.escalated = TRUE]
               act == [r EXCEPT !.action = Policy(n).action]
    <3>1. Begin(w, n, IF WithinCooldown(n) THEN up ELSE act, "saveLog")
      BY <2>4 DEF TakeOverflow
    <3>2. up.phase = "none" /\ act.phase = "none"
      BY <2>1 DEF Report
    <3> HIDE DEF up, act
    <3> QED BY <3>1, <3>2
  <2>5. CASE TakeUnknownAction(w, n) \/ TakeQuiet(w, n)
    BY <2>5 DEF TakeUnknownAction, TakeQuiet
  <2> QED
    BY <1>2, <2>1, <2>2, <2>3, <2>4, <2>5
       DEF TakeReport, TakeDrained, TakeNewJoined, TakeDetached, TakeReplace,
           TakeRebooted, TakeReboot, TakeStart
<1> QED BY <1>1, <1>2 DEF Take

LEMMA ShieldTake ==
    ASSUME TypeInv, NEW n \in ProtectedNodes, Shield(n),
           NEW w \in Worker, NEW k \in Node, Take(w, k)
    PROVE  Shield(n)'
<1> USE ThreadKinds
<1>0. n \in Node
  BY DEF ProtectedNodes
<1>1. CASE Drop(w, k)
  BY <1>0, <1>1, ShieldAside DEF Drop
<1>2. ASSUME NEW r, NEW l, Begin(w, k, r, l), k = n => Calm(r) /\ l \in Harmless
      PROVE  Shield(n)'
  <2>1. /\ cache \in [Node -> Stored] /\ held \in [Thread -> Hold] /\ pc \in [Thread -> Label]
    BY DEF TypeInv, TypeOK, StoreTypeOK, Stored
  <2>2. /\ held' = [held EXCEPT ![w] = Lookup(k)] /\ cache' = [cache EXCEPT ![k] = r]
        /\ pc' = [pc EXCEPT ![w] = l] /\ UNCHANGED <<api, watch, node>>
    BY <1>2 DEF Begin
  <2>3. Lookup(k).node = k
    BY LookupType
  <2>4. Hands(n)'
    <3>1. \A v \in Worker : held'[v].node = n =>
             pc'[v] \in Harmless \/ (held[v].node = n /\ pc'[v] = pc[v])
      BY <1>2, <2>1, <2>2, <2>3
    <3> QED BY <1>0, <3>1, HandsKept DEF Shield
  <2>5. Calm(cache'[n])
    BY <1>0, <1>2, <2>1, <2>2 DEF Shield, CalmReports
  <2>6. ~Touched(n)'
    BY <2>2 DEF Shield, Touched
  <2> QED BY <1>0, <2>2, <2>4, <2>5, <2>6, ShieldEdit
<1>3. CASE k = n
  BY <1>0, <1>1, <1>2, <1>3, TakeCalm, PolicyProtects DEF Shield, CalmReports, TypeInv
<1>4. CASE k # n
  BY <1>1, <1>2, <1>4, TakeBegins
<1> QED BY <1>3, <1>4

(* A call on another node.                                                 *)
LEMMA ShieldProceed ==
    ASSUME TypeInv, NEW n \in Node, Shield(n), NEW w \in Worker, pc[w] # "idle",
           held[w].node # n, NEW m, NEW r, NEW l, Proceed(w, m, r, l)
    PROVE  Shield(n)'
<1>1. /\ cache \in [Node -> Stored] /\ pc \in [Thread -> Label] /\ node \in [Node -> NodeRecord]
  BY DEF TypeInv, TypeOK, StoreTypeOK, Stored
<1>2. cache'[n] = cache[n] /\ node'[n] = node[n]
  BY <1>1, Busy DEF Proceed, Edited
<1>3. \A v \in Worker : held'[v].node = n => held[v].node = n /\ pc'[v] = pc[v]
  BY <1>1, ThreadKinds DEF Proceed
<1> QED BY <1>2, <1>3, ShieldAside DEF Proceed

(* A report put back, whatever the call did to another node.               *)
LEMMA ShieldRelease ==
    ASSUME TypeInv, NEW n \in Node, Shield(n), NEW t \in Thread,
           held' = Released(t), pc' = [pc EXCEPT ![t] = "idle"],
           UNCHANGED <<api, cache, watch>>, node'[n] = node[n]
    PROVE  Shield(n)'
<1>1. \A v \in Worker : held'[v].node = n => held[v].node = n /\ pc'[v] = pc[v]
  BY Freed, ThreadKinds DEF TypeInv, TypeOK
<1> QED BY <1>1, ShieldAside

LEMMA ShieldSave ==
    ASSUME TypeInv, NEW n \in Node, Shield(n), NEW t \in Thread,
           held[t].node \in Node, Persist(held[t].node, Mine(t), Released(t)),
           UNCHANGED <<cache, node>>, pc' = [pc EXCEPT ![t] = "idle"]
    PROVE  Shield(n)'
<1>1. Mine(t) \in Stored /\ (held[t].node = n => Calm(Mine(t)))
  BY DEF TypeInv, TypeOK, StoreTypeOK, Stored, Mine, Shield, CalmReports
<1>2. /\ Released(t) \in [Thread -> Hold]
      /\ \A v \in Worker : Released(t)[v].node = n => held[v].node = n /\ pc'[v] = pc[v]
  BY Freed, ThreadKinds DEF TypeInv, TypeOK
<1> QED BY <1>1, <1>2, ShieldPersist

LEMMA ShieldDelete ==
    ASSUME TypeInv, NEW n \in Node, Shield(n), NEW t \in Thread,
           held[t].node \in Node, Remove(held[t].node, Released(t)),
           UNCHANGED <<cache, node>>, pc' = [pc EXCEPT ![t] = "idle"]
    PROVE  Shield(n)'
<1>1. /\ Released(t) \in [Thread -> Hold]
      /\ \A v \in Worker : Released(t)[v].node = n => held[v].node = n /\ pc'[v] = pc[v]
  BY Freed, ThreadKinds DEF TypeInv, TypeOK
<1> QED BY <1>1, ShieldRemove
LEMMA ShieldWork ==
    ASSUME TypeInv, NEW n \in Node, Shield(n), NEW w \in Worker, Work(w)
    PROVE  Shield(n)'
<1> USE ThreadKinds DEF At
<1>0. pc[w] # "idle"
  BY DEF Work, Start, Reboot, Detach, DetachRefused, Cordon, EvictOld, EvictReboot,
         ForceCordon, ForceStale, ForceTaint, Uncordon, NodeGone, Notify,
         DeleteNode, DeleteReport, DeletePaged, SelfReport, SelfNodeGone, Save, SaveConflict,
         Retried, Notifying, Draining, Saving
<1>a. held[w].node \in Node /\ (pc[w] \notin Harmless => held[w].node # n)
  BY <1>0, Busy DEF Shield, Hands
<1>1. CASE Start(w) \/ Reboot(w) \/ Detach(w) \/ Cordon(w) \/ EvictOld(w)
             \/ EvictReboot(w) \/ ForceCordon(w) \/ ForceTaint(w) \/ Uncordon(w)
             \/ DeleteNode(w) \/ SelfNodeGone(w) \/ (Notify(w) /\ ~At(w, "notifyDenied"))
  <2>1. pc[w] \notin Harmless
    BY <1>1
       DEF Start, Reboot, Detach, Cordon, EvictOld, EvictReboot, ForceCordon, ForceTaint,
           Uncordon, DeleteNode, SelfNodeGone, Notify, Harmless, Saving
  <2>2. \E m, r, l : Proceed(w, m, r, l)
    BY <1>1
       DEF Start, Reboot, Detach, Cordon, EvictOld, EvictReboot, ForceCordon, ForceTaint,
           Uncordon, DeleteNode, SelfNodeGone, Notify
  <2> QED BY <1>0, <1>a, <2>1, <2>2, ShieldProceed
<1>2. CASE Notify(w) /\ At(w, "notifyDenied")
  <2>1. Proceed(w, Here(w), Settled(Mine(w)), "saveRetry")
    BY <1>2 DEF Notify
  <2>2. /\ node' = [node EXCEPT ![held[w].node] = Here(w)]
        /\ cache' = Edited(w, Settled(Mine(w))) /\ pc' = [pc EXCEPT ![w] = "saveRetry"]
        /\ UNCHANGED <<api, watch, held>>
    BY <2>1 DEF Proceed
  <2>3. Calm(cache'[n])
    <3>1. CASE held[w].ref = "orphan"
      BY <2>2, <3>1 DEF Edited, Shield, CalmReports
    <3>2. CASE held[w].ref # "orphan"
      <4>1. Mine(w) \in Report
        BY <1>0, <3>2, Busy
      <4>2. Calm(Settled(Mine(w)))
        BY <4>1 DEF Settled, Report, Calm
      <4>3. cache' = [cache EXCEPT ![held[w].node] = Settled(Mine(w))]
        BY <2>2, <3>2 DEF Edited
      <4>4. cache \in [Node -> Stored]
        BY DEF TypeInv, TypeOK, StoreTypeOK, Stored
      <4> QED BY <1>a, <4>2, <4>3, <4>4 DEF Shield, CalmReports
    <3> QED BY <3>1, <3>2
  <2>4. ~Touched(n)'
    <3>1. node' = node
      BY <1>a, <2>2 DEF Here, TypeInv, TypeOK
    <3> QED BY <3>1 DEF Touched, Shield
  <2>5. Hands(n)'
    <3>1. \A v \in Worker : pc'[v] = pc[v] \/ pc'[v] \in Harmless
      BY <2>2 DEF TypeInv, TypeOK, Harmless, Saving
    <3> QED BY <2>2, <3>1, HandsKept DEF Shield
  <2> QED BY <2>2, <2>3, <2>4, <2>5, ShieldEdit
<1>3. CASE DetachRefused(w) \/ ForceStale(w) \/ NodeGone(w) \/ SaveConflict(w)
  BY <1>3, ShieldRelease DEF DetachRefused, ForceStale, NodeGone, SaveConflict, Retry, Finish
<1>4. CASE Save(w)
  BY <1>4, <1>a, ShieldSave DEF Save, Finish
<1>5. CASE DeleteReport(w) \/ DeletePaged(w)
  BY <1>5, <1>a, ShieldDelete DEF DeleteReport, DeletePaged, Finish
<1>6. CASE SelfReport(w)
  <2>1. held[w].node # n
    BY <1>6, <1>a DEF SelfReport, Harmless, Saving
  <2>2. \A v \in Worker : held[v].node = n => held[v].node = n /\ pc'[v] = pc[v]
    BY <1>6, <2>1 DEF SelfReport, TypeInv, TypeOK
  <2>3. held \in [Thread -> Hold]
    BY DEF TypeInv, TypeOK, StoreTypeOK
  <2> QED BY <1>6, <1>a, <2>2, <2>3, ShieldRemove DEF SelfReport
<1> QED BY <1>1, <1>2, <1>3, <1>4, <1>5, <1>6 DEF Work

LEMMA ShieldFault ==
    ASSUME TypeInv, NEW n \in Node, Shield(n), NEW w \in Worker, Fault(w)
    PROVE  Shield(n)'
<1> USE ThreadKinds DEF At
<1>0. pc[w] # "idle"
  BY DEF Fault, CallFails, CallLost, SaveFails, DeleteReportFails, SelfCallFails,
         Retried, Notifying, Draining, Saving
<1>a. held[w].node \in Node /\ (pc[w] \notin Harmless => held[w].node # n)
  BY <1>0, Busy DEF Shield, Hands
<1>1. CASE CallFails(w) \/ DeleteReportFails(w)
  BY <1>1, ShieldRelease DEF CallFails, DeleteReportFails, Retry, Finish
<1>2. CASE CallLost(w)
  <2>1. held[w].node # n
    BY <1>2, <1>a DEF CallLost, Harmless, Saving
  <2>2. node'[n] = node[n]
    BY <1>2, <2>1 DEF CallLost, TypeInv, TypeOK
  <2> QED BY <1>2, <2>2, ShieldRelease DEF CallLost, Finish
<1>3. CASE SaveFails(w)
  BY <1>3, <1>a, ShieldRelease, ShieldSave DEF SaveFails, Finish
<1>4. CASE SelfCallFails(w)
  <2>1. CASE held' = held
    <3>1. held[w].node # n
      BY <1>4, <1>a DEF SelfCallFails, Harmless, Saving
    <3>2. \A v \in Worker : held'[v].node = n => held[v].node = n /\ pc'[v] = pc[v]
      BY <1>4, <2>1, <3>1 DEF SelfCallFails, TypeInv, TypeOK
    <3> QED BY <1>4, <3>2, ShieldAside DEF SelfCallFails
  <2>2. CASE pc' = [pc EXCEPT ![w] = "idle"] /\ held' = Released(w)
    BY <1>4, <2>2, ShieldRelease DEF SelfCallFails
  <2> QED BY <1>4, <2>1, <2>2 DEF SelfCallFails
<1> QED BY <1>1, <1>2, <1>3, <1>4 DEF Fault
-----------------------------------------------------------------------------
(* The cleanup and the other controllers.                                  *)

LEMMA ShieldCleaner ==
    ASSUME TypeInv, NEW n \in Node, Shield(n),
           (\E k \in Node : CleanerFinds(k)) \/ CleanerDeletes \/ CleanerFails
    PROVE  Shield(n)'
<1> USE ThreadKinds DEF At
<1>1. ASSUME NEW k \in Node, CleanerFinds(k)
      PROVE  Shield(n)'
  <2>1. \A v \in Worker : held'[v] = held[v] /\ pc'[v] = pc[v]
    BY <1>1, ControllerAssumption DEF CleanerFinds, TypeInv, TypeOK, StoreTypeOK
  <2> QED BY <1>1, <2>1, ShieldAside DEF CleanerFinds
<1>2. CASE CleanerDeletes
  <2>1. held[Cleaner].node \in Node
    BY <1>2 DEF CleanerDeletes, TypeInv, Pointers
  <2> QED BY <1>2, <2>1, ShieldDelete DEF CleanerDeletes
<1>3. CASE CleanerFails
  BY <1>3, ShieldRelease DEF CleanerFails
<1> QED BY <1>1, <1>2, <1>3

LEMMA ShieldCreate ==
    ASSUME TypeInv, NEW n \in Node, Shield(n), NEW k \in Node, EventCreates(k) \/ NodeCreates(k)
    PROVE  Shield(n)'
<1>1. PICK status \in NodeStatus, problems \in BOOLEAN, s \in 0 .. ScoreCap :
         Create(k, status, problems, s)
  <2>1. 0 \in 0 .. ScoreCap
    BY StoreAssumption
  <2> QED BY <2>1 DEF EventCreates, NodeCreates, NodeStatus
<1>2. PICK r \in Stored : r = Opened(status, problems, s) /\ Calm(r)
  <2>1. Opened(status, problems, s) \in Report
    BY DEF Opened, Report, Action, Phase, Stamp
  <2>2. Opened(status, problems, s).phase = "none"
    BY DEF Opened
  <2> QED BY <2>1, <2>2 DEF Stored, Calm
<1>3. Persist(k, r, held) /\ UNCHANGED <<cache, node, pc>> /\ held \in [Thread -> Hold]
  BY <1>1, <1>2 DEF Create, TypeInv, TypeOK, StoreTypeOK
<1> QED BY <1>2, <1>3, ShieldPersist

(* The other controllers write status, problems, score and action, never a *)
(* phase.                                                                  *)
LEMMA ShieldWrite ==
    ASSUME TypeInv, NEW n \in Node, Shield(n), NEW f \in Writer, NEW k \in Node, Write(f, k)
    PROVE  Shield(n)'
<1> USE ThreadKinds
<1>1. PICK r, l : /\ WriterBegins(f, k, r, l)
                  /\ cache[k] = NoReport => r = NoReport
                  /\ cache[k] # NoReport => r.phase = cache[k].phase
  <2>1. cache[k] # NoReport => cache[k] \in Report
    BY DEF TypeInv, TypeOK, StoreTypeOK
  <2>2. CASE EventRecorded(f, k)
    <3>1. PICK s \in 0 .. ScoreCap : /\ cache[k] # NoReport
             /\ WriterBegins(f, k, [cache[k] EXCEPT !.problems = TRUE, !.score = s], "commit")
      BY <2>2 DEF EventRecorded
    <3>2. [cache[k] EXCEPT !.problems = TRUE, !.score = s].phase = cache[k].phase
      BY <2>1, <3>1 DEF Report
    <3> QED BY <3>1, <3>2
  <2>3. CASE StatusRecorded(f, k)
    BY <2>1, <2>3 DEF StatusRecorded, Report
  <2>4. CASE ReplaceRequested(f, k)
    <3> DEFINE q == [cache[k] EXCEPT !.action = "replace",
                       !.status = IF node[k].ready = "Unknown" THEN "Unknown" ELSE @]
    <3>1. cache[k] # NoReport /\ WriterBegins(f, k, q, "commit")
      BY <2>4 DEF ReplaceRequested
    <3>2. q.phase = cache[k].phase
      BY <2>1, <3>1 DEF Report
    <3> HIDE DEF q
    <3> QED BY <3>1, <3>2
  <2>5. CASE ReportWithdrawn(f, k)
    BY <2>5 DEF ReportWithdrawn
  <2> QED BY <2>2, <2>3, <2>4, <2>5 DEF Write
<1>2. /\ cache' = [cache EXCEPT ![k] = r] /\ UNCHANGED <<api, watch, node>>
      /\ \A v \in Worker : held'[v] = held[v] /\ pc'[v] = pc[v]
  BY <1>1, ControllerAssumption DEF WriterBegins, TypeInv, TypeOK, StoreTypeOK
<1>3. Calm(cache'[n])
  BY <1>1, <1>2 DEF Shield, CalmReports, Calm, TypeInv, TypeOK, StoreTypeOK
<1>4. Hands(n)' /\ ~Touched(n)'
  BY <1>2 DEF Shield, Hands, Touched
<1> QED BY <1>2, <1>3, <1>4, ShieldEdit

LEMMA ShieldWriterEnds ==
    ASSUME TypeInv, NEW n \in Node, Shield(n), NEW f \in Writer,
           WriterSaves(f) \/ WriterDeletes(f)
    PROVE  Shield(n)'
<1> USE ThreadKinds DEF At
<1>1. held[f].node \in Node
  BY DEF WriterSaves, WriterDeletes, TypeInv, Pointers
<1>2. CASE WriterSaves(f)
  BY <1>1, <1>2, ShieldSave, ShieldRelease DEF WriterSaves
<1>3. CASE WriterDeletes(f)
  BY <1>1, <1>3, ShieldDelete DEF WriterDeletes
<1> QED BY <1>2, <1>3
-----------------------------------------------------------------------------
(* The informer, the process, time and the world.                          *)

LEMMA ShieldDeliver ==
    ASSUME TypeInv, NEW n \in Node, Shield(n), NEW k \in Node, Deliver(k)
    PROVE  Shield(n)'
<1> USE ThreadKinds
<1>1. /\ watch[k] # <<>> /\ api' = api /\ node' = node /\ pc' = pc
      /\ cache' = [cache EXCEPT ![k] = Head(watch[k])]
      /\ watch' = [watch EXCEPT ![k] = Tail(@)] /\ held' = Replaced(k)
  BY DEF Deliver, DeliverNext
<1>2. cache \in [Node -> Stored] /\ watch \in [Node -> Seq(Stored)]
  BY DEF TypeInv, TypeOK, StoreTypeOK, Stored
<1>3. \A t \in Thread : held'[t].node = held[t].node
  BY <1>1 DEF Replaced
<1>4. Hands(n)' /\ ~Touched(n)'
  BY <1>1, <1>3 DEF Shield, Hands, Touched
<1>5. CASE k = n
  <2>1. /\ Len(watch[n]) \in Nat /\ Len(watch[n]) >= 1 /\ Head(watch[n]) = watch[n][1]
        /\ Len(Tail(watch[n])) = Len(watch[n]) - 1
        /\ \A i \in 1 .. Len(Tail(watch[n])) : Tail(watch[n])[i] = watch[n][i + 1]
    BY <1>1, <1>2, <1>5, HeadTailProperties, EmptySeq, LenProperties
  <2>2. cache'[n] = watch[n][1] /\ watch'[n] = Tail(watch[n])
    BY <1>1, <1>2, <1>5, <2>1
  <2>3. \A i \in 1 .. Len(watch'[n]) :
           i + 1 \in 1 .. Len(watch[n]) /\ watch'[n][i] = watch[n][i + 1]
    BY <2>1, <2>2
  <2> QED BY <1>1, <1>4, <2>1, <2>2, <2>3 DEF Shield, CalmReports
<1>6. CASE k # n
  BY <1>1, <1>2, <1>4, <1>6 DEF Shield, CalmReports
<1> QED BY <1>5, <1>6

LEMMA ShieldRestart ==
    ASSUME TypeInv, NEW n \in Node, Shield(n), Restart
    PROVE  Shield(n)'
<1>1. api'[n] = api[n] /\ cache'[n] = api[n] /\ watch'[n] = <<>> /\ node' = node
  BY DEF Restart, Relist
<1>2. \A v \in Worker : pc'[v] \in Harmless
  BY ThreadKinds DEF Restart, Harmless
<1>3. Hands(n)' /\ ~Touched(n)'
  BY <1>1, <1>2 DEF Shield, Hands, Touched
<1> QED BY <1>1, <1>3 DEF Shield, CalmReports

LEMMA ShieldTick ==
    ASSUME TypeInv, NEW n \in Node, Shield(n), Tick
    PROVE  Shield(n)'
<1>1. /\ api[n] \in Stored /\ cache[n] \in Stored /\ watch[n] \in Seq(Stored)
      /\ node[n] \in NodeRecord
  BY DEF TypeInv, TypeOK, StoreTypeOK, Stored
<1>2. /\ Len(watch[n]) \in Nat /\ DOMAIN watch[n] = 1 .. Len(watch[n])
      /\ \A i \in 1 .. Len(watch[n]) : watch[n][i] \in Stored
  BY <1>1, LenProperties, ElementOfSeq
<1>3. /\ held' = held /\ pc' = pc
      /\ api'[n] = Aged(api[n]) /\ cache'[n] = Aged(cache[n])
      /\ watch'[n] = [i \in 1 .. Len(watch[n]) |-> Aged(watch[n][i])]
      /\ node'[n] = AgeNode(node[n])
  BY <1>2 DEF Tick, AgeReports
<1>4. \A r \in Stored : Calm(r) => Calm(Aged(r))
  BY AgedKeeps DEF Calm
<1>5. Len(watch'[n]) = Len(watch[n])
  BY <1>2, <1>3
<1>6. CalmReports(n)'
  BY <1>1, <1>2, <1>3, <1>4, <1>5 DEF Shield, CalmReports
<1>7. ~Touched(n)'
  <2>1. /\ node'[n].cordoned = node[n].cordoned /\ node'[n].tainted = node[n].tainted
        /\ node'[n].inAsg = node[n].inAsg /\ node'[n].rebootAge = Older(node[n].rebootAge)
    BY <1>1, <1>3 DEF AgeNode, NodeRecord
  <2> QED BY <2>1 DEF Shield, Touched, Older
<1> QED BY <1>3, <1>6, <1>7 DEF Shield, Hands

(* Nothing outside cordons a node, taints it or takes it out of its group. *)
LEMMA ShieldEnvironment ==
    ASSUME TypeInv, NEW n \in Node, Shield(n), NEW k \in Node, Environment(k)
    PROVE  Shield(n)'
<1>1. PICK m : /\ World(k, m)
               /\ ~Touched(k) => /\ ~m.cordoned /\ ~m.tainted /\ m.inAsg
                                 /\ m.rebootAge = Zero
  <2>0. node[k] \in NodeRecord
    BY DEF TypeInv, TypeOK
  <2>1. CASE Outage(k)
    BY <2>0, <2>1 DEF Outage, NodeRecord, Touched
  <2>2. CASE Recover(k)
    BY <2>0, <2>2 DEF Recover, NodeRecord, Touched
  <2>3. CASE GoesDown(k)
    <3> DEFINE m == [node[k] EXCEPT !.boot = "down", !.ready = "False"]
    <3>1. World(k, m)
      BY <2>3 DEF GoesDown
    <3>2. /\ m.cordoned = node[k].cordoned /\ m.tainted = node[k].tainted
          /\ m.inAsg = node[k].inAsg /\ m.rebootAge = node[k].rebootAge
      BY <2>0 DEF NodeRecord
    <3> HIDE DEF m
    <3> QED BY <3>1, <3>2 DEF Touched
  <2>7. CASE ComesUp(k)
    <3> DEFINE m == [node[k] EXCEPT !.boot = "steady", !.ready = "True"]
    <3>1. World(k, m)
      BY <2>7 DEF ComesUp
    <3>2. /\ m.cordoned = node[k].cordoned /\ m.tainted = node[k].tainted
          /\ m.inAsg = node[k].inAsg /\ m.rebootAge = node[k].rebootAge
      BY <2>0 DEF NodeRecord
    <3> HIDE DEF m
    <3> QED BY <3>1, <3>2 DEF Touched
  <2>4. CASE Launch(k) \/ ScaleOut(k)
    BY <2>4 DEF Launch, ScaleOut, Joined, Fresh
  <2>5. CASE Vanish(k)
    BY <2>0, <2>5 DEF Vanish, NodeRecord, Touched
  <2>6. CASE PodsScheduled(k) \/ TaintEvicts(k)
    BY <2>0, <2>6 DEF PodsScheduled, TaintEvicts, NodeRecord, Touched
  <2> QED BY <2>1, <2>2, <2>3, <2>4, <2>5, <2>6, <2>7 DEF Environment
<1>2. node' = [node EXCEPT ![k] = m] /\ UNCHANGED <<api, cache, watch, held, pc>>
  BY <1>1 DEF World
<1>3. ~Touched(n)'
  BY <1>1, <1>2 DEF Shield, Touched, TypeInv, TypeOK
<1> QED BY <1>2, <1>3 DEF Shield, CalmReports, Hands
-----------------------------------------------------------------------------
LEMMA ShieldInit == Init => ShieldInv
<1> SUFFICES ASSUME Init, NEW n \in ProtectedNodes PROVE Shield(n)
  BY TypeInit, ShieldIs
<1>1. n \in Node
  BY DEF ProtectedNodes
<1>2. api[n] = NoReport /\ cache[n] = NoReport /\ watch[n] = <<>>
  BY <1>1 DEF Init, StoreInit
<1>3. CalmReports(n)
  BY <1>2 DEF CalmReports, Calm
<1>4. ~Touched(n)
  BY <1>1 DEF Init, Touched, Fresh
<1>5. Hands(n)
  BY ThreadKinds DEF Init, Hands, Harmless
<1> QED BY <1>3, <1>4, <1>5 DEF Shield

LEMMA ShieldNext == TypeInv /\ ShieldInv /\ [Next]_vars => ShieldInv'
<1> SUFFICES ASSUME TypeInv, ShieldInv, [Next]_vars, NEW n \in ProtectedNodes
             PROVE  Shield(n)'
  BY TypeNext, ShieldWillBe
<1>0. n \in Node /\ Shield(n)
  BY ShieldIs DEF ProtectedNodes
<1>1. CASE \E w \in Worker, k \in Node : Take(w, k)
  BY <1>0, <1>1, ShieldTake
<1>2. CASE \E w \in Worker : Work(w) \/ Fault(w)
  BY <1>0, <1>2, ShieldWork, ShieldFault
<1>3. CASE (\E k \in Node : CleanerFinds(k)) \/ CleanerDeletes \/ CleanerFails
  BY <1>0, <1>3, ShieldCleaner
<1>4. CASE \E k \in Node : EventCreates(k) \/ NodeCreates(k)
  BY <1>0, <1>4, ShieldCreate
<1>5. CASE \E f \in Writer, k \in Node : Write(f, k)
  BY <1>0, <1>5, ShieldWrite
<1>6. CASE \E f \in Writer : WriterSaves(f) \/ WriterDeletes(f)
  BY <1>0, <1>6, ShieldWriterEnds
<1>7. CASE \E k \in Node : Deliver(k) \/ Environment(k)
  BY <1>0, <1>7, ShieldDeliver, ShieldEnvironment
<1>8. CASE Crash \/ \E w \in Worker : SelfPod(w)
  BY <1>0, <1>8, ShieldRestart DEF Crash, SelfPod
<1>9. CASE EditConfigs \/ UNCHANGED vars
  BY <1>0, <1>9 DEF EditConfigs, vars, Shield, CalmReports, Hands, Touched
<1>10. CASE Tick
  BY <1>0, <1>10, ShieldTick
<1> QED
  BY <1>1, <1>2, <1>3, <1>4, <1>5, <1>6, <1>7, <1>8, <1>9, <1>10 DEF Next

(* Nothing ever starts on a node that every possible policy protects.      *)
THEOREM ShieldHolds == Spec => []ShieldInv
<1>1. Init => TypeInv /\ ShieldInv
  BY TypeInit, ShieldInit
<1>2. TypeInv /\ ShieldInv /\ [Next]_vars => TypeInv' /\ ShieldInv'
  BY TypeNext, ShieldNext
<1> QED BY <1>1, <1>2, PTL DEF Spec

(* So it is never cordoned, tainted, detached or rebooted.                 *)
THEOREM ProtectedAreUntouched == Spec => []ProtectedUntouched
<1>1. ShieldInv => ProtectedUntouched
  BY DEF ShieldInv, ProtectedUntouched, ProtectedNodes
<1> QED BY <1>1, ShieldHolds, PTL
=============================================================================
