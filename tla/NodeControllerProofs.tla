------------------------ MODULE NodeControllerProofs ------------------------
(***************************************************************************)
(* NodeController's queues only choose among the steps of NIRController:   *)
(* the composed system implements it, and inherits its safety properties.  *)
(***************************************************************************)
EXTENDS NodeInvariant, NIRLifecycleProofs, NIRProtectionProofs

LEMMA LooksAreWrites ==
  ASSUME NEW f \in Looker, LookSaves(f) \/ \E n \in Node : LookStep(f, n)
  PROVE  [Next]_vars
<1>1. f \in Writer
  BY NodeAssumption
<1>2. CASE LookSaves(f)
  BY <1>1, <1>2 DEF LookSaves, Next
<1>3. ASSUME NEW n \in Node, LookStep(f, n) PROVE [Next]_vars
  <2>1. CASE LookGone(f, n)
    BY <2>1 DEF LookGone
  <2>2. CASE LookCreates(f, n)
    BY <2>2 DEF LookCreates, Next
  <2>3. CASE LookRecords(f, n)
    BY <1>1, <2>3 DEF LookRecords, Next, Write
  <2> QED  BY <1>3, <2>1, <2>2, <2>3 DEF LookStep
<1> QED  BY <1>2, <1>3

LEMMA ChecksAreWrites ==
  ASSUME NEW f \in Checker,
         CheckSaves(f) \/ CheckDeletes(f) \/ \E n \in Node : CheckStep(f, n)
  PROVE  [Next]_vars
<1>1. f \in Writer
  BY NodeAssumption
<1>2. CASE CheckSaves(f)
  BY <1>1, <1>2 DEF CheckSaves, Next
<1>3. CASE CheckDeletes(f)
  BY <1>1, <1>3 DEF CheckDeletes, Next
<1>4. ASSUME NEW n \in Node, CheckStep(f, n) PROVE [Next]_vars
  <2>1. CASE CheckDrops(f, n)
    BY <2>1 DEF CheckDrops
  <2>2. CASE CheckRequests(f, n)
    BY <1>1, <2>2 DEF CheckRequests, Next, Write
  <2>3. CASE CheckReady(f, n)
    BY <1>1, <2>3 DEF CheckReady, Next, Write
  <2>4. CASE CheckWithdraws(f, n)
    BY <1>1, <2>4 DEF CheckWithdraws, Next, Write
  <2>5. CASE CheckNothing(f, n)
    BY <2>5 DEF CheckNothing
  <2> QED  BY <1>4, <2>1, <2>2, <2>3, <2>4, <2>5 DEF CheckStep
<1> QED  BY <1>2, <1>3, <1>4

LEMMA OthersAreSteps == ControllerStep => Next
<1> SUFFICES ASSUME ControllerStep PROVE Next
  OBVIOUS
<1>1. \A f \in Recorder : f \in Writer
  BY DEF Recorder
<1> QED  BY <1>1 DEF ControllerStep, Next, Write

LEMMA NodeStepIsStep == [NodeNext]_nodeVars => [Next]_vars
<1> SUFFICES ASSUME [NodeNext]_nodeVars PROVE [Next]_vars
  OBVIOUS
<1>1. CASE UNCHANGED nodeVars
  BY <1>1 DEF nodeVars
<1>2. CASE NodeTick
  BY <1>2 DEF NodeTick, Next
<1>3. CASE NodeRestart
  BY <1>3 DEF NodeRestart, Next
<1>4. ASSUME NEW n \in Node, NodeChanges(n) PROVE [Next]_vars
  BY <1>4 DEF NodeChanges, Next
<1> QED
  BY <1>1, <1>2, <1>3, <1>4, LooksAreWrites, ChecksAreWrites, OthersAreSteps DEF NodeNext

(* Every behaviour with the queues is one of NIRController with Writers    *)
(* that act at any time (nodecontroller.go:190-360).                       *)
THEOREM NodeImplements == NodeSpec => Spec
<1>1. NodeInit => Init
  BY DEF NodeInit
<1> QED  BY <1>1, NodeStepIsStep, PTL DEF NodeSpec, Spec

(* So NodeController's second looks and requeues never make a phase untrue *)
(* of its node, a Node object deleted before it was drained, or a protected*)
(* node touched (nodecontroller.go:190-279).                               *)
THEOREM NodeSafety ==
    NodeSpec => []PhaseEffects /\ DeletedNodeWasDrained /\ []ProtectedUntouched
  BY NodeImplements, PhasesAreTrue, DeletionsFollowDrains, ProtectedAreUntouched

(* Nor do they make a report skip a phase, or a decided replacement        *)
(* forgotten, while calls only succeed or conflict and the rules stay      *)
(* (nodecontroller.go:219-245).                                            *)
THEOREM NodeLosesNoWork ==
    ASSUME Budget["faults"] = 0, Budget["edits"] = 0
    PROVE  NodeSpec => []NoLostWork /\ FollowsLifecycle
  BY NodeImplements, NoWorkIsLost, ImplementsLifecycle
-----------------------------------------------------------------------------
(* Types of the queues: keys are nodes, and no timer runs for longer than  *)
(* the grace time or past the moment its key is due.                       *)

QueuesOK ==
    /\ looks \subseteq Node /\ due \subseteq Node
    /\ timer \in [Node -> {Zero} \cup (1 .. GraceTime)]

LEMMA DelaysFit ==
  ASSUME NEW n
  PROVE  GraceTime \in 1 .. GraceTime /\ RequeueDelay(n) \in 1 .. GraceTime
<1>1. GraceTime \in Nat /\ GraceTime > 1
  BY NodeAssumption
<1> QED  BY <1>1 DEF RequeueDelay

LEMMA SoonerFits ==
  ASSUME QueuesOK, NEW n \in Node, NEW d \in 1 .. GraceTime
  PROVE  Sooner(n, d) \in [Node -> {Zero} \cup (1 .. GraceTime)]
BY DEF QueuesOK, Sooner

LEMMA QueuesAdd ==
  ASSUME QueuesOK, NEW n \in Node, NEW d \in 1 .. GraceTime, AddAfter(n, d),
         looks' \subseteq Node
  PROVE  QueuesOK'
BY SoonerFits DEF QueuesOK, AddAfter

(* A goroutine in a call has got its key from a queue.                     *)
LEMMA HeldIsNode ==
  ASSUME TypeInv, NEW f \in Writer, WriterSaves(f) \/ WriterDeletes(f)
  PROVE  held[f].node \in Node
BY ThreadKinds DEF TypeInv, Pointers, WriterSaves, WriterDeletes, At

LEMMA QueuesLooks ==
  ASSUME TypeInv, QueuesOK, NEW f \in Looker,
         LookSaves(f) \/ \E n \in Node : LookStep(f, n)
  PROVE  QueuesOK'
<1>1. CASE LookSaves(f)
  <2>1. held[f].node \in Node
    BY <1>1, HeldIsNode, NodeAssumption DEF LookSaves
  <2>2. CASE Updatable(f)
    <3>1. AddAfter(held[f].node, GraceTime) /\ looks' \subseteq Node
      BY <1>1, <2>2 DEF LookSaves, QueuesOK
    <3> QED  BY <2>1, <3>1, DelaysFit, QueuesAdd
  <2>3. CASE ~Updatable(f)
    BY <1>1, <2>1, <2>3 DEF LookSaves, QueuesOK
  <2> QED  BY <2>2, <2>3
<1>2. ASSUME NEW n \in Node, LookStep(f, n) PROVE QueuesOK'
  <2>1. looks' \subseteq Node
    BY <1>2 DEF LookStep, LookGone, LookCreates, LookRecords, Look, QueuesOK
  <2>2. CASE LookCreates(f, n)
    <3>1. AddAfter(n, GraceTime)
      BY <2>2 DEF LookCreates
    <3> QED  BY <2>1, <3>1, DelaysFit, QueuesAdd
  <2>3. CASE LookGone(f, n) \/ LookRecords(f, n)
    BY <2>1, <2>3 DEF LookGone, LookRecords, QueuesOK
  <2> QED  BY <1>2, <2>2, <2>3 DEF LookStep
<1> QED  BY <1>1, <1>2

LEMMA QueuesChecks ==
  ASSUME TypeInv, QueuesOK, NEW f \in Checker,
         CheckSaves(f) \/ CheckDeletes(f) \/ \E n \in Node : CheckStep(f, n)
  PROVE  QueuesOK'
<1>1. CASE CheckSaves(f) \/ CheckDeletes(f)
  <2>1. held[f].node \in Node
    BY <1>1, HeldIsNode, NodeAssumption DEF CheckSaves, CheckDeletes
  <2>2. looks' \subseteq Node
    BY <1>1 DEF CheckSaves, CheckDeletes, QueuesOK
  <2>3. \/ UNCHANGED <<timer, due>>
        \/ AddAfter(held[f].node, RequeueDelay(held[f].node))
    BY <1>1 DEF CheckSaves, CheckDeletes
  <2>4. CASE UNCHANGED <<timer, due>>
    BY <2>2, <2>4 DEF QueuesOK
  <2>5. CASE AddAfter(held[f].node, RequeueDelay(held[f].node))
    BY <2>1, <2>2, <2>5, DelaysFit, QueuesAdd
  <2> QED  BY <2>3, <2>4, <2>5
<1>2. ASSUME NEW n \in Node, CheckStep(f, n) PROVE QueuesOK'
  <2>1. looks' \subseteq Node /\ due' \subseteq Node
    BY <1>2 DEF CheckStep, CheckDrops, CheckRequests, CheckReady, CheckWithdraws,
                CheckNothing, Check, QueuesOK
  <2>2. CASE CheckNothing(f, n)
    <3>1. timer' = Sooner(n, RequeueDelay(n))
      BY <2>2 DEF CheckNothing
    <3> QED  BY <2>1, <3>1, DelaysFit, SoonerFits DEF QueuesOK
  <2>3. CASE timer' = timer
    BY <2>1, <2>3 DEF QueuesOK
  <2> QED
    BY <1>2, <2>2, <2>3 DEF CheckStep, CheckDrops, CheckRequests, CheckReady, CheckWithdraws
<1> QED  BY <1>1, <1>2

LEMMA QueuesTick ==
  ASSUME QueuesOK, NodeTick
  PROVE  QueuesOK'
<1>1. \A n \in Node : timer[n] \in {Zero} \cup (1 .. GraceTime)
  BY DEF QueuesOK
<1>2. \A n \in Node :
        (IF timer[n] \in {Zero, 1} THEN Zero ELSE timer[n] - 1) \in {Zero} \cup (1 .. GraceTime)
  <2> SUFFICES ASSUME NEW n \in Node, timer[n] \in 1 .. GraceTime, timer[n] # 1
               PROVE  timer[n] - 1 \in 1 .. GraceTime
    BY <1>1
  <2>1. GraceTime \in Nat
    BY NodeAssumption
  <2> QED  BY <2>1
<1> QED  BY <1>2 DEF QueuesOK, NodeTick

LEMMA QueuesStep == TypeInv /\ QueuesOK /\ [NodeNext]_nodeVars => QueuesOK'
<1> SUFFICES ASSUME TypeInv, QueuesOK, [NodeNext]_nodeVars PROVE QueuesOK'
  OBVIOUS
<1>1. CASE UNCHANGED nodeVars
  BY <1>1 DEF nodeVars, queues, QueuesOK
<1>2. CASE NodeRestart
  BY <1>2 DEF NodeRestart, QueuesOK
<1>3. CASE ControllerStep
  BY <1>3 DEF ControllerStep, queues, QueuesOK
<1>4. ASSUME NEW n \in Node, NodeChanges(n) PROVE QueuesOK'
  BY <1>4 DEF NodeChanges, QueuesOK
<1> QED
  BY <1>1, <1>2, <1>3, <1>4, QueuesLooks, QueuesChecks, QueuesTick DEF NodeNext

(* The composed system keeps its types.                                    *)
THEOREM NodeTypes == NodeSpec => []NodeTypeOK
<1>1. NodeInit => QueuesOK
  BY DEF NodeInit, QueuesOK
<1>2. TypeInv /\ QueuesOK /\ [NodeNext]_nodeVars => QueuesOK'
  BY QueuesStep
<1>3. TypeInv /\ QueuesOK => NodeTypeOK
  BY DEF TypeInv, QueuesOK, NodeTypeOK
<1> QED  BY <1>1, <1>2, <1>3, NodeImplements, SafetyHolds, PTL DEF NodeSpec
-----------------------------------------------------------------------------
(* Nodes that no rule applies to: UnruledInv is inductive.                 *)

Tame(r) == r # NoReport => Plain(r)

TameReports(n) ==
    /\ Tame(api[n]) /\ Tame(cache[n])
    /\ \A i \in 1 .. Len(watch[n]) : Tame(watch[n][i])

(* What a worker with n does next, given the cached report.                *)
Eased(n) ==
    \A w \in Worker : held[w].node = n =>
        /\ pc[w] \notin Settling
        /\ pc[w] # "idle" /\ held[w].ref # "orphan" => ~Idle(cache[n])

LEMMA UnruledIs ==
    ASSUME TypeInv, NEW n \in Node
    PROVE  Unruled(n) <=> TameReports(n) /\ Eased(n)
<1>1. (\A r \in Copies(n) : Plain(r)) <=> TameReports(n)
  BY CopiesAre DEF TameReports, Tame
<1> QED BY <1>1 DEF Unruled, Eased

LEMMA UnruledWillBe ==
    ASSUME TypeInv', NEW n \in Node, TameReports(n)', Eased(n)'
    PROVE  Unruled(n)'
<1>1. \A r \in Copies(n)' : Plain(r)
  BY CopiesWillBe DEF TameReports, Tame
<1> QED BY <1>1 DEF Unruled, Eased

LEMMA NoRule ==
    ASSUME Ruleless, TypeOK, NEW n \in Managed
    PROVE  Policy(n) = NoEntry
<1>1. Matching(n) = {}
  BY DEF Ruleless, Matching, TypeOK
<1> QED BY <1>1 DEF Policy

(* One lemma for each shape of step.                                       *)

LEMMA EasedKept ==
    ASSUME NEW n \in Node, Eased(n),
           \A v \in Worker : held'[v].node = n =>
              \/ pc'[v] = "idle"
              \/ /\ held[v].node = n /\ pc'[v] = pc[v]
                 /\ held[v].ref = "orphan" => held'[v].ref = "orphan",
           ~Idle(cache[n]) => ~Idle(cache'[n])
              \/ \A v \in Worker : held'[v].node = n => held'[v].ref = "orphan"
    PROVE  Eased(n)'
<1>1. "idle" \notin Settling
  BY DEF Settling
<1> QED BY <1>1 DEF Eased

LEMMA UnruledAside ==
    ASSUME TypeInv, TypeInv', NEW n \in Node, Unruled(n),
           api'[n] = api[n], watch'[n] = watch[n], cache'[n] = cache[n],
           \A v \in Worker : held'[v].node = n =>
              \/ pc'[v] = "idle"
              \/ /\ held[v].node = n /\ pc'[v] = pc[v]
                 /\ held[v].ref = "orphan" => held'[v].ref = "orphan"
    PROVE  Unruled(n)'
<1>1. TameReports(n) /\ Eased(n)
  BY UnruledIs
<1>2. Eased(n)'
  BY <1>1, EasedKept
<1>3. TameReports(n)'
  BY <1>1 DEF TameReports, Tame
<1> QED BY <1>2, <1>3, UnruledWillBe

LEMMA UnruledEdit ==
    ASSUME TypeInv, TypeInv', NEW n \in Node, Unruled(n),
           api'[n] = api[n], watch'[n] = watch[n], Tame(cache'[n]), Eased(n)'
    PROVE  Unruled(n)'
<1>1. TameReports(n)
  BY UnruledIs
<1>2. TameReports(n)'
  BY <1>1 DEF TameReports, Tame
<1> QED BY <1>2, UnruledWillBe

LEMMA UnruledPersist ==
    ASSUME TypeInv, TypeInv', NEW n \in Node, Unruled(n), NEW k \in Node, NEW r \in Stored,
           NEW h \in [Thread -> Hold], Persist(k, r, h), UNCHANGED cache, k = n => Tame(r),
           \A v \in Worker : h[v].node = n =>
              pc'[v] = "idle" \/ (held[v] = h[v] /\ pc'[v] = pc[v])
    PROVE  Unruled(n)'
<1>0. TameReports(n) /\ Eased(n)
  BY UnruledIs
<1>1. \A t \in Thread : /\ held'[t].node = h[t].node
                        /\ h[t].ref = "orphan" => held'[t].ref = "orphan"
  BY DEF Persist, Outdated
<1>2. Eased(n)'
  BY <1>0, <1>1, EasedKept, ThreadKinds
<1>3. api \in [Node -> Stored] /\ watch \in [Node -> Seq(Stored)]
  BY DEF TypeInv, TypeOK, StoreTypeOK, Stored
<1>4. CASE k = n
  <2>1. api'[n] = r /\ watch'[n] = Append(watch[n], r)
    BY <1>3, <1>4 DEF Persist
  <2>2. watch[n] \in Seq(Stored) /\ Len(watch[n]) \in Nat
    BY <1>3, LenProperties
  <2>3. /\ Len(watch'[n]) = Len(watch[n]) + 1
        /\ \A i \in 1 .. Len(watch[n]) : watch'[n][i] = watch[n][i]
        /\ watch'[n][Len(watch[n]) + 1] = r
    BY <2>1, <2>2, AppendProperties
  <2>4. \A i \in 1 .. Len(watch'[n]) : i \in 1 .. Len(watch[n]) \/ i = Len(watch[n]) + 1
    BY <2>2, <2>3
  <2>5. Tame(r)
    BY <1>4
  <2>6. ASSUME NEW i \in 1 .. Len(watch'[n])
        PROVE  Tame(watch'[n][i])
    BY <1>0, <2>3, <2>4, <2>5, <2>6 DEF TameReports
  <2>7. TameReports(n)'
    BY <1>0, <2>1, <2>5, <2>6 DEF TameReports
  <2> QED BY <1>2, <2>7, UnruledWillBe
<1>5. CASE k # n
  <2>1. TameReports(n)'
    BY <1>0, <1>3, <1>5 DEF Persist, TameReports
  <2> QED BY <1>2, <2>1, UnruledWillBe
<1> QED BY <1>4, <1>5

LEMMA UnruledRemove ==
    ASSUME TypeInv, TypeInv', NEW n \in Node, Unruled(n), NEW k \in Node,
           NEW h \in [Thread -> Hold], Remove(k, h), UNCHANGED cache,
           \A v \in Worker : h[v].node = n =>
              pc'[v] = "idle" \/ (held[v] = h[v] /\ pc'[v] = pc[v])
    PROVE  Unruled(n)'
<1>1. NoReport \in Stored /\ Tame(NoReport)
  BY DEF Stored, Tame
<1>2. CASE api[k] = NoReport
  BY <1>2, UnruledAside, ThreadKinds DEF Remove
<1>3. CASE api[k] # NoReport
  BY <1>1, <1>3, UnruledPersist DEF Remove
<1> QED BY <1>2, <1>3

LEMMA UnruledRelease ==
    ASSUME TypeInv, TypeInv', NEW n \in Node, Unruled(n), NEW t \in Thread,
           held' = Released(t), pc' = [pc EXCEPT ![t] = "idle"],
           UNCHANGED <<api, cache, watch>>
    PROVE  Unruled(n)'
<1>1. \A v \in Worker : held'[v].node = n => held'[v] = held[v] /\ pc'[v] = pc[v]
  BY Freed, ThreadKinds DEF TypeInv, TypeOK
<1> QED BY <1>1, UnruledAside

LEMMA UnruledSave ==
    ASSUME TypeInv, TypeInv', NEW n \in Node, Unruled(n), NEW t \in Thread,
           held[t].node \in Node, Persist(held[t].node, Mine(t), Released(t)),
           UNCHANGED cache, pc' = [pc EXCEPT ![t] = "idle"]
    PROVE  Unruled(n)'
<1>0. TameReports(n)
  BY UnruledIs
<1>1. Mine(t) \in Stored /\ (held[t].node = n => Tame(Mine(t)))
  BY <1>0 DEF TypeInv, TypeOK, StoreTypeOK, Stored, Mine, TameReports
<1>2. /\ Released(t) \in [Thread -> Hold]
      /\ \A v \in Worker : Released(t)[v].node = n => held[v] = Released(t)[v] /\ pc'[v] = pc[v]
  BY Freed, ThreadKinds DEF TypeInv, TypeOK
<1> QED BY <1>1, <1>2, UnruledPersist

LEMMA UnruledDelete ==
    ASSUME TypeInv, TypeInv', NEW n \in Node, Unruled(n), NEW t \in Thread,
           held[t].node \in Node, Remove(held[t].node, Released(t)),
           UNCHANGED cache, pc' = [pc EXCEPT ![t] = "idle"]
    PROVE  Unruled(n)'
<1>1. /\ Released(t) \in [Thread -> Hold]
      /\ \A v \in Worker : Released(t)[v].node = n => held[v] = Released(t)[v] /\ pc'[v] = pc[v]
  BY Freed, ThreadKinds DEF TypeInv, TypeOK
<1> QED BY <1>1, UnruledRemove

(* The handlers.                                                           *)

(* What a worker makes of a report when no rule applies: it starts only on *)
(* one that asks for something.                                            *)
LEMMA TakeUnruled ==
    ASSUME TypeInv, NEW w \in Worker, NEW n \in Node, Take(w, n),
           Tame(cache[n]), Policy(n) = NoEntry
    PROVE  \/ Drop(w, n)
           \/ \E r \in Report, l \in Label \ (Settling \cup {"idle"}) :
                 Begin(w, n, r, l) /\ Plain(r) /\ ~Idle(r) /\ ~Idle(cache[n])
<1> USE DEF Label, Retried, Notifying, Draining, Saving, Settling
<1>1. CASE TakeMissing(w, n)
  BY <1>1 DEF TakeMissing
<1>2. CASE TakeReport(w, n)
  <2>1. cache[n] \in Report /\ Plain(cache[n])
    BY <1>2 DEF TakeReport, TypeInv, TypeOK, StoreTypeOK, Tame
  <2>2. ~Denied(n) /\ ~DryRun(n) /\ ~AtLimit(n) /\ ~Overflow(n)
    BY DEF Denied, DryRun, AtLimit, Overflow
  <2>3. CASE TakeDrained(w, n)
    BY <2>1, <2>3 DEF TakeDrained, Idle
  <2>4. CASE TakeNewJoined(w, n)
    <3>1. ~Idle(cache[n])
      BY <2>4 DEF TakeNewJoined, Idle
    <3>2. CASE cache[n].status = "Unknown"
      BY <2>1, <2>4, <3>1, <3>2 DEF TakeNewJoined
    <3>3. CASE cache[n].status # "Unknown"
      BY <2>1, <2>4, <3>1, <3>3 DEF TakeNewJoined
    <3> QED BY <3>2, <3>3
  <2>5. CASE TakeDetached(w, n)
    <3> DEFINE r == InPhase(cache[n], "newjoined")
    <3>1. Begin(w, n, r, "saveRetry") /\ ~Idle(cache[n])
      BY <2>5 DEF TakeDetached, Idle
    <3>2. r \in Report
      BY <2>1, ReportEdits DEF Phase
    <3>3. r.phase = "newjoined" /\ r.action = cache[n].action
      BY <2>1 DEF InPhase, Report
    <3>4. Plain(r) /\ ~Idle(r)
      BY <2>1, <3>3 DEF Plain, Replacing, Idle
    <3> QED BY <3>1, <3>2, <3>4
  <2>6. CASE TakeReplace(w, n)
    BY <2>1, <2>6 DEF TakeReplace, Idle
  <2>7. CASE TakeStart(w, n)
    <3>1. /\ cache[n].action = "replace" /\ Dispatched(n) = "replace"
      BY <2>1, <2>7 DEF TakeStart, Pending, Dispatched, Plain
    <3>2. Begin(w, n, cache[n], "startReplace")
      BY <2>7, <3>1 DEF TakeStart
    <3> QED BY <2>1, <3>1, <3>2 DEF Idle
  <2>8. CASE TakeUnknownAction(w, n) \/ TakeQuiet(w, n)
    BY <2>8 DEF TakeUnknownAction, TakeQuiet
  <2>9. ~TakeRebooted(w, n) /\ ~TakeReboot(w, n)
    BY <2>1 DEF TakeRebooted, TakeReboot, Plain, Replacing
  <2>10. ~TakeDenied(w, n) /\ ~TakeDryRun(w, n) /\ ~TakeOverflow(w, n)
    BY <2>2 DEF TakeDenied, TakeDryRun, TakeOverflow
  <2> QED
    BY <1>2, <2>3, <2>4, <2>5, <2>6, <2>7, <2>8, <2>9, <2>10 DEF TakeReport
<1> QED BY <1>1, <1>2 DEF Take

LEMMA UnruledTake ==
    ASSUME TypeInv, TypeInv', Ruleless, NEW n \in Managed, Unruled(n),
           NEW w \in Worker, NEW k \in Node, Take(w, k)
    PROVE  Unruled(n)'
<1> USE ThreadKinds
<1>0. n \in Node /\ TameReports(n) /\ Eased(n)
  BY UnruledIs, NodeAssumption
<1>1. CASE Drop(w, k)
  BY <1>0, <1>1, UnruledAside DEF Drop
<1>2. /\ cache \in [Node -> Stored] /\ held \in [Thread -> Hold] /\ pc \in [Thread -> Label]
  BY DEF TypeInv, TypeOK, StoreTypeOK, Stored
<1>3. CASE k # n
  <2>1. ASSUME NEW r, NEW l, Begin(w, k, r, l)
        PROVE  Unruled(n)'
    <3>1. /\ held' = [held EXCEPT ![w] = Lookup(k)] /\ cache' = [cache EXCEPT ![k] = r]
          /\ pc' = [pc EXCEPT ![w] = l] /\ UNCHANGED <<api, watch>> /\ Lookup(k).node = k
      BY <2>1, LookupType DEF Begin
    <3>2. cache'[n] = cache[n]
      BY <1>0, <1>2, <1>3, <3>1
    <3>3. \A v \in Worker : held'[v].node = n => held'[v] = held[v] /\ pc'[v] = pc[v]
      BY <1>2, <1>3, <3>1
    <3> QED BY <1>0, <3>1, <3>2, <3>3, UnruledAside
  <2> QED BY <1>1, <2>1, TakeBegins
<1>4. CASE k = n
  <2>1. Policy(n) = NoEntry
    BY NoRule DEF TypeInv
  <2>2. ASSUME NEW r \in Report, NEW l \in Label \ (Settling \cup {"idle"}),
               Begin(w, n, r, l), Plain(r), ~Idle(r)
        PROVE  Unruled(n)'
    <3>1. /\ held' = [held EXCEPT ![w] = Lookup(n)] /\ cache' = [cache EXCEPT ![n] = r]
          /\ pc' = [pc EXCEPT ![w] = l] /\ UNCHANGED <<api, watch>>
          /\ \A v \in Worker : held[v].node # n
      BY <2>2 DEF Begin, Dequeue
    <3>2. cache'[n] = r /\ Tame(cache'[n])
      BY <1>0, <1>2, <2>2, <3>1 DEF Tame
    <3>3. \A v \in Worker : held'[v].node = n => pc'[v] = l
      BY <1>2, <3>1
    <3>4. Eased(n)'
      BY <2>2, <3>2, <3>3 DEF Eased
    <3> QED BY <1>0, <3>1, <3>2, <3>4, UnruledEdit
  <2> QED BY <1>0, <1>1, <1>4, <2>1, <2>2, TakeUnruled DEF TameReports
<1> QED BY <1>3, <1>4

LEMMA UnruledProceed ==
    ASSUME TypeInv, TypeInv', Exclusive, NEW n \in Node, Unruled(n),
           NEW w \in Worker, pc[w] # "idle", NEW m, NEW r, NEW l, Proceed(w, m, r, l),
           held[w].node = n =>
              /\ l \notin Settling
              /\ held[w].ref # "orphan" => Plain(r) /\ ~Idle(r)
    PROVE  Unruled(n)'
<1> USE ThreadKinds
<1>0. /\ cache \in [Node -> Stored] /\ pc \in [Thread -> Label]
      /\ TameReports(n) /\ Eased(n) /\ held[w].node \in Node
  BY UnruledIs, Busy DEF TypeInv, TypeOK, StoreTypeOK, Stored
<1>1. /\ UNCHANGED <<api, watch, held>> /\ pc' = [pc EXCEPT ![w] = l]
      /\ cache' = Edited(w, r)
  BY DEF Proceed
<1>2. CASE held[w].node # n
  <2>1. cache'[n] = cache[n]
    BY <1>0, <1>1, <1>2 DEF Edited
  <2>2. \A v \in Worker : held'[v].node = n => held'[v] = held[v] /\ pc'[v] = pc[v]
    BY <1>0, <1>1, <1>2
  <2> QED BY <1>1, <2>1, <2>2, UnruledAside
<1>3. CASE held[w].node = n
  <2>1. \A v \in Worker : held'[v].node = n => v = w
    BY <1>1, <1>3 DEF Exclusive
  <2>2. pc'[w] = l /\ l \notin Settling
    BY <1>0, <1>1, <1>3
  <2>3. CASE held[w].ref = "orphan"
    <3>1. cache'[n] = cache[n]
      BY <1>1, <2>3 DEF Edited
    <3>2. Eased(n)'
      BY <1>1, <2>1, <2>2, <2>3 DEF Eased
    <3> QED BY <1>0, <1>1, <3>1, <3>2, UnruledEdit DEF TameReports
  <2>4. CASE held[w].ref # "orphan"
    <3>1. cache'[n] = r
      BY <1>0, <1>1, <1>3, <2>4 DEF Edited
    <3>2. Eased(n)'
      BY <1>3, <2>1, <2>2, <2>4, <3>1 DEF Eased
    <3> QED BY <1>1, <1>3, <2>4, <3>1, <3>2, UnruledEdit DEF Tame
  <2> QED BY <2>3, <2>4
<1> QED BY <1>2, <1>3

(* The calls left to a worker, and the edits that follow them.             *)
LEMMA CallsUnruled ==
    ASSUME NEW w \in Worker, pc[w] \notin Settling \cup SelfReplacing, SelfNode = NoNode,
           held[w].node \in Node,
           \/ Start(w) \/ Reboot(w) \/ Detach(w) \/ Cordon(w) \/ EvictOld(w)
           \/ EvictReboot(w) \/ ForceCordon(w) \/ ForceTaint(w) \/ Uncordon(w)
           \/ DeleteNode(w) \/ SelfNodeGone(w) \/ Notify(w)
    PROVE  \E m, l : /\ l \notin Settling \cup SelfReplacing
                     /\ \/ Proceed(w, m, Mine(w), l)
                        \/ \E p \in Replacing : Proceed(w, m, InPhase(Mine(w), p), l)
<1> USE DEF Settling, SelfReplacing, At, Replacing
<1>1. CASE Start(w)
  BY <1>1 DEF Start
<1>2. CASE Detach(w)
  BY <1>2 DEF Detach
<1>3. CASE Cordon(w)
  <2>1. /\ At(w, "cordonOld")
        /\ Proceed(w, [Here(w) EXCEPT !.cordoned = TRUE], Mine(w), "evictOld")
    BY <1>3 DEF Cordon
  <2> QED BY <2>1
<1>4. CASE EvictOld(w)
  BY <1>4 DEF EvictOld
<1>5. CASE ForceCordon(w)
  <2>1. PICK l \in {"forceTaint", "forceStale"} :
          Proceed(w, [Here(w) EXCEPT !.cordoned = TRUE], Mine(w), l)
    BY <1>5 DEF ForceCordon
  <2> QED BY <2>1
<1>6. CASE ForceTaint(w)
  BY <1>6 DEF ForceTaint
<1>7. CASE DeleteNode(w)
  BY <1>7 DEF DeleteNode
<1>8. CASE Notify(w)
  <2>1. held[w].node # SelfNode
    BY StoreAssumption
  <2>2. Proceed(w, Here(w), Mine(w), "deleteNode")
    BY <1>8, <2>1 DEF Notify
  <2> QED BY <2>2
<1>9. ~Reboot(w) /\ ~EvictReboot(w) /\ ~Uncordon(w) /\ ~SelfNodeGone(w)
  BY DEF Reboot, EvictReboot, Uncordon, SelfNodeGone
<1> QED BY <1>1, <1>2, <1>3, <1>4, <1>5, <1>6, <1>7, <1>8, <1>9

LEMMA UnruledWork ==
    ASSUME TypeInv, TypeInv', Exclusive, SelfNode = NoNode, NEW n \in Node, Unruled(n),
           NEW w \in Worker, Work(w), pc[w] \notin SelfReplacing
    PROVE  Unruled(n)'
<1> USE ThreadKinds DEF At
<1>0. pc[w] # "idle"
  BY DEF Work, Start, Reboot, Detach, DetachRefused, Cordon, EvictOld, EvictReboot,
         ForceCordon, ForceStale, ForceTaint, Uncordon, NodeGone, Notify,
         DeleteNode, DeleteReport, DeletePaged, SelfReport, SelfNodeGone, Save, SaveConflict,
         Retried, Notifying, Draining, Saving
<1>a. held[w].node \in Node /\ TameReports(n) /\ Eased(n)
  BY <1>0, Busy, UnruledIs
<1>1. CASE Start(w) \/ Reboot(w) \/ Detach(w) \/ Cordon(w) \/ EvictOld(w)
             \/ EvictReboot(w) \/ ForceCordon(w) \/ ForceTaint(w) \/ Uncordon(w)
             \/ DeleteNode(w) \/ SelfNodeGone(w) \/ Notify(w)
  <2>1. CASE held[w].node # n
    <3>1. \E m, r, l : Proceed(w, m, r, l)
      BY <1>1
         DEF Start, Reboot, Detach, Cordon, EvictOld, EvictReboot, ForceCordon, ForceTaint,
             Uncordon, DeleteNode, SelfNodeGone, Notify
    <3> QED BY <1>0, <2>1, <3>1, UnruledProceed
  <2>2. CASE held[w].node = n
    <3>1. pc[w] \notin Settling \cup SelfReplacing
      BY <1>a, <2>2 DEF Eased
    <3>2. PICK m, l : /\ l \notin Settling \cup SelfReplacing
                      /\ \/ Proceed(w, m, Mine(w), l)
                         \/ \E p \in Replacing : Proceed(w, m, InPhase(Mine(w), p), l)
      BY <1>1, <1>a, <3>1, CallsUnruled
    <3>3. held[w].ref # "orphan" =>
            /\ Mine(w) \in Report /\ Plain(Mine(w)) /\ ~Idle(Mine(w))
            /\ \A p \in Replacing :
                  Plain(InPhase(Mine(w), p)) /\ ~Idle(InPhase(Mine(w), p))
      <4> SUFFICES ASSUME held[w].ref # "orphan"
                   PROVE  /\ Mine(w) \in Report /\ Plain(Mine(w)) /\ ~Idle(Mine(w))
                          /\ \A p \in Replacing :
                                Plain(InPhase(Mine(w), p)) /\ ~Idle(InPhase(Mine(w), p))
        OBVIOUS
      <4>1. Mine(w) \in Report /\ Mine(w) # NoReport
        BY <1>0, Busy, NoReportAssumption
      <4>2. Plain(Mine(w)) /\ ~Idle(Mine(w))
        BY <1>0, <1>a, <2>2, <4>1 DEF TameReports, Tame, Eased, Mine
      <4>3. ASSUME NEW p \in Replacing
            PROVE  Plain(InPhase(Mine(w), p)) /\ ~Idle(InPhase(Mine(w), p))
        <5>1. /\ InPhase(Mine(w), p).phase = p
              /\ InPhase(Mine(w), p).action = Mine(w).action
          BY <4>1 DEF InPhase, Report
        <5> QED BY <4>2, <5>1 DEF Plain, Idle, Replacing
      <4> QED BY <4>1, <4>2, <4>3
    <3>4. CASE Proceed(w, m, Mine(w), l)
      BY <1>0, <3>2, <3>3, <3>4, UnruledProceed
    <3>5. ASSUME NEW p \in Replacing, Proceed(w, m, InPhase(Mine(w), p), l)
          PROVE  Unruled(n)'
      BY <1>0, <3>2, <3>3, <3>5, UnruledProceed
    <3> QED BY <3>2, <3>4, <3>5
  <2> QED BY <2>1, <2>2
<1>2. CASE DetachRefused(w) \/ ForceStale(w) \/ NodeGone(w) \/ SaveConflict(w)
  BY <1>2, UnruledRelease DEF DetachRefused, ForceStale, NodeGone, SaveConflict, Retry, Finish
<1>3. CASE Save(w)
  BY <1>3, <1>a, UnruledSave DEF Save, Finish
<1>4. CASE DeleteReport(w) \/ DeletePaged(w)
  BY <1>4, <1>a, UnruledDelete DEF DeleteReport, DeletePaged, Finish
<1>5. ~SelfReport(w)
  BY DEF SelfReport, SelfReplacing
<1> QED BY <1>1, <1>2, <1>3, <1>4, <1>5 DEF Work

LEMMA UnruledFault ==
    ASSUME TypeInv, TypeInv', NEW n \in Node, Unruled(n),
           NEW w \in Worker, Fault(w), pc[w] \notin SelfReplacing
    PROVE  Unruled(n)'
<1> USE ThreadKinds DEF At
<1>0. pc[w] # "idle"
  BY DEF Fault, CallFails, CallLost, SaveFails, DeleteReportFails, SelfCallFails,
         Retried, Notifying, Draining, Saving
<1>a. held[w].node \in Node
  BY <1>0, Busy
<1>1. CASE CallFails(w) \/ DeleteReportFails(w) \/ CallLost(w)
  BY <1>1, UnruledRelease DEF CallFails, DeleteReportFails, CallLost, Retry, Finish
<1>2. CASE SaveFails(w)
  BY <1>2, <1>a, UnruledRelease, UnruledSave DEF SaveFails, Finish
<1>3. ~SelfCallFails(w)
  BY DEF SelfCallFails, SelfReplacing
<1> QED BY <1>1, <1>2, <1>3 DEF Fault

(* The cleanup and the other controllers.                                  *)

LEMMA UnruledCleaner ==
    ASSUME TypeInv, TypeInv', NEW n \in Node, Unruled(n),
           (\E k \in Node : CleanerFinds(k)) \/ CleanerDeletes \/ CleanerFails
    PROVE  Unruled(n)'
<1> USE ThreadKinds DEF At
<1>1. ASSUME NEW k \in Node, CleanerFinds(k)
      PROVE  Unruled(n)'
  <2>1. \A v \in Worker : held'[v] = held[v] /\ pc'[v] = pc[v]
    BY <1>1, ControllerAssumption DEF CleanerFinds, TypeInv, TypeOK, StoreTypeOK
  <2> QED BY <1>1, <2>1, UnruledAside DEF CleanerFinds
<1>2. CASE CleanerDeletes
  <2>1. held[Cleaner].node \in Node
    BY <1>2 DEF CleanerDeletes, TypeInv, Pointers
  <2> QED BY <1>2, <2>1, UnruledDelete DEF CleanerDeletes
<1>3. CASE CleanerFails
  BY <1>3, UnruledRelease DEF CleanerFails
<1> QED BY <1>1, <1>2, <1>3

LEMMA UnruledCreate ==
    ASSUME TypeInv, TypeInv', NEW n \in Node, Unruled(n),
           NEW k \in Node, EventCreates(k) \/ NodeCreates(k)
    PROVE  Unruled(n)'
<1>1. PICK status \in NodeStatus, problems \in BOOLEAN, s \in 0 .. ScoreCap :
         Create(k, status, problems, s)
  <2>1. 0 \in 0 .. ScoreCap
    BY StoreAssumption
  <2> QED BY <2>1 DEF EventCreates, NodeCreates, NodeStatus
<1>2. PICK r \in Stored : r = Opened(status, problems, s) /\ Tame(r)
  <2>1. Opened(status, problems, s) \in Report
    BY DEF Opened, Report, Action, Phase, Stamp
  <2>2. Plain(Opened(status, problems, s))
    BY DEF Opened, Plain
  <2> QED BY <2>1, <2>2 DEF Stored, Tame
<1>3. Persist(k, r, held) /\ UNCHANGED <<cache, pc>> /\ held \in [Thread -> Hold]
  BY <1>1, <1>2 DEF Create, TypeInv, TypeOK, StoreTypeOK
<1> QED BY <1>2, <1>3, UnruledPersist

(* The other controllers write no phase, and no action but "replace".      *)
LEMMA WritesUnruled ==
    ASSUME TypeInv, NEW f \in Writer, NEW k \in Node, Write(f, k)
    PROVE  \E r \in Stored, l \in {"commit", "remove"} :
              /\ WriterBegins(f, k, r, l)
              /\ r = NoReport <=> cache[k] = NoReport
              /\ r # NoReport => /\ r.phase = cache[k].phase
                                 /\ r.action \in {cache[k].action, "replace"}
<1>0. cache[k] \in Stored /\ (cache[k] # NoReport => cache[k] \in Report)
  BY DEF TypeInv, TypeOK, StoreTypeOK, Stored
<1>1. CASE EventRecorded(f, k)
  <2>1. PICK s \in 0 .. ScoreCap : /\ cache[k] # NoReport
           /\ WriterBegins(f, k, [cache[k] EXCEPT !.problems = TRUE, !.score = s], "commit")
    BY <1>1 DEF EventRecorded
  <2> DEFINE q == [cache[k] EXCEPT !.problems = TRUE, !.score = s]
  <2>2. q \in Report /\ q.phase = cache[k].phase /\ q.action = cache[k].action
    BY <1>0, <2>1 DEF Report
  <2>3. q # NoReport
    BY <2>2, NoReportAssumption
  <2> HIDE DEF q
  <2> QED BY <2>1, <2>2, <2>3 DEF q, Stored
<1>2. CASE StatusRecorded(f, k)
  <2> DEFINE q == [cache[k] EXCEPT !.status = StatusOf(k)]
  <2>1. cache[k] # NoReport /\ WriterBegins(f, k, q, "commit")
    BY <1>2 DEF StatusRecorded
  <2>2. StatusOf(k) \in NodeStatus
    BY DEF StatusOf, NodeStatus
  <2>3. q \in Report /\ q.phase = cache[k].phase /\ q.action = cache[k].action
    BY <1>0, <2>1, <2>2 DEF Report
  <2>4. q # NoReport
    BY <2>3, NoReportAssumption
  <2> HIDE DEF q
  <2> QED BY <2>1, <2>3, <2>4 DEF Stored
<1>3. CASE ReplaceRequested(f, k)
  <2> DEFINE s == IF node[k].ready = "Unknown" THEN "Unknown" ELSE cache[k].status
             q == [cache[k] EXCEPT !.action = "replace", !.status = s]
  <2>1. cache[k] # NoReport /\ WriterBegins(f, k, q, "commit")
    BY <1>3 DEF ReplaceRequested
  <2>2. s \in NodeStatus
    BY <1>0, <2>1 DEF NodeStatus, Report
  <2> HIDE DEF s
  <2>3. q \in Report /\ q.phase = cache[k].phase /\ q.action = "replace"
    BY <1>0, <2>1, <2>2 DEF Report, Action
  <2>4. q # NoReport
    BY <2>3, NoReportAssumption
  <2> HIDE DEF q
  <2> QED BY <2>1, <2>3, <2>4 DEF Stored
<1>4. CASE ReportWithdrawn(f, k)
  BY <1>0, <1>4 DEF ReportWithdrawn
<1> QED BY <1>1, <1>2, <1>3, <1>4 DEF Write

LEMMA UnruledWrite ==
    ASSUME TypeInv, TypeInv', NEW n \in Node, Unruled(n),
           NEW f \in Writer, NEW k \in Node, Write(f, k)
    PROVE  Unruled(n)'
<1> USE ThreadKinds
<1>0. /\ TameReports(n) /\ Eased(n) /\ cache \in [Node -> Stored]
  BY UnruledIs DEF TypeInv, TypeOK, StoreTypeOK, Stored
<1>1. PICK r \in Stored, l \in {"commit", "remove"} :
              /\ WriterBegins(f, k, r, l)
              /\ r = NoReport <=> cache[k] = NoReport
              /\ r # NoReport => /\ r.phase = cache[k].phase
                                 /\ r.action \in {cache[k].action, "replace"}
  BY WritesUnruled
<1>2. /\ cache' = [cache EXCEPT ![k] = r] /\ UNCHANGED <<api, watch>>
      /\ \A v \in Worker : held'[v] = held[v] /\ pc'[v] = pc[v]
  BY <1>1, ControllerAssumption DEF WriterBegins, TypeInv, TypeOK, StoreTypeOK
<1>3. CASE k # n
  BY <1>0, <1>2, <1>3, UnruledAside
<1>4. CASE k = n
  <2>1. cache'[n] = r
    BY <1>0, <1>2, <1>4
  <2>2. Tame(cache'[n])
    BY <1>0, <1>1, <1>4, <2>1 DEF TameReports, Tame, Plain
  <2>3. cache[n] = NoReport => cache'[n] = cache[n]
    BY <1>1, <1>4, <2>1
  <2>4. ~Idle(cache[n]) => ~Idle(cache'[n])
    BY <1>1, <1>4, <2>1, <2>3 DEF Idle
  <2>5. Eased(n)'
    BY <1>0, <1>2, <2>4, EasedKept
  <2> QED BY <1>2, <2>2, <2>5, UnruledEdit
<1> QED BY <1>3, <1>4

LEMMA UnruledWriterEnds ==
    ASSUME TypeInv, TypeInv', NEW n \in Node, Unruled(n),
           NEW f \in Writer, WriterSaves(f) \/ WriterDeletes(f)
    PROVE  Unruled(n)'
<1> USE ThreadKinds DEF At
<1>1. held[f].node \in Node
  BY DEF WriterSaves, WriterDeletes, TypeInv, Pointers
<1>2. CASE WriterSaves(f)
  BY <1>1, <1>2, UnruledSave, UnruledRelease DEF WriterSaves
<1>3. CASE WriterDeletes(f)
  BY <1>1, <1>3, UnruledDelete DEF WriterDeletes
<1> QED BY <1>2, <1>3

(* The informer, the process and time.                                     *)

LEMMA UnruledDeliver ==
    ASSUME TypeInv, TypeInv', NEW n \in Node, Unruled(n), NEW k \in Node, Deliver(k)
    PROVE  Unruled(n)'
<1> USE ThreadKinds
<1>1. /\ watch[k] # <<>> /\ api' = api /\ pc' = pc
      /\ cache' = [cache EXCEPT ![k] = Head(watch[k])]
      /\ watch' = [watch EXCEPT ![k] = Tail(@)] /\ held' = Replaced(k)
  BY DEF Deliver, DeliverNext
<1>2. /\ cache \in [Node -> Stored] /\ watch \in [Node -> Seq(Stored)]
      /\ TameReports(n) /\ Eased(n)
  BY UnruledIs DEF TypeInv, TypeOK, StoreTypeOK, Stored
<1>3. \A t \in Thread : /\ held'[t].node = held[t].node
                        /\ held[t].node = k => held'[t].ref = "orphan"
                        /\ held[t].node # k => held'[t] = held[t]
  BY <1>1 DEF Replaced
<1>4. CASE k = n
  <2>1. /\ Len(watch[n]) \in Nat /\ Len(watch[n]) >= 1 /\ Head(watch[n]) = watch[n][1]
        /\ Len(Tail(watch[n])) = Len(watch[n]) - 1
        /\ \A i \in 1 .. Len(Tail(watch[n])) : Tail(watch[n])[i] = watch[n][i + 1]
    BY <1>1, <1>2, <1>4, HeadTailProperties, EmptySeq, LenProperties
  <2>2. cache'[n] = watch[n][1] /\ watch'[n] = Tail(watch[n])
    BY <1>1, <1>2, <1>4, <2>1
  <2>3. \A i \in 1 .. Len(watch'[n]) :
           i + 1 \in 1 .. Len(watch[n]) /\ watch'[n][i] = watch[n][i + 1]
    BY <2>1, <2>2
  <2>4. TameReports(n)'
    BY <1>1, <1>2, <2>1, <2>2, <2>3 DEF TameReports
  <2>5. Eased(n)'
    BY <1>1, <1>2, <1>3, <1>4, EasedKept, SMTT(30)
  <2> QED BY <2>4, <2>5, UnruledWillBe
<1>5. CASE k # n
  BY <1>1, <1>2, <1>3, <1>5, UnruledAside
<1> QED BY <1>4, <1>5

LEMMA UnruledRestart ==
    ASSUME TypeInv, TypeInv', NEW n \in Node, Unruled(n), Restart
    PROVE  Unruled(n)'
<1>0. TameReports(n)
  BY UnruledIs
<1>1. /\ api'[n] = api[n] /\ cache'[n] = api[n] /\ watch'[n] = <<>>
      /\ \A w \in Worker : pc'[w] = "idle"
  BY ThreadKinds DEF Restart, Relist
<1>2. Len(watch'[n]) = 0
  BY <1>1, EmptySeq
<1>3. TameReports(n)' /\ Eased(n)'
  BY <1>0, <1>1, <1>2 DEF TameReports, Eased, Settling
<1> QED BY <1>3, UnruledWillBe

(* Time changes nothing a look at a report asks for.                       *)
LEMMA AgedSame ==
    ASSUME NEW r \in Stored
    PROVE  /\ Aged(r) = NoReport <=> r = NoReport
           /\ r # NoReport => /\ Plain(Aged(r)) <=> Plain(r)
                              /\ Idle(Aged(r)) <=> Idle(r)
                              /\ Suspects(Aged(r)) <=> Suspects(r)
           /\ Suspicious(Aged(r)) <=> Suspicious(r)
           /\ Missed(Aged(r)) <=> Missed(r)
<1>1. CASE r = NoReport
  BY <1>1 DEF Aged, Suspicious, Missed
<1>2. CASE r # NoReport
  <2>1. r \in Report
    BY <1>2 DEF Stored
  <2>2. Aged(r) = [r EXCEPT !.lastAction = Older(r.lastAction)]
    BY <1>2 DEF Aged
  <2>3. /\ Aged(r).phase = r.phase /\ Aged(r).action = r.action
        /\ Aged(r).status = r.status /\ Aged(r).problems = r.problems
    BY <2>1, <2>2 DEF Report
  <2>4. Aged(r) # NoReport
    BY <1>2, AgedType
  <2> QED BY <1>2, <2>3, <2>4 DEF Plain, Idle, Suspects, Suspicious, Missed
<1> QED BY <1>1, <1>2

LEMMA TickReports ==
    ASSUME TypeInv, Tick, NEW n \in Node
    PROVE  /\ api[n] \in Stored /\ cache[n] \in Stored
           /\ api'[n] = Aged(api[n]) /\ cache'[n] = Aged(cache[n])
           /\ Len(watch[n]) \in Nat /\ Len(watch'[n]) = Len(watch[n])
           /\ \A i \in 1 .. Len(watch[n]) :
                watch[n][i] \in Stored /\ watch'[n][i] = Aged(watch[n][i])
<1>1. api[n] \in Stored /\ cache[n] \in Stored /\ watch[n] \in Seq(Stored)
  BY DEF TypeInv, TypeOK, StoreTypeOK, Stored
<1>2. /\ Len(watch[n]) \in Nat /\ DOMAIN watch[n] = 1 .. Len(watch[n])
      /\ \A i \in 1 .. Len(watch[n]) : watch[n][i] \in Stored
  BY <1>1, LenProperties, ElementOfSeq
<1>3. /\ api'[n] = Aged(api[n]) /\ cache'[n] = Aged(cache[n])
      /\ watch'[n] = [i \in 1 .. Len(watch[n]) |-> Aged(watch[n][i])]
  BY <1>2 DEF Tick, AgeReports
<1>4. Len(watch'[n]) = Len(watch[n])
  BY <1>2, <1>3
<1> QED BY <1>1, <1>2, <1>3, <1>4

LEMMA UnruledTick ==
    ASSUME TypeInv, TypeInv', NEW n \in Node, Unruled(n), Tick
    PROVE  Unruled(n)'
<1>0. TameReports(n) /\ Eased(n)
  BY UnruledIs
<1>1. held' = held /\ pc' = pc
  BY DEF Tick, AgeReports
<1>2. \A r \in Stored : Tame(r) => Tame(Aged(r))
  BY AgedSame DEF Tame
<1>3. TameReports(n)'
  BY <1>0, <1>2, TickReports DEF TameReports
<1>4. ASSUME NEW w \in Worker, held[w].node = n, pc[w] # "idle", held[w].ref # "orphan"
      PROVE  ~Idle(cache'[n])
  <2>1. cache[n] # NoReport /\ ~Idle(cache[n])
    BY <1>0, <1>4, Busy, NoReportAssumption DEF Eased, Mine
  <2> QED BY <2>1, TickReports, AgedSame
<1>5. Eased(n)'
  BY <1>0, <1>1, <1>4 DEF Eased
<1> QED BY <1>3, <1>5, UnruledWillBe

LEMMA UnruledInit == Init => UnruledInv
<1> SUFFICES ASSUME Init PROVE UnruledInv
  OBVIOUS
<1>1. \A t \in Thread : pc[t] = "idle"
  BY DEF Init
<1>2. ASSUME NEW n \in Node
      PROVE  Unruled(n)
  <2>1. api[n] = NoReport /\ cache[n] = NoReport /\ watch[n] = <<>> /\ Len(watch[n]) = 0
    BY EmptySeq DEF Init, StoreInit
  <2>2. TameReports(n)
    BY <2>1 DEF TameReports, Tame
  <2>3. Eased(n)
    BY <1>1, ThreadKinds DEF Eased, Settling
  <2> QED BY <2>2, <2>3, TypeInit, UnruledIs
<1> QED BY <1>1, <1>2, ThreadKinds, NodeAssumption DEF UnruledInv, SelfReplacing

(* The controller's own node is not among those it replaces.               *)
LEMMA OwnNodeSpared ==
    ASSUME TypeInv, SelfNode = NoNode, \A w \in Worker : pc[w] \notin SelfReplacing,
           [Next]_vars, NEW w \in Worker
    PROVE  pc'[w] \notin SelfReplacing
<1> USE ThreadKinds DEF At, SelfReplacing
<1>0. pc \in [Thread -> Label] /\ NoNode \notin Node
  BY StoreAssumption DEF TypeInv, TypeOK
<1>a. ASSUME NEW t \in Thread, NEW l, pc' = [pc EXCEPT ![t] = l], l \notin SelfReplacing
      PROVE  pc'[w] \notin SelfReplacing
  BY <1>0, <1>a
<1>1. ASSUME NEW v \in Worker, NEW k \in Node, Take(v, k)
      PROVE  pc'[w] \notin SelfReplacing
  BY <1>0, <1>1
     DEF Take, TakeMissing, TakeReport, TakeDrained, TakeNewJoined, TakeDetached,
         TakeReplace, TakeRebooted, TakeReboot, TakeDenied, TakeDryRun, TakeStart,
         TakeUnknownAction, TakeOverflow, TakeQuiet, Begin, Drop
<1>2. ASSUME NEW v \in Worker, Work(v)
      PROVE  pc'[w] \notin SelfReplacing
  <2>0. held[v].node \in Node \/ pc[v] = "idle"
    BY Busy
  <2>1. CASE Notify(v)
    <3>1. held[v].node # SelfNode
      BY <1>0, <2>0, <2>1 DEF Notify
    <3> QED BY <1>0, <2>1, <3>1 DEF Notify, Proceed
  <2> QED
    BY <1>0, <1>2, <2>1
       DEF Work, Start, Reboot, Detach, DetachRefused, Cordon, EvictOld, EvictReboot,
           ForceCordon, ForceStale, ForceTaint, Uncordon, NodeGone,
           DeleteNode, DeleteReport, DeletePaged, SelfReport, SelfNodeGone, Save,
           SaveConflict, Retry, Finish, Proceed
<1>3. ASSUME NEW v \in Worker, Fault(v)
      PROVE  pc'[w] \notin SelfReplacing
  BY <1>0, <1>3
     DEF Fault, CallFails, CallLost, SaveFails, DeleteReportFails, SelfCallFails,
         Retry, Finish
<1>4. CASE (\E k \in Node : CleanerFinds(k)) \/ CleanerDeletes \/ CleanerFails
  BY <1>0, <1>4 DEF CleanerFinds, CleanerDeletes, CleanerFails
<1>5. CASE \E k \in Node : EventCreates(k) \/ NodeCreates(k)
  BY <1>5 DEF EventCreates, NodeCreates, Create
<1>6. ASSUME NEW f \in Writer, NEW k \in Node, Write(f, k)
      PROVE  pc'[w] \notin SelfReplacing
  <2>1. \E r \in Stored, l \in {"commit", "remove"} : WriterBegins(f, k, r, l)
    BY <1>6, WritesUnruled
  <2> QED BY <1>0, <2>1 DEF WriterBegins
<1>7. CASE \E f \in Writer : WriterSaves(f) \/ WriterDeletes(f)
  BY <1>0, <1>7 DEF WriterSaves, WriterDeletes
<1>8. CASE \E k \in Node : Deliver(k) \/ Environment(k)
  BY <1>8 DEF Deliver, Environment, Outage, Recover, GoesDown, ComesUp, Launch, ScaleOut,
              Joined, Vanish, PodsScheduled, TaintEvicts, World
<1>9. CASE Crash \/ (\E v \in Worker : SelfPod(v)) \/ EditConfigs \/ Tick \/ UNCHANGED vars
  BY <1>9 DEF Crash, SelfPod, Restart, EditConfigs, Tick, vars
<1> QED
  BY <1>1, <1>2, <1>3, <1>4, <1>5, <1>6, <1>7, <1>8, <1>9 DEF Next

LEMMA UnruledNext ==
    ASSUME Ruleless, SelfNode = NoNode, TypeInv, SafetyInv, UnruledInv, [Next]_vars
    PROVE  UnruledInv'
<1>0. TypeInv' /\ Exclusive
  BY TypeNext DEF SafetyInv
<1>a. ASSUME NEW n \in Managed
      PROVE  Unruled(n)'
  <2>0. n \in Node /\ Unruled(n) /\ \A w \in Worker : pc[w] \notin SelfReplacing
    BY NodeAssumption DEF UnruledInv
  <2>1. CASE \E w \in Worker, k \in Node : Take(w, k)
    BY <1>0, <2>0, <2>1, UnruledTake
  <2>2. CASE \E w \in Worker : Work(w) \/ Fault(w)
    BY <1>0, <2>0, <2>2, UnruledWork, UnruledFault
  <2>3. CASE (\E k \in Node : CleanerFinds(k)) \/ CleanerDeletes \/ CleanerFails
    BY <1>0, <2>0, <2>3, UnruledCleaner
  <2>4. CASE \E k \in Node : EventCreates(k) \/ NodeCreates(k)
    BY <1>0, <2>0, <2>4, UnruledCreate
  <2>5. CASE \E f \in Writer, k \in Node : Write(f, k)
    BY <1>0, <2>0, <2>5, UnruledWrite
  <2>6. CASE \E f \in Writer : WriterSaves(f) \/ WriterDeletes(f)
    BY <1>0, <2>0, <2>6, UnruledWriterEnds
  <2>7. CASE \E k \in Node : Deliver(k)
    BY <1>0, <2>0, <2>7, UnruledDeliver
  <2>8. CASE Crash \/ \E w \in Worker : SelfPod(w)
    BY <1>0, <2>0, <2>8, UnruledRestart DEF Crash, SelfPod
  <2>9. CASE EditConfigs \/ UNCHANGED vars \/ \E k \in Node : Environment(k)
    <3>1. UNCHANGED <<api, cache, watch, held, pc>>
      BY <2>9 DEF EditConfigs, vars, Environment, Outage, Recover, GoesDown, ComesUp, Launch,
                  ScaleOut, Joined, Vanish, PodsScheduled, TaintEvicts, World
    <3> QED BY <1>0, <2>0, <3>1, UnruledAside
  <2>10. CASE Tick
    BY <1>0, <2>0, <2>10, UnruledTick
  <2> QED
    BY <2>1, <2>2, <2>3, <2>4, <2>5, <2>6, <2>7, <2>8, <2>9, <2>10 DEF Next
<1>b. \A w \in Worker : pc'[w] \notin SelfReplacing
  BY OwnNodeSpared DEF UnruledInv
<1> QED BY <1>a, <1>b DEF UnruledInv
-----------------------------------------------------------------------------
(* WatchInv is inductive.                                                  *)

LEMMA Goroutines ==
    \A f \in Looker \cup Checker :
       f \in Writer /\ f \in Thread /\ f \notin Worker /\ f # Cleaner /\ f \notin Recorder
BY NodeAssumption, ControllerAssumption DEF Recorder

(* A disturbance of n that a step brings about is known before it.         *)
LEMMA NoOutburst ==
    ASSUME TypeOK, budget["crashes"] <= Budget["crashes"], [Next]_vars
    PROVE  /\ budget'["crashes"] <= Budget["crashes"]
           /\ Undisturbed' => Undisturbed
<1>1. /\ budget \in [Disturbance -> Nat] /\ Budget \in [Disturbance -> Nat]
      /\ "crashes" \in Disturbance
  BY ControllerAssumption DEF TypeOK, Disturbance
<1>2. ASSUME NEW e \in Disturbance, Spend(e)
      PROVE  budget'["crashes"] \in {budget["crashes"], budget["crashes"] - 1}
  BY <1>1, <1>2 DEF Spend
<1>3. budget'["crashes"] \in {budget["crashes"], budget["crashes"] - 1}
  BY <1>2, Spending
<1>4. budget["crashes"] \in Nat /\ Budget["crashes"] \in Nat
  BY <1>1
<1> QED BY <1>3, <1>4 DEF Undisturbed

(* A node that appears has not been there before.                          *)
LEMMA Appears ==
    ASSUME TypeInv, [Next]_vars, NEW n \in Node, Present(n)'
    PROVE  Present(n) \/ node[n].place = "absent"
<1> USE ThreadKinds DEF Present
<1>0. node \in [Node -> NodeRecord]
  BY DEF TypeInv, TypeOK
<1>a. \A m \in NodeRecord :
         /\ [m EXCEPT !.inAsg = FALSE].place = m.place
         /\ \A b \in BOOLEAN : [m EXCEPT !.cordoned = b].place = m.place
         /\ [m EXCEPT !.pods = FALSE].place = m.place
         /\ [m EXCEPT !.pods = TRUE].place = m.place
         /\ \A b \in BOOLEAN : [m EXCEPT !.tainted = TRUE, !.pods = b].place = m.place
         /\ [m EXCEPT !.boot = "requested", !.rebootAge = 0].place = m.place
         /\ [m EXCEPT !.place = "gone"].place = "gone"
  BY DEF NodeRecord
<1>b. ASSUME NEW w \in Worker, NEW m, NEW r, NEW l, pc[w] # "idle", Proceed(w, m, r, l),
             m.place \in {Here(w).place, "gone"}
      PROVE  Present(n)
  <2>1. held[w].node \in Node /\ node' = [node EXCEPT ![held[w].node] = m]
    BY <1>b, Busy DEF Proceed
  <2> QED BY <1>0, <1>b, <2>1 DEF Here
<1>1. CASE \E w \in Worker, k \in Node : Take(w, k)
  BY <1>1
     DEF Take, TakeMissing, TakeReport, TakeDrained, TakeNewJoined, TakeDetached,
         TakeReplace, TakeRebooted, TakeReboot, TakeDenied, TakeDryRun, TakeStart,
         TakeUnknownAction, TakeOverflow, TakeQuiet, Begin, Drop
<1>2. ASSUME NEW w \in Worker, Work(w)
      PROVE  Present(n)
  <2>0. pc[w] # "idle"
    BY <1>2
       DEF Work, Start, Reboot, Detach, DetachRefused, Cordon, EvictOld, EvictReboot,
           ForceCordon, ForceStale, ForceTaint, Uncordon, NodeGone, Notify, At,
           DeleteNode, DeleteReport, DeletePaged, SelfReport, SelfNodeGone, Save,
           SaveConflict, Retried, Notifying, Draining, Saving
  <2>a. Here(w) \in NodeRecord
    BY <2>0, Busy
  <2>1. CASE Start(w) \/ Notify(w)
    BY <1>b, <2>0, <2>1 DEF Start, Notify
  <2>2. CASE Reboot(w) \/ Detach(w) \/ EvictOld(w) \/ EvictReboot(w)
    BY <1>a, <1>b, <2>0, <2>2, <2>a DEF Reboot, Detach, EvictOld, EvictReboot
  <2>3. CASE Cordon(w)
    <3>1. \E l, r : Proceed(w, [Here(w) EXCEPT !.cordoned = TRUE], r, l)
      BY <2>3 DEF Cordon
    <3> QED BY <1>a, <1>b, <2>0, <2>a, <3>1
  <2>4. CASE ForceCordon(w)
    <3>1. \E l, r : Proceed(w, [Here(w) EXCEPT !.cordoned = TRUE], r, l)
      BY <2>4 DEF ForceCordon
    <3> QED BY <1>a, <1>b, <2>0, <2>a, <3>1
  <2>5. CASE ForceTaint(w)
    <3>1. PICK b \in BOOLEAN :
             \E r, l : Proceed(w, [Here(w) EXCEPT !.tainted = TRUE, !.pods = b], r, l)
      BY <2>5, <2>a DEF ForceTaint, NodeRecord
    <3> QED BY <1>a, <1>b, <2>0, <2>a, <3>1
  <2>6. CASE Uncordon(w)
    BY <1>a, <1>b, <2>0, <2>6, <2>a DEF Uncordon
  <2>7. CASE DeleteNode(w) \/ SelfNodeGone(w)
    BY <1>a, <1>b, <2>0, <2>7, <2>a DEF DeleteNode, SelfNodeGone
  <2> QED
    BY <1>2, <2>1, <2>2, <2>3, <2>4, <2>5, <2>6, <2>7
       DEF Work, DetachRefused, ForceStale, NodeGone, DeleteReport, DeletePaged, SelfReport,
           Save, SaveConflict, Retry
<1>3. ASSUME NEW w \in Worker, Fault(w)
      PROVE  Present(n)
  <2>1. CASE CallLost(w)
    <3>0. pc[w] # "idle" /\ Here(w) \in NodeRecord
      BY <2>1, Busy DEF CallLost, At
    <3>1. PICK m : /\ node' = [node EXCEPT ![held[w].node] = m]
                   /\ m.place \in {Here(w).place, "gone"}
      <4>1. CASE At(w, "detach")
        BY <1>a, <2>1, <3>0, <4>1 DEF CallLost, At, Here
      <4>2. CASE At(w, "reboot")
        BY <1>a, <2>1, <3>0, <4>2 DEF CallLost, At, Here
      <4>3. CASE At(w, "deleteNode")
        BY <1>a, <2>1, <3>0, <4>3 DEF CallLost, At, Here
      <4> QED BY <2>1, <4>1, <4>2, <4>3 DEF CallLost
    <3> QED BY <1>0, <3>0, <3>1, Busy DEF Here
  <2> QED
    BY <1>3, <2>1 DEF Fault, CallFails, SaveFails, DeleteReportFails, SelfCallFails, Retry
<1>4. CASE (\E k \in Node : CleanerFinds(k)) \/ CleanerDeletes \/ CleanerFails
             \/ (\E k \in Node : EventCreates(k) \/ NodeCreates(k))
             \/ \E f \in Writer : WriterSaves(f) \/ WriterDeletes(f)
  BY <1>4 DEF CleanerFinds, CleanerDeletes, CleanerFails, EventCreates, NodeCreates, Create,
              WriterSaves, WriterDeletes
<1>5. ASSUME NEW f \in Writer, NEW k \in Node, Write(f, k)
      PROVE  Present(n)
  <2>1. \E r \in Stored, l \in {"commit", "remove"} : WriterBegins(f, k, r, l)
    BY <1>5, WritesUnruled
  <2> QED BY <2>1 DEF WriterBegins
<1>6. ASSUME NEW k \in Node, Environment(k)
      PROVE  Present(n) \/ node[n].place = "absent"
  <2>1. CASE Launch(k) \/ ScaleOut(k)
    BY <1>0, <2>1 DEF Launch, ScaleOut, Joined, World
  <2>2. CASE ~(Launch(k) \/ ScaleOut(k))
    <3>1. Present(k)
      BY <1>6, <2>2 DEF Environment, Outage, Recover, GoesDown, ComesUp, Vanish,
                        PodsScheduled, TaintEvicts, Steady, IsReady
    <3>2. \E m : World(k, m)
      BY <1>6, <2>2 DEF Environment, Outage, Recover, GoesDown, ComesUp, Vanish,
                        PodsScheduled, TaintEvicts
    <3> QED BY <1>0, <3>1, <3>2 DEF World
  <2> QED BY <2>1, <2>2
<1>7. CASE (\E k \in Node : Deliver(k)) \/ Crash \/ (\E w \in Worker : SelfPod(w))
             \/ EditConfigs \/ UNCHANGED vars
  BY <1>7 DEF Deliver, Crash, SelfPod, Restart, EditConfigs, vars
<1>8. CASE Tick
  <2>1. \A m \in NodeRecord : AgeNode(m).place = m.place
    BY DEF AgeNode, NodeRecord
  <2> QED BY <1>0, <1>8, <2>1 DEF Tick
<1> QED
  BY <1>1, <1>2, <1>3, <1>4, <1>5, <1>6, <1>7, <1>8 DEF Next

(* No step brings a node that has a report under observation.              *)
LEMMA NoOnset ==
    ASSUME TypeInv, SafetyInv, budget["crashes"] <= Budget["crashes"], [Next]_vars,
           NEW n \in Node, Undisturbed', Present(n)', api[n] # NoReport
    PROVE  Undisturbed /\ Present(n)
<1>1. Undisturbed
  BY NoOutburst DEF TypeInv
<1>2. node[n].place # "absent"
  BY DEF SafetyInv, NotJoined, Copies
<1> QED BY <1>1, <1>2, Appears

(* One lemma for each shape of step.  Something is on its way to n.        *)
LEMMA AttendedPending ==
    ASSUME NEW n \in Node, watch'[n] # <<>>, VersionsInOrder(n)', Awaited(n)'
    PROVE  Attended(n)'
<1>1. \A f \in Looker \cup Checker : ~Live(f, n)'
  BY Goroutines DEF VersionsInOrder, Live
<1> QED BY <1>1 DEF Attended, Agreed, Requested, Noted

(* Nobody asks for more than before, and no look is lost.                  *)
LEMMA AttendedQuiet ==
    ASSUME NEW n \in Node, Attended(n), api'[n] = api[n], watch'[n] = watch[n],
           cache'[n] = NoReport <=> cache[n] = NoReport,
           cache[n] # NoReport => (Idle(cache'[n]) <=> Idle(cache[n])),
           Suspicious(cache'[n]) => Suspicious(cache[n]),
           \A f \in Looker \cup Checker : Live(f, n) => Live(f, n)',
           Suspicious(cache'[n]) => \A f \in Checker :
              Live(f, n)' /\ pc'[f] = "commit" => Live(f, n) /\ pc[f] = "commit",
           Undisturbed' /\ Present(n)' /\ Suspicious(api[n]) =>
              /\ Undisturbed /\ Present(n)
              /\ Kept(n) => Kept(n)'
              /\ n \in due /\ ~Stale(n) => n \in due' \/ Kept(n)'
    PROVE  Attended(n)'
<1>1. Missed(cache'[n]) <=> Missed(cache[n])
  BY DEF Missed
<1>2. Stale(n)' => Stale(n)
  BY <1>1 DEF Stale
<1>3. Awaited(n)'
  BY <1>2 DEF Attended, Awaited
<1>4. Agreed(n)'
  BY DEF Attended, Agreed
<1>5. Requested(n)'
  <2> SUFFICES ASSUME watch'[n] = <<>>, api'[n] # NoReport, Idle(api'[n]), ~Idle(cache'[n])
               PROVE  \E f \in Checker : Live(f, n)'
    BY DEF Requested
  <2>1. cache[n] # NoReport
    BY DEF Attended, Agreed
  <2>2. \E f \in Checker : Live(f, n)
    BY <2>1 DEF Attended, Requested
  <2> QED BY <2>2
<1>6. Noted(n)'
  BY DEF Attended, Noted
<1> QED BY <1>3, <1>4, <1>5, <1>6 DEF Attended

(* Whoever works on n for NodeController goes on doing so.                 *)
Undiverted(n) ==
    /\ n \in looks => n \in looks'
    /\ timer[n] # Zero => timer'[n] # Zero
    /\ n \in due => n \in due'
    /\ \A f \in Looker \cup Checker :
          \/ held'[f] = held[f] /\ pc'[f] = pc[f]
          \/ held[f].node # n /\ held'[f].node # n

LEMMA KeptOn ==
    ASSUME NEW n \in Node, Undiverted(n), Kept(n)
    PROVE  Kept(n)'
BY DEF Undiverted, Kept

LEMMA AttendedAside ==
    ASSUME NEW n \in Node, Attended(n), Undiverted(n),
           api'[n] = api[n], watch'[n] = watch[n], cache'[n] = cache[n],
           Undisturbed' /\ Present(n)' /\ api[n] # NoReport => Undisturbed /\ Present(n)
    PROVE  Attended(n)'
<1>1. \A f \in Looker \cup Checker :
         /\ Live(f, n) <=> Live(f, n)'
         /\ Live(f, n) => pc'[f] = pc[f]
  BY DEF Undiverted, Live
<1>2. Kept(n) => Kept(n)'
  BY KeptOn
<1> QED BY <1>1, <1>2, AttendedQuiet DEF Undiverted, Suspicious

(* A worker's edit: before it and after it the report asks for something.  *)
LEMMA AttendedAsking ==
    ASSUME NEW n \in Node, Attended(n), Undiverted(n),
           api'[n] = api[n], watch'[n] = watch[n],
           cache[n] # NoReport, cache'[n] # NoReport, ~Idle(cache[n]), ~Idle(cache'[n]),
           Undisturbed' /\ Present(n)' /\ api[n] # NoReport => Undisturbed /\ Present(n)
    PROVE  Attended(n)'
<1>1. \A f \in Looker \cup Checker :
         /\ Live(f, n) <=> Live(f, n)'
         /\ Live(f, n) => pc'[f] = pc[f]
  BY DEF Undiverted, Live
<1>2. Kept(n) => Kept(n)'
  BY KeptOn
<1>3. ~Suspicious(cache'[n])
  BY DEF Suspicious
<1> QED BY <1>1, <1>2, <1>3, AttendedQuiet DEF Undiverted, Suspicious

(* A version of k is stored: of n, only one that is looked at again may be *)
(* suspicious.                                                             *)
LEMMA AttendedStore ==
    ASSUME TypeInv, TypeInv', SafetyInv, SafetyInv', NEW n \in Node, Attended(n),
           NEW k \in Node, NEW r \in Stored, NEW h, Persist(k, r, h), UNCHANGED cache,
           k = n => Awaited(n)',
           k # n =>
              /\ n \in looks => n \in looks'
              /\ timer[n] # Zero => timer'[n] # Zero
              /\ n \in due => n \in due'
              /\ \A f \in Looker \cup Checker :
                    \/ h[f] = held[f] /\ pc'[f] = pc[f]
                    \/ held[f].node # n /\ h[f].node # n
              /\ Undisturbed' /\ Present(n)' /\ api[n] # NoReport => Undisturbed /\ Present(n)
    PROVE  Attended(n)'
<1>1. api \in [Node -> Stored] /\ watch \in [Node -> Seq(Stored)]
  BY DEF TypeInv, TypeOK, StoreTypeOK, Stored
<1>2. CASE k = n
  <2>1. watch'[n] = Append(watch[n], r)
    BY <1>1, <1>2 DEF Persist
  <2>2. watch[n] \in Seq(Stored)
    BY <1>1
  <2>3. watch'[n] # <<>>
    BY <2>1, <2>2, AppendProperties, EmptySeq
  <2> QED BY <1>2, <2>3, AttendedPending DEF SafetyInv
<1>3. CASE k # n
  <2>1. api'[n] = api[n] /\ watch'[n] = watch[n]
    BY <1>1, <1>3 DEF Persist
  <2>2. \A f \in Looker \cup Checker :
           held'[f] = h[f] \/ (h[f].node = k /\ held'[f].node = k)
    BY Goroutines DEF Persist, Outdated
  <2>3. \A f \in Looker \cup Checker : h[f].node = k => h[f].node # n
    BY <1>3
  <2>4. Undiverted(n)
    <3> SUFFICES ASSUME NEW f \in Looker \cup Checker
                 PROVE  \/ held'[f] = held[f] /\ pc'[f] = pc[f]
                        \/ held[f].node # n /\ held'[f].node # n
      BY <1>3 DEF Undiverted
    <3> QED BY <1>3, <2>2
  <2> QED BY <1>3, <2>1, <2>4, AttendedAside
<1> QED BY <1>2, <1>3

LEMMA NoneAwaited ==
    ASSUME NEW n \in Node, ~Suspicious(api'[n])
    PROVE  Awaited(n)'
BY DEF Awaited

LEMMA StoredNow ==
    ASSUME TypeInv, NEW n \in Node, NEW r, NEW h, Persist(n, r, h)
    PROVE  api'[n] = r
BY DEF Persist, TypeInv, TypeOK, StoreTypeOK

LEMMA AttendedRemove ==
    ASSUME TypeInv, TypeInv', SafetyInv, SafetyInv', NEW n \in Node, Attended(n),
           NEW k \in Node, NEW h, Remove(k, h), UNCHANGED cache,
           api[k] = NoReport \/ k # n =>
              /\ n \in looks => n \in looks'
              /\ timer[n] # Zero => timer'[n] # Zero
              /\ n \in due => n \in due'
              /\ \A f \in Looker \cup Checker :
                    \/ h[f] = held[f] /\ pc'[f] = pc[f]
                    \/ held[f].node # n /\ h[f].node # n
              /\ Undisturbed' /\ Present(n)' /\ api[n] # NoReport => Undisturbed /\ Present(n)
    PROVE  Attended(n)'
<1>1. CASE api[k] = NoReport
  BY <1>1, AttendedAside DEF Remove, Undiverted
<1>2. CASE api[k] # NoReport
  <2>1. NoReport \in Stored /\ ~Suspicious(NoReport)
    BY DEF Stored, Suspicious
  <2>2. Persist(k, NoReport, h)
    BY <1>2 DEF Remove
  <2>3. k = n => Awaited(n)'
    BY <2>1, <2>2, StoredNow, NoneAwaited
  <2> QED BY <2>1, <2>2, <2>3, AttendedStore
<1> QED BY <1>1, <1>2

(* What the lemmas on single steps start from.                             *)
WatchStep ==
    /\ TypeInv /\ TypeInv' /\ SafetyInv /\ SafetyInv' /\ UnruledInv /\ UnruledInv'
    /\ \A n \in Node : /\ Undisturbed' /\ Present(n)' /\ api[n] # NoReport
                       => Undisturbed /\ Present(n)

(* Goroutines other than NodeController's.                                 *)
LEMMA Undisturbing ==
    ASSUME TypeInv, UNCHANGED queues, NEW n \in Node,
           NEW t \in Thread, t \notin Looker \cup Checker,
           \A s \in Thread \ {t} : held'[s] = held[s] /\ pc'[s] = pc[s]
    PROVE  Undiverted(n)
BY Goroutines DEF Undiverted, queues

LEMMA AttendedBegin ==
    ASSUME WatchStep, UNCHANGED queues, NEW n \in Managed, Attended(n),
           NEW w \in Worker, NEW k \in Node, NEW r, NEW l, Begin(w, k, r, l),
           k = n => /\ cache[n] # NoReport /\ ~Idle(cache[n])
                    /\ r # NoReport /\ ~Idle(r)
    PROVE  Attended(n)'
<1>0. /\ n \in Node /\ cache \in [Node -> Stored] /\ held \in [Thread -> Hold]
      /\ pc \in [Thread -> Label] /\ w \in Thread /\ w \notin Looker \cup Checker /\ TypeInv
  BY NodeAssumption, Goroutines, ThreadKinds DEF WatchStep, TypeInv, TypeOK, StoreTypeOK, Stored
<1>1. /\ held' = [held EXCEPT ![w] = Lookup(k)] /\ cache' = [cache EXCEPT ![k] = r]
      /\ pc' = [pc EXCEPT ![w] = l] /\ UNCHANGED <<api, watch>>
  BY DEF Begin
<1>2. Undiverted(n)
  BY <1>0, <1>1, Undisturbing
<1>3. CASE k = n
  BY <1>0, <1>1, <1>2, <1>3, AttendedAsking DEF WatchStep
<1>4. CASE k # n
  BY <1>0, <1>1, <1>2, <1>4, AttendedAside DEF WatchStep
<1> QED BY <1>3, <1>4

LEMMA AttendedTake ==
    ASSUME Ruleless, WatchStep, UNCHANGED queues, NEW n \in Managed, Attended(n),
           NEW w \in Worker, NEW k \in Node, Take(w, k)
    PROVE  Attended(n)'
<1>0. n \in Node /\ TypeInv /\ TameReports(n)
  BY NodeAssumption, UnruledIs DEF WatchStep, UnruledInv
<1>1. CASE Drop(w, k)
  <2>1. UNCHANGED <<api, cache, watch, held, pc>>
    BY <1>1 DEF Drop
  <2>2. Undiverted(n)
    BY <2>1 DEF Undiverted, queues
  <2> QED BY <1>0, <2>1, <2>2, AttendedAside DEF WatchStep
<1>2. CASE k # n
  BY <1>1, <1>2, TakeBegins, AttendedBegin
<1>3. CASE k = n
  <2>1. Policy(n) = NoEntry
    BY <1>0, NoRule DEF TypeInv
  <2>2. \/ Drop(w, n)
        \/ \E r \in Report, l \in Label \ (Settling \cup {"idle"}) :
              Begin(w, n, r, l) /\ Plain(r) /\ ~Idle(r) /\ ~Idle(cache[n])
    BY <1>0, <1>3, <2>1, TakeUnruled DEF TameReports
  <2>3. ASSUME NEW r \in Report, NEW l, Begin(w, n, r, l), ~Idle(r), ~Idle(cache[n])
        PROVE  Attended(n)'
    <3>1. r # NoReport /\ cache[n] # NoReport
      BY <2>3, NoReportAssumption DEF Begin
    <3> QED BY <1>3, <2>3, <3>1, AttendedBegin
  <2> QED BY <1>1, <1>3, <2>2, <2>3
<1> QED BY <1>2, <1>3

LEMMA AttendedProceed ==
    ASSUME WatchStep, UNCHANGED queues, NEW n \in Managed, Attended(n),
           NEW w \in Worker, pc[w] # "idle", NEW m, NEW r, NEW l, Proceed(w, m, r, l),
           l # "idle"
    PROVE  Attended(n)'
<1>0. /\ n \in Node /\ cache \in [Node -> Stored] /\ pc \in [Thread -> Label]
      /\ w \in Thread /\ w \notin Looker \cup Checker /\ TypeInv
  BY NodeAssumption, Goroutines, ThreadKinds DEF WatchStep, TypeInv, TypeOK, StoreTypeOK, Stored
<1>1. /\ UNCHANGED <<api, watch, held>> /\ pc' = [pc EXCEPT ![w] = l]
      /\ cache' = Edited(w, r)
  BY DEF Proceed
<1>2. Undiverted(n)
  BY <1>0, <1>1, Undisturbing
<1>3. CASE cache'[n] = cache[n]
  BY <1>0, <1>1, <1>2, <1>3, AttendedAside DEF WatchStep
<1>4. CASE cache'[n] # cache[n]
  <2>1. held[w].node = n /\ held[w].ref # "orphan"
    BY <1>0, <1>1, <1>4, Busy DEF Edited
  <2>2. pc'[w] # "idle" /\ held'[w] = held[w]
    BY <1>0, <1>1
  <2>3. Eased(n)
    BY <1>0, UnruledIs DEF WatchStep, UnruledInv
  <2>4. ~Idle(cache[n]) /\ ~Idle(cache'[n])
    BY <2>1, <2>2, <2>3 DEF WatchStep, UnruledInv, Eased, Unruled
  <2>5. cache[n] # NoReport /\ cache'[n] # NoReport
    BY <2>1, <2>2 DEF WatchStep, TypeInv, Pointers
  <2> QED BY <1>0, <1>1, <1>2, <2>4, <2>5, AttendedAsking DEF WatchStep
<1> QED BY <1>3, <1>4

LEMMA AttendedRelease ==
    ASSUME WatchStep, UNCHANGED queues, NEW n \in Managed, Attended(n),
           NEW t \in Thread, t \notin Looker \cup Checker,
           held' = Released(t), pc' = [pc EXCEPT ![t] = "idle"],
           UNCHANGED <<api, cache, watch>>
    PROVE  Attended(n)'
<1>0. n \in Node /\ TypeInv
  BY NodeAssumption DEF WatchStep
<1>1. \A s \in Thread \ {t} : held'[s] = held[s] /\ pc'[s] = pc[s]
  BY <1>0, Freed DEF TypeInv, TypeOK
<1>2. Undiverted(n)
  BY <1>0, <1>1, Undisturbing
<1> QED BY <1>0, <1>2, AttendedAside DEF WatchStep

LEMMA AttendedDelete ==
    ASSUME WatchStep, UNCHANGED queues, NEW n \in Managed, Attended(n),
           NEW t \in Thread, t \notin Looker \cup Checker, held[t].node \in Node,
           Remove(held[t].node, Released(t)),
           UNCHANGED cache, pc' = [pc EXCEPT ![t] = "idle"]
    PROVE  Attended(n)'
<1>0. n \in Node /\ TypeInv
  BY NodeAssumption DEF WatchStep
<1>1. \A f \in Looker \cup Checker : Released(t)[f] = held[f] /\ pc'[f] = pc[f]
  BY <1>0, Freed, Goroutines DEF TypeInv, TypeOK
<1> QED BY <1>0, <1>1, AttendedRemove DEF WatchStep, queues

(* Another goroutine saves the shared object.  If that makes the report    *)
(* suspicious, the edit that did was of a look that is still under way.    *)
LEMMA AttendedSave ==
    ASSUME WatchStep, UNCHANGED queues, NEW n \in Managed, Attended(n),
           NEW t \in Thread, t \notin Looker \cup Checker, held[t].node \in Node,
           Updatable(t), pc[t] # "idle", Persist(held[t].node, Mine(t), Released(t)),
           UNCHANGED cache, pc' = [pc EXCEPT ![t] = "idle"]
    PROVE  Attended(n)'
<1>0. n \in Node /\ TypeInv /\ TypeInv' /\ SafetyInv
  BY NodeAssumption DEF WatchStep
<1>1. \A f \in Looker \cup Checker : Released(t)[f] = held[f] /\ pc'[f] = pc[f]
  BY <1>0, Freed, Goroutines DEF TypeInv, TypeOK
<1>2. Mine(t) \in Stored
  BY <1>0 DEF Mine, TypeInv, TypeOK, StoreTypeOK, Stored
<1>3. ASSUME held[t].node = n
      PROVE  Awaited(n)'
  <2> SUFFICES ASSUME Undisturbed', Present(n)', Suspicious(api'[n])
               PROVE  Kept(n)' \/ (n \in due' /\ ~Stale(n)')
    BY DEF Awaited
  <2>1. api'[n] = cache[n] /\ Suspicious(cache[n])
    BY <1>0, <1>3, StoredNow DEF Mine
  <2>2. held[t] = [node |-> n, ref |-> "live"]
    BY <1>0, <1>3 DEF Updatable, TypeInv, TypeOK, StoreTypeOK, Hold
  <2>3. watch[n] = <<>>
    BY <1>0, <2>2 DEF SafetyInv, VersionsInOrder
  <2>4. \A f \in Looker \cup Checker : held'[f].node = held[f].node
    BY <1>1, <1>3, Goroutines DEF Persist, Outdated
  <2>5. CASE Suspicious(api[n])
    <3>1. Undisturbed /\ Present(n)
      BY <1>0, <2>5 DEF WatchStep, Suspicious
    <3>2. Kept(n) \/ n \in due
      BY <2>5, <3>1 DEF Attended, Awaited
    <3>3. Kept(n) => Kept(n)'
      BY <2>4 DEF Kept, queues
    <3>4. ~Stale(n)'
      <4>1. watch'[n] = Append(<<>>, Mine(t))
        BY <1>0, <1>3, <2>3 DEF Persist, TypeInv, TypeOK, StoreTypeOK
      <4>2. Len(watch'[n]) = 1
        <5>1. <<>> \in Seq(Stored) /\ Len(<<>>) = 0
          BY EmptySeq
        <5> QED BY <1>2, <4>1, <5>1, AppendProperties
      <4>3. ~Missed(cache'[n])
        BY <2>1 DEF Missed, Suspicious
      <4> QED BY <4>2, <4>3 DEF Stale
    <3> QED BY <3>2, <3>3, <3>4 DEF queues
  <2>6. CASE ~Suspicious(api[n])
    <3>1. \E f \in Looker : Live(f, n)
      BY <2>1, <2>3, <2>6 DEF Attended, Noted
    <3> QED BY <2>4, <3>1 DEF Kept, Live
  <2> QED BY <2>5, <2>6
<1> QED BY <1>0, <1>1, <1>2, <1>3, AttendedStore DEF WatchStep, queues

LEMMA AttendedWork ==
    ASSUME WatchStep, UNCHANGED queues, NEW n \in Managed, Attended(n),
           NEW w \in Worker, Work(w)
    PROVE  Attended(n)'
<1> USE DEF At
<1>0. pc[w] # "idle" /\ w \in Thread /\ w \notin Looker \cup Checker /\ pc[w] \notin SelfReplacing
  BY ThreadKinds, Goroutines
     DEF Work, Start, Reboot, Detach, DetachRefused, Cordon, EvictOld, EvictReboot,
         ForceCordon, ForceStale, ForceTaint, Uncordon, NodeGone, Notify,
         DeleteNode, DeleteReport, DeletePaged, SelfReport, SelfNodeGone, Save, SaveConflict,
         Retried, Notifying, Draining, Saving, WatchStep, UnruledInv
<1>a. held[w].node \in Node
  BY <1>0, Busy DEF WatchStep
<1>1. CASE Start(w) \/ Reboot(w) \/ Detach(w) \/ Cordon(w) \/ EvictOld(w)
             \/ EvictReboot(w) \/ ForceCordon(w) \/ ForceTaint(w) \/ Uncordon(w)
             \/ DeleteNode(w) \/ SelfNodeGone(w) \/ Notify(w)
  <2>1. ASSUME NEW m, NEW r, NEW l, Proceed(w, m, r, l), l # "idle"
        PROVE  Attended(n)'
    BY <1>0, <2>1, AttendedProceed
  <2>2. CASE Start(w) \/ Notify(w)
    BY <2>1, <2>2 DEF Start, Notify
  <2>3. CASE Reboot(w) \/ Detach(w) \/ EvictOld(w) \/ EvictReboot(w)
    BY <2>1, <2>3 DEF Reboot, Detach, EvictOld, EvictReboot
  <2>4. CASE Cordon(w) \/ ForceCordon(w) \/ ForceTaint(w) \/ Uncordon(w)
    BY <2>1, <2>4 DEF Cordon, ForceCordon, ForceTaint, Uncordon
  <2>5. CASE DeleteNode(w) \/ SelfNodeGone(w)
    BY <2>1, <2>5 DEF DeleteNode, SelfNodeGone
  <2> QED BY <1>1, <2>2, <2>3, <2>4, <2>5
<1>2. CASE DetachRefused(w) \/ ForceStale(w) \/ NodeGone(w) \/ SaveConflict(w)
  BY <1>0, <1>2, AttendedRelease
     DEF DetachRefused, ForceStale, NodeGone, SaveConflict, Retry, Finish
<1>3. CASE Save(w)
  BY <1>0, <1>3, <1>a, AttendedSave DEF Save, Finish
<1>4. CASE DeleteReport(w) \/ DeletePaged(w)
  BY <1>0, <1>4, <1>a, AttendedDelete DEF DeleteReport, DeletePaged, Finish
<1>5. ~SelfReport(w)
  BY <1>0 DEF SelfReport, SelfReplacing
<1> QED BY <1>1, <1>2, <1>3, <1>4, <1>5 DEF Work

LEMMA AttendedFault ==
    ASSUME WatchStep, UNCHANGED queues, NEW n \in Managed, Attended(n),
           NEW w \in Worker, Fault(w)
    PROVE  Attended(n)'
<1> USE DEF At
<1>0. pc[w] # "idle" /\ w \in Thread /\ w \notin Looker \cup Checker /\ pc[w] \notin SelfReplacing
  BY ThreadKinds, Goroutines
     DEF Fault, CallFails, CallLost, SaveFails, DeleteReportFails, SelfCallFails,
         Retried, Notifying, Draining, Saving, WatchStep, UnruledInv
<1>a. held[w].node \in Node
  BY <1>0, Busy DEF WatchStep
<1>1. CASE CallFails(w) \/ DeleteReportFails(w) \/ CallLost(w)
  BY <1>0, <1>1, AttendedRelease DEF CallFails, DeleteReportFails, CallLost, Retry, Finish
<1>2. CASE SaveFails(w)
  BY <1>0, <1>2, <1>a, AttendedRelease, AttendedSave DEF SaveFails, Finish
<1>3. ~SelfCallFails(w)
  BY <1>0 DEF SelfCallFails, SelfReplacing
<1> QED BY <1>1, <1>2, <1>3 DEF Fault

LEMMA AttendedCleaner ==
    ASSUME WatchStep, UNCHANGED queues, NEW n \in Managed, Attended(n),
           (\E k \in Node : CleanerFinds(k)) \/ CleanerDeletes \/ CleanerFails
    PROVE  Attended(n)'
<1> USE DEF At
<1>0. /\ n \in Node /\ TypeInv /\ Cleaner \in Thread /\ Cleaner \notin Looker \cup Checker
      /\ held \in [Thread -> Hold] /\ pc \in [Thread -> Label]
  BY NodeAssumption, Goroutines, ThreadKinds DEF WatchStep, TypeInv, TypeOK, StoreTypeOK
<1>1. ASSUME NEW k \in Node, CleanerFinds(k)
      PROVE  Attended(n)'
  <2>1. \A s \in Thread \ {Cleaner} : held'[s] = held[s] /\ pc'[s] = pc[s]
    BY <1>0, <1>1 DEF CleanerFinds
  <2>2. Undiverted(n)
    BY <1>0, <2>1, Undisturbing
  <2> QED BY <1>0, <1>1, <2>2, AttendedAside DEF CleanerFinds, WatchStep
<1>2. CASE CleanerDeletes
  <2>1. held[Cleaner].node \in Node
    BY <1>0, <1>2 DEF CleanerDeletes, TypeInv, Pointers
  <2> QED BY <1>0, <1>2, <2>1, AttendedDelete DEF CleanerDeletes
<1>3. CASE CleanerFails
  BY <1>0, <1>3, AttendedRelease DEF CleanerFails
<1> QED BY <1>1, <1>2, <1>3

(* EventController: a report it creates is Ready and has a problem, and    *)
(* an event it records makes none suspicious.                              *)
LEMMA AttendedEvents ==
    ASSUME WatchStep, UNCHANGED queues, NEW n \in Managed, Attended(n),
           \/ \E k \in Node : EventCreates(k)
           \/ \E f \in Recorder : WriterSaves(f) \/ \E k \in Node : EventRecorded(f, k)
    PROVE  Attended(n)'
<1> USE DEF At
<1>0. /\ n \in Node /\ TypeInv /\ TypeInv' /\ SafetyInv /\ SafetyInv'
      /\ cache \in [Node -> Stored]
      /\ held \in [Thread -> Hold] /\ pc \in [Thread -> Label]
  BY NodeAssumption DEF WatchStep, TypeInv, TypeOK, StoreTypeOK, Stored
<1>a. \A f \in Recorder : f \in Thread /\ f \notin Looker \cup Checker
  BY ThreadKinds DEF Recorder
<1>1. ASSUME NEW k \in Node, EventCreates(k)
      PROVE  Attended(n)'
  <2>1. PICK s \in 0 .. ScoreCap : Create(k, "Ready", TRUE, s)
    BY <1>1 DEF EventCreates
  <2>2. PICK r \in Stored : r = Opened("Ready", TRUE, s) /\ ~Suspicious(r)
    <3>1. Opened("Ready", TRUE, s) \in Report
      BY DEF Opened, Report, NodeStatus, Action, Phase, Stamp
    <3>2. ~Suspicious(Opened("Ready", TRUE, s))
      BY DEF Opened, Suspicious, Suspects
    <3> QED BY <3>1, <3>2 DEF Stored
  <2>3. Persist(k, r, held) /\ UNCHANGED <<cache, pc>>
    BY <2>1, <2>2 DEF Create
  <2>4. k = n => Awaited(n)'
    BY <1>0, <2>2, <2>3, StoredNow, NoneAwaited
  <2> QED BY <1>0, <2>3, <2>4, AttendedStore DEF WatchStep, queues
<1>2. ASSUME NEW f \in Recorder, WriterSaves(f)
      PROVE  Attended(n)'
  <2>1. held[f].node \in Node /\ pc[f] # "idle"
    BY <1>0, <1>2, <1>a DEF WriterSaves, TypeInv, Pointers
  <2> QED BY <1>2, <1>a, <2>1, AttendedSave, AttendedRelease DEF WriterSaves
<1>3. ASSUME NEW f \in Recorder, NEW k \in Node, EventRecorded(f, k)
      PROVE  Attended(n)'
  <2>1. PICK s \in 0 .. ScoreCap : /\ cache[k] # NoReport
           /\ WriterBegins(f, k, [cache[k] EXCEPT !.problems = TRUE, !.score = s], "commit")
    BY <1>3 DEF EventRecorded
  <2> DEFINE q == [cache[k] EXCEPT !.problems = TRUE, !.score = s]
  <2>2. /\ q \in Report /\ q.phase = cache[k].phase /\ q.action = cache[k].action
        /\ q.status = cache[k].status /\ q.problems
    BY <1>0, <2>1 DEF Report, Stored
  <2>3. q # NoReport
    BY <2>2, NoReportAssumption
  <2> HIDE DEF q
  <2>4. /\ held' = [held EXCEPT ![f] = Lookup(k)] /\ cache' = [cache EXCEPT ![k] = q]
        /\ pc' = [pc EXCEPT ![f] = "commit"] /\ UNCHANGED <<api, watch>>
    BY <2>1 DEF WriterBegins, q
  <2>5. Undiverted(n)
    BY <1>0, <1>a, <2>4, Undisturbing
  <2>6. CASE k # n
    <3>1. cache'[n] = cache[n]
      BY <1>0, <2>4, <2>6
    <3> QED BY <1>0, <2>4, <2>5, <3>1, AttendedAside DEF WatchStep
  <2>7. CASE k = n
    <3>1. cache'[n] = q /\ cache[n] # NoReport
      BY <1>0, <2>1, <2>4, <2>7
    <3>2. /\ Idle(cache'[n]) <=> Idle(cache[n])
          /\ Suspicious(cache'[n]) => Suspicious(cache[n])
      BY <2>2, <2>7, <3>1 DEF Idle, Suspicious, Suspects
    <3>3. \A g \in Looker \cup Checker :
             /\ Live(g, n) <=> Live(g, n)'
             /\ Live(g, n) => pc'[g] = pc[g]
      BY <2>5 DEF Undiverted, Live
    <3>4. Kept(n) => Kept(n)'
      BY <1>0, <2>5, KeptOn
    <3> QED BY <1>0, <2>3, <2>4, <2>5, <3>1, <3>2, <3>3, <3>4, AttendedQuiet
            DEF WatchStep, Suspicious, Undiverted
  <2> QED BY <2>6, <2>7
<1> QED BY <1>1, <1>2, <1>3

(* A delivery takes nothing from a second look: what it replaced was not   *)
(* better.                                                                 *)
LEMMA AttendedDeliver ==
    ASSUME WatchStep, UNCHANGED queues, NEW n \in Managed, Attended(n),
           NEW k \in Node, Deliver(k)
    PROVE  Attended(n)'
<1>0. /\ n \in Node /\ TypeInv /\ SafetyInv /\ SafetyInv' /\ held \in [Thread -> Hold]
      /\ cache \in [Node -> Stored] /\ watch \in [Node -> Seq(Stored)]
  BY NodeAssumption DEF WatchStep, TypeInv, TypeOK, StoreTypeOK, Stored
<1>1. /\ watch[k] # <<>> /\ api' = api /\ pc' = pc
      /\ cache' = [cache EXCEPT ![k] = Head(watch[k])]
      /\ watch' = [watch EXCEPT ![k] = Tail(@)] /\ held' = Replaced(k)
  BY DEF Deliver, DeliverNext
<1>2. \A f \in Looker \cup Checker :
         /\ held'[f].node = held[f].node
         /\ held[f].node = k => held'[f].ref = "orphan"
         /\ held[f].node # k => held'[f] = held[f]
  BY <1>1, Goroutines DEF Replaced
<1>3. CASE k # n
  <2>1. cache'[n] = cache[n] /\ watch'[n] = watch[n]
    BY <1>0, <1>1, <1>3
  <2>2. Undiverted(n)
    <3> SUFFICES ASSUME NEW f \in Looker \cup Checker
                 PROVE  \/ held'[f] = held[f] /\ pc'[f] = pc[f]
                        \/ held[f].node # n /\ held'[f].node # n
      BY DEF Undiverted, queues
    <3> QED BY <1>1, <1>2, <1>3
  <2> QED BY <1>0, <1>1, <2>1, <2>2, AttendedAside DEF WatchStep
<1>4. CASE k = n
  <2>1. /\ Len(watch[n]) \in Nat /\ Len(watch[n]) >= 1 /\ Head(watch[n]) = watch[n][1]
        /\ Tail(watch[n]) \in Seq(Stored) /\ Len(Tail(watch[n])) = Len(watch[n]) - 1
        /\ \A i \in 1 .. Len(Tail(watch[n])) : Tail(watch[n])[i] = watch[n][i + 1]
    BY <1>0, <1>1, <1>4, HeadTailProperties, EmptySeq, LenProperties
  <2>2. cache'[n] = watch[n][1] /\ watch'[n] = Tail(watch[n])
    BY <1>0, <1>1, <1>4, <2>1
  <2>a. Len(watch[n]) \in Nat /\ Len(watch[n]) >= 1
    BY <2>1
  <2>3. watch'[n] = <<>> => Len(watch[n]) = 1
    <3>1. Len(Tail(watch[n])) = Len(watch[n]) - 1
      BY <2>1
    <3>2. <<>> \in Seq(Stored) /\ Len(<<>>) = 0
      BY EmptySeq
    <3>3. watch'[n] = <<>> => Len(Tail(watch[n])) = 0
      BY <2>2, <3>2
    <3> QED BY <2>a, <3>1, <3>3
  <2>4. watch[n][Len(watch[n])] = api[n]
    BY <1>0, <1>1, <1>4 DEF SafetyInv, VersionsInOrder
  <2>5. watch'[n] = <<>> => cache'[n] = api'[n]
    BY <1>1, <2>2, <2>3, <2>4
  <2>6. \A f \in Looker \cup Checker : ~Live(f, n)'
    BY <1>2, <1>4 DEF Live
  <2>7. Agreed(n)' /\ Requested(n)' /\ Noted(n)'
    BY <2>5, <2>6 DEF Agreed, Requested, Noted
  <2>8. Suspicious(api[n]) /\ Stale(n)' => Stale(n)
    <3> SUFFICES ASSUME Suspicious(api[n]), Stale(n)'
                 PROVE  Stale(n)
      OBVIOUS
    <3>1. CASE Missed(cache'[n])
      <4>1. Len(watch[n]) # 1
        BY <2>2, <2>4, <3>1 DEF Suspicious, Missed
      <4>2. 1 \in 1 .. (Len(watch[n]) - 1)
        <5> DEFINE q == Len(watch[n])
        <5>1. q \in Nat /\ q >= 1 /\ q # 1
          BY <2>a, <4>1
        <5> HIDE DEF q
        <5>2. 1 \in 1 .. (q - 1)
          BY <5>1
        <5> QED BY <5>2 DEF q
      <4> QED BY <2>2, <3>1, <4>2 DEF Stale
    <3>2. CASE \E i \in 1 .. (Len(watch'[n]) - 1) : Missed(watch'[n][i])
      <4>1. PICK i \in 1 .. (Len(watch'[n]) - 1) : Missed(watch'[n][i])
        BY <3>2
      <4>2. i \in 1 .. Len(Tail(watch[n])) /\ i + 1 \in 1 .. (Len(watch[n]) - 1)
        BY <2>1, <2>2
      <4>3. Missed(watch[n][i + 1])
        BY <2>1, <2>2, <4>1, <4>2
      <4> QED BY <4>2, <4>3 DEF Stale
    <3> QED BY <3>1, <3>2 DEF Stale
  <2>9. Kept(n) => Kept(n)'
    BY <1>2 DEF Kept, queues
  <2>10. Undisturbed' /\ Present(n)' /\ Suspicious(api'[n]) => Undisturbed /\ Present(n)
    BY <1>0, <1>1 DEF WatchStep, Suspicious
  <2>11. Awaited(n)'
    BY <1>1, <2>8, <2>9, <2>10 DEF Attended, Awaited, queues
  <2> QED BY <2>7, <2>11 DEF Attended
<1> QED BY <1>3, <1>4

LEMMA AttendedOther ==
    ASSUME Ruleless, WatchStep, NEW n \in Managed, Attended(n), ControllerStep
    PROVE  Attended(n)'
<1>0. n \in Node /\ UNCHANGED queues
  BY NodeAssumption DEF ControllerStep
<1>1. CASE EditConfigs
  <2>1. Undiverted(n)
    BY <1>0, <1>1 DEF EditConfigs, Undiverted, queues
  <2> QED BY <1>0, <1>1, <2>1, AttendedAside DEF EditConfigs, WatchStep
<1> QED
  BY <1>0, <1>1, AttendedTake, AttendedWork, AttendedFault, AttendedCleaner, AttendedEvents,
     AttendedDeliver DEF ControllerStep

(* NodeController's own steps.                                             *)
Onwards == WatchStep /\ QueuesOK /\ AtRest

LEMMA SoonerSets ==
    ASSUME QueuesOK, NEW k \in Node, NEW d \in 1 .. GraceTime, timer' = Sooner(k, d)
    PROVE  /\ timer'[k] # Zero
           /\ \A m \in Node : /\ timer[m] # Zero => timer'[m] # Zero
                              /\ m # k => timer'[m] = timer[m]
BY NodeAssumption DEF QueuesOK, Sooner, Zero

(* A key is dropped: nobody is waited for, or the look would miss it.      *)
LEMMA AttendedDropped ==
    ASSUME Onwards, NEW n \in Managed, Attended(n), NEW k \in Node, UNCHANGED vars,
           looks \ {k} \subseteq looks', due \ {k} \subseteq due',
           \A m \in Node : timer[m] # Zero => timer'[m] # Zero,
           ~Present(k) \/ (looks' = looks /\ Stale(k))
    PROVE  Attended(n)'
<1>0. /\ n \in Node
      /\ api' = api /\ cache' = cache /\ watch' = watch /\ held' = held /\ pc' = pc
      /\ Undisturbed' = Undisturbed /\ Present(n)' = Present(n)
  BY NodeAssumption DEF vars, Undisturbed, Present
<1>1. CASE k # n
  <2>1. Undiverted(n)
    BY <1>0, <1>1 DEF Undiverted
  <2> QED BY <1>0, <2>1, AttendedAside
<1>2. CASE k = n /\ ~Present(n)
  BY <1>0, <1>2, AttendedQuiet DEF Live
<1>3. CASE k = n /\ looks' = looks /\ Stale(n)
  <2>1. Kept(n) => Kept(n)'
    BY <1>0, <1>3 DEF Kept
  <2> QED BY <1>0, <1>3, <2>1, AttendedQuiet DEF Live
<1> QED BY <1>1, <1>2, <1>3

(* A goroutine takes key k, and edits another node's report.               *)
LEMMA AttendedElsewhere ==
    ASSUME Onwards, NEW n \in Managed, Attended(n), NEW f \in Looker \cup Checker,
           NEW k \in Node, NEW r, NEW l, WriterBegins(f, k, r, l), k # n,
           looks \ {k} \subseteq looks', due \ {k} \subseteq due', UNCHANGED timer
    PROVE  Attended(n)'
<1>0. /\ n \in Node /\ f \in Thread /\ cache \in [Node -> Stored] /\ TypeInv
      /\ held \in [Thread -> Hold] /\ pc \in [Thread -> Label]
  BY NodeAssumption, Goroutines DEF Onwards, WatchStep, TypeInv, TypeOK, StoreTypeOK, Stored
<1>1. /\ held' = [held EXCEPT ![f] = Lookup(k)] /\ cache' = [cache EXCEPT ![k] = r]
      /\ pc' = [pc EXCEPT ![f] = l] /\ UNCHANGED <<api, watch>> /\ pc[f] = "idle"
  BY DEF WriterBegins, At
<1>2. held[f].node # n /\ held'[f].node # n
  <2>1. held[f] = Nothing /\ Nothing.node # n
    BY <1>0, <1>1, Freed DEF Onwards, AtRest
  <2>2. held'[f] = Lookup(k) /\ Lookup(k).node = k
    BY <1>0, <1>1 DEF Lookup
  <2> QED BY <2>1, <2>2
<1>3. \A g \in Looker \cup Checker : g # f => held'[g] = held[g] /\ pc'[g] = pc[g]
  BY <1>0, <1>1, Goroutines
<1>4. Undiverted(n)
  <2> SUFFICES ASSUME NEW g \in Looker \cup Checker
               PROVE  \/ held'[g] = held[g] /\ pc'[g] = pc[g]
                      \/ held[g].node # n /\ held'[g].node # n
    BY DEF Undiverted
  <2> QED BY <1>2, <1>3
<1>5. cache'[n] = cache[n]
  BY <1>0, <1>1
<1> QED BY <1>0, <1>1, <1>4, <1>5, AttendedAside DEF Onwards, WatchStep

(* What holds when a goroutine has begun with n.                           *)
LEMMA Begun ==
    ASSUME Onwards, NEW n \in Managed, Attended(n), NEW f \in Looker \cup Checker,
           NEW r, NEW l, WriterBegins(f, n, r, l)
    PROVE  /\ Kept(n)' /\ cache'[n] = r /\ api'[n] = api[n] /\ watch'[n] = watch[n]
           /\ ~Live(f, n) /\ (watch[n] = <<>> => Live(f, n)') /\ pc'[f] = l
           /\ \A g \in Looker \cup Checker : g # f =>
                 (Live(g, n)' <=> Live(g, n)) /\ pc'[g] = pc[g]
           /\ \A g \in Looker \cup Checker : Live(g, n) => watch[n] = <<>>
<1>0. /\ n \in Node /\ f \in Thread /\ cache \in [Node -> Stored] /\ TypeInv /\ SafetyInv
      /\ held \in [Thread -> Hold] /\ pc \in [Thread -> Label]
  BY NodeAssumption, Goroutines DEF Onwards, WatchStep, TypeInv, TypeOK, StoreTypeOK, Stored
<1>1. /\ held' = [held EXCEPT ![f] = Lookup(n)] /\ cache' = [cache EXCEPT ![n] = r]
      /\ pc' = [pc EXCEPT ![f] = l] /\ UNCHANGED <<api, watch>> /\ pc[f] = "idle"
  BY DEF WriterBegins, At
<1>2. held'[f] = Lookup(n) /\ Lookup(n).node = n
  BY <1>0, <1>1 DEF Lookup
<1>3. ~Live(f, n)
  <2>1. held[f] = Nothing /\ Nothing.node # n
    BY <1>0, <1>1, Freed DEF Onwards, AtRest
  <2> QED BY <2>1 DEF Live
<1>4. watch[n] = <<>> => Live(f, n)'
  BY <1>2 DEF Live, Lookup
<1>5. \A g \in Looker \cup Checker : g # f =>
         (Live(g, n)' <=> Live(g, n)) /\ pc'[g] = pc[g]
  BY <1>0, <1>1, Goroutines DEF Live
<1>6. \A g \in Looker \cup Checker : Live(g, n) => watch[n] = <<>>
  BY <1>0, Goroutines DEF Live, SafetyInv, VersionsInOrder
<1>7. Kept(n)'
  BY <1>2 DEF Kept
<1>8. cache'[n] = r /\ pc'[f] = l
  BY <1>0, <1>1
<1> QED BY <1>1, <1>3, <1>4, <1>5, <1>6, <1>7, <1>8

(* The first look writes the status: a report it makes suspicious is its   *)
(* own to save.                                                            *)
LEMMA AttendedRecorded ==
    ASSUME Onwards, NEW n \in Managed, Attended(n), NEW f \in Looker,
           StatusRecorded(f, n)
    PROVE  Attended(n)'
<1> DEFINE r == [cache[n] EXCEPT !.status = StatusOf(n)]
<1>0. n \in Node /\ TypeInv /\ f \notin Checker
  BY NodeAssumption DEF Onwards, WatchStep
<1>1. cache[n] # NoReport /\ WriterBegins(f, n, r, "commit")
  BY DEF StatusRecorded
<1>2. r # NoReport /\ (Idle(r) <=> Idle(cache[n]))
  <2>1. cache[n] \in Report
    BY <1>0, <1>1 DEF TypeInv, TypeOK, StoreTypeOK
  <2>2. StatusOf(n) \in NodeStatus
    BY <1>0 DEF StatusOf, NodeStatus, TypeInv, TypeOK
  <2>3. r \in Report /\ r.phase = cache[n].phase /\ r.action = cache[n].action
    BY <2>1, <2>2 DEF Report
  <2> QED BY <2>3, NoReportAssumption DEF Idle
<1> HIDE DEF r
<1>3. /\ Kept(n)' /\ cache'[n] = r /\ api'[n] = api[n] /\ watch'[n] = watch[n]
      /\ (watch[n] = <<>> => Live(f, n)')
      /\ \A g \in Looker \cup Checker : g # f =>
            (Live(g, n)' <=> Live(g, n)) /\ pc'[g] = pc[g]
      /\ \A g \in Looker \cup Checker : Live(g, n) => watch[n] = <<>>
  BY <1>1, Begun
<1>4. Agreed(n)'
  BY <1>1, <1>2, <1>3 DEF Attended, Agreed
<1>5. Requested(n)'
  BY <1>0, <1>2, <1>3 DEF Attended, Requested
<1>6. Noted(n)'
  BY <1>0, <1>3 DEF Noted
<1> QED BY <1>3, <1>4, <1>5, <1>6 DEF Attended, Awaited

(* The second look asks for a replacement ...                              *)
LEMMA AttendedRequest ==
    ASSUME Onwards, NEW n \in Managed, Attended(n), NEW f \in Checker,
           ReplaceRequested(f, n)
    PROVE  Attended(n)'
<1> DEFINE s == IF node[n].ready = "Unknown" THEN "Unknown" ELSE cache[n].status
           r == [cache[n] EXCEPT !.action = "replace", !.status = s]
<1>0. n \in Node /\ TypeInv
  BY NodeAssumption DEF Onwards, WatchStep
<1>1. cache[n] # NoReport /\ WriterBegins(f, n, r, "commit")
  BY DEF ReplaceRequested
<1>2. r # NoReport /\ ~Idle(r)
  <2>1. cache[n] \in Report
    BY <1>0, <1>1 DEF TypeInv, TypeOK, StoreTypeOK
  <2>2. r \in Report /\ r.action = "replace"
    BY <2>1 DEF Report, NodeStatus, Action
  <2> QED BY <2>2, NoReportAssumption DEF Idle
<1> HIDE DEF r
<1>3. /\ Kept(n)' /\ cache'[n] = r /\ api'[n] = api[n] /\ watch'[n] = watch[n]
      /\ (watch[n] = <<>> => Live(f, n)')
  BY <1>1, Begun
<1>4. Agreed(n)'
  BY <1>1, <1>2, <1>3 DEF Attended, Agreed
<1>5. Requested(n)'
  BY <1>3 DEF Requested
<1>6. Noted(n)'
  BY <1>2, <1>3 DEF Noted, Suspicious
<1> QED BY <1>3, <1>4, <1>5, <1>6 DEF Attended, Awaited

(* ... or finds the node recovered, and the report with a problem, ...     *)
LEMMA AttendedRecovered ==
    ASSUME Onwards, NEW n \in Managed, Attended(n), NEW f \in Checker,
           IsReady(n), cache[n] # NoReport, cache[n].problems, StatusRecorded(f, n)
    PROVE  Attended(n)'
<1> DEFINE r == [cache[n] EXCEPT !.status = StatusOf(n)]
<1>0. n \in Node /\ TypeInv
  BY NodeAssumption DEF Onwards, WatchStep
<1>1. WriterBegins(f, n, r, "commit")
  BY DEF StatusRecorded
<1>2. r # NoReport /\ (Idle(r) <=> Idle(cache[n])) /\ ~Suspicious(r)
  <2>1. cache[n] \in Report
    BY <1>0 DEF TypeInv, TypeOK, StoreTypeOK
  <2>2. StatusOf(n) = "Ready"
    BY DEF StatusOf, IsReady
  <2>3. /\ r \in Report /\ r.phase = cache[n].phase /\ r.action = cache[n].action
        /\ r.status = "Ready" /\ r.problems = cache[n].problems
    BY <2>1, <2>2 DEF Report, NodeStatus
  <2> QED BY <2>3, NoReportAssumption DEF Idle, Suspicious, Suspects
<1> HIDE DEF r
<1>3. /\ Kept(n)' /\ cache'[n] = r /\ api'[n] = api[n] /\ watch'[n] = watch[n]
      /\ ~Live(f, n)
      /\ \A g \in Looker \cup Checker : g # f =>
            (Live(g, n)' <=> Live(g, n)) /\ pc'[g] = pc[g]
  BY <1>1, Begun
<1>4. Agreed(n)'
  BY <1>2, <1>3 DEF Attended, Agreed
<1>5. Requested(n)'
  BY <1>2, <1>3 DEF Attended, Requested
<1>6. Noted(n)'
  BY <1>2, <1>3 DEF Noted
<1> QED BY <1>3, <1>4, <1>5, <1>6 DEF Attended, Awaited

(* ... or not worth keeping.                                               *)
LEMMA AttendedWithdrawal ==
    ASSUME Onwards, NEW n \in Managed, Attended(n), NEW f \in Checker,
           ReportWithdrawn(f, n)
    PROVE  Attended(n)'
<1>1. WriterBegins(f, n, cache[n], "remove")
  BY DEF ReportWithdrawn
<1>2. f \notin Looker
  BY NodeAssumption
<1>3. /\ Kept(n)' /\ cache'[n] = cache[n] /\ api'[n] = api[n] /\ watch'[n] = watch[n]
      /\ ~Live(f, n) /\ pc'[f] = "remove"
      /\ \A g \in Looker \cup Checker : g # f =>
            (Live(g, n)' <=> Live(g, n)) /\ pc'[g] = pc[g]
  BY <1>1, Begun
<1>4. Agreed(n)'
  BY <1>3 DEF Attended, Agreed
<1>5. Requested(n)'
  BY <1>3 DEF Attended, Requested
<1>6. Noted(n)'
  BY <1>2, <1>3 DEF Attended, Noted
<1> QED BY <1>3, <1>4, <1>5, <1>6 DEF Attended, Awaited

(* What a goroutine holds when it makes its last call.                     *)
LEMMA AtCall ==
    ASSUME Onwards, NEW n \in Managed, NEW f \in Looker \cup Checker,
           WriterSaves(f) \/ WriterDeletes(f)
    PROVE  /\ held[f].node \in Node /\ UNCHANGED <<cache, node, budget>>
           /\ Mine(f) \in Stored
           /\ Released(f)[f].node # n
           /\ \A g \in Looker \cup Checker : g # f =>
                 Released(f)[g] = held[g] /\ pc'[g] = pc[g]
<1>0. n \in Node /\ f \in Thread /\ f \in Writer /\ TypeInv
  BY NodeAssumption, Goroutines DEF Onwards, WatchStep
<1>1. held[f].node \in Node
  BY <1>0, HeldIsNode
<1>2. Mine(f) \in Stored
  BY <1>0, <1>1 DEF Mine, TypeInv, TypeOK, StoreTypeOK, Stored
<1>3. \A g \in Looker \cup Checker : g # f => pc'[g] = pc[g]
  BY <1>0, Goroutines DEF WriterSaves, WriterDeletes, TypeInv, TypeOK
<1>4. /\ Released(f)[f].node # n
      /\ \A g \in Looker \cup Checker : g # f => Released(f)[g] = held[g]
  BY <1>0, Freed, Goroutines
<1> QED BY <1>1, <1>2, <1>3, <1>4 DEF WriterSaves, WriterDeletes

(* The Update of a goroutine: it succeeds ...                              *)
LEMMA AttendedUpdated ==
    ASSUME Onwards, NEW n \in Managed, Attended(n), NEW f \in Looker \cup Checker,
           WriterSaves(f), Updatable(f), UNCHANGED <<looks, due>>,
           \A m \in Node : timer[m] # Zero => timer'[m] # Zero,
           f \in Looker => timer'[held[f].node] # Zero
    PROVE  Attended(n)'
<1>0. /\ n \in Node /\ TypeInv /\ TypeInv' /\ SafetyInv /\ SafetyInv'
  BY NodeAssumption DEF Onwards, WatchStep
<1>1. /\ held[f].node \in Node /\ UNCHANGED <<cache, node, budget>>
      /\ Mine(f) \in Stored /\ Released(f)[f].node # n
      /\ \A g \in Looker \cup Checker : g # f =>
            Released(f)[g] = held[g] /\ pc'[g] = pc[g]
  BY AtCall
<1>2. Persist(held[f].node, Mine(f), Released(f)) /\ pc[f] = "commit"
  BY DEF WriterSaves, At
<1>3. ASSUME held[f].node = n
      PROVE  Awaited(n)'
  <2>1. CASE f \in Looker
    BY <1>3, <2>1 DEF Awaited, Kept
  <2>2. CASE f \in Checker
    <3> SUFFICES ASSUME Suspicious(api'[n])
                 PROVE  Kept(n)'
      BY DEF Awaited
    <3>1. api'[n] = cache[n]
      BY <1>0, <1>2, <1>3, StoredNow DEF Mine
    <3>2. Live(f, n)
      BY <1>0, <1>3, Goroutines DEF Updatable, Live, TypeInv, TypeOK, StoreTypeOK, Hold
    <3>3. PICK g \in Looker : Live(g, n)
      BY <1>2, <2>2, <3>1, <3>2 DEF Attended, Noted
    <3>4. g # f
      BY <2>2, NodeAssumption
    <3>5. held'[g].node = n
      BY <1>1, <1>2, <3>3, <3>4, Goroutines DEF Persist, Outdated, Live
    <3> QED BY <3>5 DEF Kept
  <2> QED BY <2>1, <2>2
<1>4. ASSUME held[f].node # n, NEW g \in Looker \cup Checker
      PROVE  \/ Released(f)[g] = held[g] /\ pc'[g] = pc[g]
             \/ held[g].node # n /\ Released(f)[g].node # n
  BY <1>1, <1>4
<1>5. Undisturbed' = Undisturbed /\ Present(n)' = Present(n)
  BY <1>1 DEF Undisturbed, Present
<1> QED BY <1>0, <1>1, <1>2, <1>3, <1>4, <1>5, AttendedStore

(* ... or meets a conflict, and the key comes back.                        *)
LEMMA AttendedConflict ==
    ASSUME Onwards, NEW n \in Managed, Attended(n), NEW f \in Looker \cup Checker,
           WriterSaves(f), ~Updatable(f), looks \subseteq looks', due \subseteq due',
           \A m \in Node : timer[m] # Zero => timer'[m] # Zero,
           \/ held[f].node \in looks'
           \/ timer'[held[f].node] # Zero
    PROVE  Attended(n)'
<1>0. n \in Node
  BY NodeAssumption
<1>1. /\ held[f].node \in Node /\ UNCHANGED <<cache, node, budget>>
      /\ Released(f)[f].node # n
      /\ \A g \in Looker \cup Checker : g # f =>
            Released(f)[g] = held[g] /\ pc'[g] = pc[g]
  BY AtCall
<1>2. held' = Released(f) /\ UNCHANGED <<api, watch>>
  BY DEF WriterSaves
<1>3. Undisturbed' = Undisturbed /\ Present(n)' = Present(n)
  BY <1>1 DEF Undisturbed, Present
<1>4. CASE held[f].node # n
  <2>1. Undiverted(n)
    <3> SUFFICES ASSUME NEW g \in Looker \cup Checker
                 PROVE  \/ held'[g] = held[g] /\ pc'[g] = pc[g]
                        \/ held[g].node # n /\ held'[g].node # n
      BY <1>0 DEF Undiverted
    <3> QED BY <1>1, <1>2, <1>4
  <2> QED BY <1>0, <1>1, <1>2, <1>3, <2>1, AttendedAside
<1>5. CASE held[f].node = n
  <2>1. ~Live(f, n) /\ ~Live(f, n)'
    BY <1>1, <1>2 DEF Updatable, Live
  <2>2. \A g \in Looker \cup Checker :
           (Live(g, n)' <=> Live(g, n)) /\ (Live(g, n) => pc'[g] = pc[g])
    BY <1>1, <1>2, <2>1 DEF Live
  <2>3. Kept(n)'
    BY <1>5 DEF Kept
  <2> QED BY <1>0, <1>1, <1>2, <1>3, <2>2, <2>3, AttendedQuiet
<1> QED BY <1>4, <1>5

(* Nobody is waited for where there is no report.                          *)
LEMMA AttendedNobody ==
    ASSUME NEW n \in Managed, Agreed(n)', api'[n] = NoReport, VersionsInOrder(n)'
    PROVE  Attended(n)'
<1>1. \A g \in Checker : Live(g, n)' => watch'[n] = <<>>
  BY Goroutines DEF VersionsInOrder, Live
<1>2. watch'[n] = <<>> => ~Suspicious(cache'[n])
  BY DEF Agreed, Suspicious
<1>3. Noted(n)'
  BY <1>1, <1>2 DEF Noted, Suspicious
<1>4. Requested(n)' /\ Awaited(n)'
  BY DEF Requested, Awaited, Suspicious
<1> QED BY <1>3, <1>4 DEF Attended

LEMMA AttendedDeleted ==
    ASSUME Onwards, NEW n \in Managed, Attended(n), NEW f \in Checker,
           WriterDeletes(f), looks' = looks, due' = due,
           \A m \in Node : timer[m] # Zero => timer'[m] # Zero
    PROVE  Attended(n)'
<1>0. n \in Node /\ TypeInv /\ TypeInv' /\ SafetyInv /\ SafetyInv'
  BY NodeAssumption DEF Onwards, WatchStep
<1>1. /\ held[f].node \in Node /\ UNCHANGED <<cache, node, budget>>
      /\ Released(f)[f].node # n
      /\ \A g \in Looker \cup Checker : g # f =>
            Released(f)[g] = held[g] /\ pc'[g] = pc[g]
  BY AtCall
<1>2. Remove(held[f].node, Released(f))
  BY DEF WriterDeletes
<1>3. CASE held[f].node = n /\ api[n] = NoReport
  <2>1. UNCHANGED <<api, watch>>
    BY <1>2, <1>3 DEF Remove
  <2>2. Agreed(n)'
    BY <1>1, <2>1 DEF Attended, Agreed
  <2> QED BY <1>0, <1>3, <2>1, <2>2, AttendedNobody DEF SafetyInv
<1>4. CASE held[f].node = n /\ api[n] # NoReport
  BY <1>0, <1>1, <1>2, <1>4, AttendedRemove
<1>5. CASE held[f].node # n
  <2>1. \A g \in Looker \cup Checker :
           \/ Released(f)[g] = held[g] /\ pc'[g] = pc[g]
           \/ held[g].node # n /\ Released(f)[g].node # n
    BY <1>1, <1>5
  <2>2. Undisturbed' = Undisturbed /\ Present(n)' = Present(n)
    BY <1>1 DEF Undisturbed, Present
  <2> QED BY <1>0, <1>1, <1>2, <2>1, <2>2, AttendedRemove
<1> QED BY <1>3, <1>4, <1>5

LEMMA AttendedLooks ==
    ASSUME Onwards, NEW n \in Managed, Attended(n), NEW f \in Looker,
           LookSaves(f) \/ \E k \in Node : LookStep(f, k)
    PROVE  Attended(n)'
<1>0. n \in Node /\ TypeInv /\ TypeInv' /\ SafetyInv /\ SafetyInv' /\ QueuesOK
  BY NodeAssumption DEF Onwards, WatchStep
<1>1. CASE LookSaves(f)
  <2>1. WriterSaves(f) /\ held[f].node \in Node
    BY <1>1, AtCall DEF LookSaves
  <2>2. CASE Updatable(f)
    <3>1. timer' = Sooner(held[f].node, GraceTime) /\ UNCHANGED <<looks, due>>
      BY <1>1, <2>2 DEF LookSaves, AddAfter
    <3> QED BY <1>0, <2>1, <2>2, <3>1, DelaysFit, SoonerSets, AttendedUpdated
  <2>3. CASE ~Updatable(f)
    <3>1. looks' = looks \cup {held[f].node} /\ UNCHANGED <<timer, due>>
      BY <1>1, <2>3 DEF LookSaves
    <3> QED BY <2>1, <2>3, <3>1, AttendedConflict
  <2> QED BY <2>2, <2>3
<1>2. ASSUME NEW k \in Node, LookGone(f, k)
      PROVE  Attended(n)'
  <2>1. UNCHANGED <<vars, timer, due>> /\ ~Present(k) /\ looks' = looks \ {k}
    BY <1>2 DEF LookGone, Look
  <2> QED BY <2>1, AttendedDropped
<1>3. ASSUME NEW k \in Node, LookCreates(f, k)
      PROVE  Attended(n)'
  <2>1. /\ NodeCreates(k) /\ timer' = Sooner(k, GraceTime) /\ UNCHANGED due
        /\ looks' = looks \ {k}
    BY <1>3 DEF LookCreates, Look, AddAfter
  <2>2. PICK r \in Stored : Persist(k, r, held) /\ UNCHANGED <<cache, pc>>
    <3>1. Opened("NotReady", FALSE, 0) \in Report
      BY StoreAssumption DEF Opened, Report, NodeStatus, Action, Phase, Stamp
    <3> QED BY <2>1, <3>1 DEF NodeCreates, Create, Stored
  <2>3. /\ timer'[k] # Zero
        /\ \A m \in Node : timer[m] # Zero => timer'[m] # Zero
    BY <1>0, <2>1, DelaysFit, SoonerSets
  <2>4. k = n => Awaited(n)'
    BY <2>3 DEF Awaited, Kept
  <2>5. Undisturbed' /\ Present(n)' /\ api[n] # NoReport => Undisturbed /\ Present(n)
    BY <1>0 DEF Onwards, WatchStep
  <2> QED BY <1>0, <2>1, <2>2, <2>3, <2>4, <2>5, AttendedStore
<1>4. ASSUME NEW k \in Node, LookRecords(f, k)
      PROVE  Attended(n)'
  <2>1. StatusRecorded(f, k) /\ looks' = looks \ {k} /\ UNCHANGED <<timer, due>>
    BY <1>4 DEF LookRecords, Look
  <2>2. CASE k = n
    BY <2>1, <2>2, AttendedRecorded
  <2>3. CASE k # n
    BY <2>1, <2>3, AttendedElsewhere DEF StatusRecorded
  <2> QED BY <2>2, <2>3
<1> QED BY <1>1, <1>2, <1>3, <1>4 DEF LookStep

LEMMA AttendedChecks ==
    ASSUME Onwards, NEW n \in Managed, Attended(n), NEW f \in Checker,
           CheckSaves(f) \/ CheckDeletes(f) \/ \E k \in Node : CheckStep(f, k)
    PROVE  Attended(n)'
<1>0. n \in Node /\ QueuesOK /\ f \notin Looker
  BY NodeAssumption DEF Onwards
<1>1. CASE CheckSaves(f)
  <2>1. WriterSaves(f) /\ held[f].node \in Node /\ looks' = looks
    BY <1>1, AtCall DEF CheckSaves
  <2>2. CASE Updatable(f)
    BY <1>0, <1>1, <2>1, <2>2, AttendedUpdated DEF CheckSaves
  <2>3. CASE ~Updatable(f)
    <3>1. timer' = Sooner(held[f].node, RequeueDelay(held[f].node)) /\ UNCHANGED due
      BY <1>1, <2>3 DEF CheckSaves, AddAfter
    <3>2. /\ timer'[held[f].node] # Zero
          /\ \A m \in Node : timer[m] # Zero => timer'[m] # Zero
      BY <1>0, <2>1, <3>1, DelaysFit, SoonerSets
    <3> QED BY <2>1, <2>3, <3>1, <3>2, AttendedConflict
  <2> QED BY <2>2, <2>3
<1>2. CASE CheckDeletes(f)
  <2>1. WriterDeletes(f) /\ held[f].node \in Node /\ looks' = looks
    BY <1>2, AtCall DEF CheckDeletes
  <2>2. due' = due /\ \A m \in Node : timer[m] # Zero => timer'[m] # Zero
    <3>1. CASE api[held[f].node] # NoReport
      BY <1>2, <3>1 DEF CheckDeletes
    <3>2. CASE api[held[f].node] = NoReport
      <4>1. /\ timer' = Sooner(held[f].node, RequeueDelay(held[f].node))
            /\ UNCHANGED due
        BY <1>2, <3>2 DEF CheckDeletes, AddAfter
      <4> QED BY <1>0, <2>1, <4>1, DelaysFit, SoonerSets
    <3> QED BY <3>1, <3>2
  <2> QED BY <2>1, <2>2, AttendedDeleted
<1>3. ASSUME NEW k \in Node, CheckDrops(f, k)
      PROVE  Attended(n)'
  <2>1. UNCHANGED <<vars, looks, timer>> /\ due' = due \ {k}
    BY <1>3 DEF CheckDrops, Check
  <2>2. Stale(k)
    BY <1>3 DEF CheckDrops, Stale, Missed, Idle
  <2> QED BY <2>1, <2>2, AttendedDropped
<1>4. ASSUME NEW k \in Node, CheckNothing(f, k)
      PROVE  Attended(n)'
  <2>1. /\ UNCHANGED <<vars, looks>> /\ due' = due \ {k} /\ ~Present(k)
        /\ timer' = Sooner(k, RequeueDelay(k))
    BY <1>4 DEF CheckNothing, Check
  <2> QED BY <1>0, <2>1, DelaysFit, SoonerSets, AttendedDropped
<1>5. ASSUME NEW k \in Node,
             CheckRequests(f, k) \/ CheckReady(f, k) \/ CheckWithdraws(f, k)
      PROVE  Attended(n)'
  <2>1. due' = due \ {k} /\ UNCHANGED <<looks, timer>>
    BY <1>5 DEF CheckRequests, CheckReady, CheckWithdraws, Check
  <2>2. CASE k = n
    BY <1>5, <2>2, AttendedRequest, AttendedRecovered, AttendedWithdrawal
       DEF CheckRequests, CheckReady, CheckWithdraws
  <2>3. CASE k # n
    <3>1. \E r, l : WriterBegins(f, k, r, l)
      BY <1>5 DEF CheckRequests, CheckReady, CheckWithdraws, ReplaceRequested,
                  StatusRecorded, ReportWithdrawn
    <3> QED BY <2>1, <2>3, <3>1, AttendedElsewhere
  <2> QED BY <2>2, <2>3
<1> QED BY <1>1, <1>2, <1>3, <1>4, <1>5 DEF CheckStep

(* The world around it.                                                    *)
LEMMA AttendedChange ==
    ASSUME Onwards, NEW n \in Managed, Attended(n), NEW k \in Node, NodeChanges(k)
    PROVE  Attended(n)'
<1>1. n \in Node /\ UNCHANGED <<api, cache, watch, held, pc>>
  BY NodeAssumption
     DEF NodeChanges, Environment, Outage, Recover, GoesDown, ComesUp, Launch, ScaleOut,
         Joined, Vanish, PodsScheduled, TaintEvicts, World
<1>2. UNCHANGED <<timer, due>> /\ looks \subseteq looks'
  BY DEF NodeChanges
<1>3. Undiverted(n)
  BY <1>1, <1>2 DEF Undiverted
<1> QED BY <1>1, <1>3, AttendedAside DEF Onwards, WatchStep

(* Time passes when everything has been delivered: a timer that runs out   *)
(* makes its key due, and the look that follows finds what is suspicious.  *)
LEMMA AttendedTick ==
    ASSUME ~Lagging, Onwards, NEW n \in Managed, Attended(n), NodeTick
    PROVE  Attended(n)'
<1>0. n \in Node /\ TypeInv /\ QueuesOK /\ Tick
  BY NodeAssumption DEF Onwards, WatchStep, NodeTick
<1>1. watch[n] = <<>> /\ looks' = looks /\ due \subseteq due'
  BY <1>0 DEF NodeTick
<1>2. UNCHANGED <<held, pc, budget>>
  BY <1>0 DEF Tick, AgeReports
<1>3. /\ api[n] \in Stored /\ cache[n] \in Stored
      /\ api'[n] = Aged(api[n]) /\ cache'[n] = Aged(cache[n])
      /\ Len(watch'[n]) = 0
  <2>1. Len(watch[n]) = 0
    BY <1>1, EmptySeq
  <2> QED BY <1>0, <2>1, TickReports
<1>4. cache[n] = NoReport <=> api[n] = NoReport
  BY <1>1 DEF Attended, Agreed
<1>5. Agreed(n)'
  BY <1>3, <1>4, AgedSame DEF Agreed
<1>6. Requested(n)'
  <2> SUFFICES ASSUME api'[n] # NoReport, Idle(api'[n]), ~Idle(cache'[n])
               PROVE  \E f \in Checker : Live(f, n)'
    BY DEF Requested
  <2>1. api[n] # NoReport /\ Idle(api[n]) /\ ~Idle(cache[n])
    BY <1>3, <1>4, AgedSame
  <2> QED BY <1>1, <1>2, <2>1 DEF Attended, Requested, Live
<1>7. Noted(n)'
  <2>1. /\ Suspicious(cache'[n]) <=> Suspicious(cache[n])
        /\ Suspicious(api'[n]) <=> Suspicious(api[n])
    BY <1>3, AgedSame
  <2> QED BY <1>1, <1>2, <2>1 DEF Attended, Noted, Live
<1>8. Awaited(n)'
  <2> SUFFICES ASSUME Undisturbed', Present(n)', Suspicious(api'[n])
               PROVE  Kept(n)' \/ (n \in due' /\ ~Stale(n)')
    BY DEF Awaited
  <2>1. Suspicious(api[n])
    BY <1>3, AgedSame
  <2>2. Undisturbed /\ Present(n)
    BY <1>0, <2>1 DEF Onwards, WatchStep, Suspicious
  <2>3. Kept(n) \/ n \in due
    BY <2>1, <2>2 DEF Attended, Awaited
  <2>4. cache[n] # NoReport
    BY <1>4, <2>1 DEF Suspicious
  <2>5. CASE n \in looks \/ \E f \in Looker \cup Checker : held[f].node = n
    BY <1>1, <1>2, <2>5 DEF Kept
  <2>6. CASE ~Idle(cache[n])
    <3>1. PICK f \in Checker : Live(f, n)
      BY <1>1, <2>1, <2>6 DEF Attended, Requested, Suspicious
    <3> QED BY <1>2, <3>1 DEF Live, Kept
  <2>7. CASE timer[n] \notin {Zero, 1}
    <3>1. timer[n] \in Nat /\ timer[n] # 1 /\ timer[n] # 0
      BY <1>0, <2>7, NodeAssumption DEF QueuesOK
    <3>2. timer'[n] = timer[n] - 1
      BY <1>0, <2>7 DEF NodeTick
    <3>3. timer'[n] # Zero
      BY <3>1, <3>2 DEF Zero
    <3> QED BY <3>3 DEF Kept
  <2>8. CASE Idle(cache[n]) /\ (timer[n] = 1 \/ n \in due)
    <3>1. n \in due'
      BY <1>0, <2>8 DEF NodeTick
    <3>2. ~Missed(cache[n]) /\ ~Missed(cache'[n])
      BY <1>3, <2>4, <2>8, AgedSame DEF Missed
    <3> QED BY <1>3, <3>1, <3>2 DEF Stale
  <2> QED BY <2>3, <2>5, <2>6, <2>7, <2>8 DEF Kept
<1> QED BY <1>5, <1>6, <1>7, <1>8 DEF Attended

(* A successor has seen what there is, and nothing is promised of it.      *)
LEMMA AttendedRestart ==
    ASSUME Onwards, budget["crashes"] <= Budget["crashes"],
           NEW n \in Managed, Attended(n), NodeRestart
    PROVE  Attended(n)'
<1>0. n \in Node /\ TypeInv /\ \A w \in Worker : ~SelfPod(w)
  BY NodeAssumption
     DEF Onwards, WatchStep, UnruledInv, SelfPod, SelfReplacing, At
<1>1. Crash
  BY <1>0 DEF NodeRestart
<1>2. /\ api' = api /\ cache' = api /\ watch'[n] = <<>>
      /\ \A t \in Thread : held'[t] = Nothing
  BY <1>0, <1>1 DEF Crash, Restart, Relist
<1>3. \A f \in Checker : ~Live(f, n)'
  BY <1>0, <1>2, Goroutines, Freed DEF Live
<1>4. ~Undisturbed'
  <2>1. /\ budget["crashes"] \in Nat /\ Budget["crashes"] \in Nat
        /\ budget'["crashes"] = budget["crashes"] - 1
    BY <1>0, <1>1, ControllerAssumption
       DEF Crash, Spend, TypeInv, TypeOK, Disturbance
  <2> QED BY <2>1 DEF Undisturbed
<1> QED BY <1>2, <1>3, <1>4 DEF Attended, Agreed, Requested, Noted, Awaited

(* A goroutine between two looks goes on holding nothing.                  *)
LEMMA NothingStays ==
    ASSUME TypeInv, NEW f \in Thread, NEW h, NEW k \in Node, h[f] = Nothing
    PROVE  Outdated(h, k)[f] = Nothing
BY StoreAssumption DEF Outdated, Nothing

(* t acts, and leaves the goroutines of NodeController alone.              *)
LEMMA AtRestAside ==
    ASSUME TypeInv, AtRest, NEW t \in Thread, NEW h,
           \/ held' = h
           \/ \E k \in Node : held' = Outdated(h, k),
           \A s \in Thread \ {t} : h[s] = held[s] /\ pc'[s] = pc[s],
           t \in Looker \cup Checker => pc'[t] # "idle" \/ h[t] = Nothing
    PROVE  AtRest'
<1> SUFFICES ASSUME NEW f \in Looker \cup Checker, pc'[f] = "idle"
             PROVE  held'[f] = Nothing
  BY DEF AtRest
<1>1. f \in Thread
  BY Goroutines
<1>2. h[f] = Nothing
  BY <1>1 DEF AtRest
<1> QED BY <1>1, <1>2, NothingStays

LEMMA AtRestCall ==
    ASSUME TypeInv, AtRest, NEW t \in Thread, NEW l, pc' = [pc EXCEPT ![t] = l],
           \/ held' = held /\ t \notin Looker \cup Checker
           \/ held' = Released(t)
           \/ \E k \in Node : held' = [held EXCEPT ![t] = Lookup(k)] /\ l # "idle"
           \/ \E k \in Node, r \in Stored :
                 \/ Persist(k, r, Released(t)) \/ Remove(k, Released(t))
                 \/ Remove(k, held) /\ t \notin Looker \cup Checker
    PROVE  AtRest'
<1>1. held \in [Thread -> Hold] /\ pc \in [Thread -> Label]
  BY DEF TypeInv, TypeOK, StoreTypeOK
<1>2. pc'[t] = l /\ \A s \in Thread \ {t} : pc'[s] = pc[s]
  BY <1>1
<1>3. Released(t)[t] = Nothing /\ \A s \in Thread \ {t} : Released(t)[s] = held[s]
  BY <1>1 DEF Released
<1>4. CASE held' = held /\ t \notin Looker \cup Checker
  BY <1>2, <1>4, AtRestAside
<1>5. CASE held' = Released(t)
  BY <1>2, <1>3, <1>5, AtRestAside
<1>6. ASSUME NEW k \in Node, held' = [held EXCEPT ![t] = Lookup(k)], l # "idle"
      PROVE  AtRest'
  <2>1. \A s \in Thread \ {t} : held'[s] = held[s]
    BY <1>1, <1>6
  <2> SUFFICES ASSUME NEW f \in Looker \cup Checker, pc'[f] = "idle"
               PROVE  held'[f] = Nothing
    BY DEF AtRest
  <2>2. f \in Thread \ {t}
    BY Goroutines, <1>2, <1>6
  <2> QED BY <1>2, <2>1, <2>2 DEF AtRest
<1>7. ASSUME NEW k \in Node, NEW r \in Stored, Persist(k, r, Released(t))
      PROVE  AtRest'
  <2>1. held' = Outdated(Released(t), k)
    BY <1>7 DEF Persist
  <2> QED BY <1>2, <1>3, <2>1, AtRestAside
<1>8. ASSUME NEW k \in Node, Remove(k, Released(t))
      PROVE  AtRest'
  <2>1. held' \in {Released(t), Outdated(Released(t), k)}
    BY <1>8 DEF Remove, Persist
  <2> QED BY <1>2, <1>3, <2>1, AtRestAside
<1>9. ASSUME NEW k \in Node, Remove(k, held), t \notin Looker \cup Checker
      PROVE  AtRest'
  <2>1. held' \in {held, Outdated(held, k)}
    BY <1>9 DEF Remove, Persist
  <2> QED BY <1>2, <1>9, <2>1, AtRestAside
<1> QED BY <1>4, <1>5, <1>6, <1>7, <1>8, <1>9

LEMMA AtRestNext ==
    ASSUME TypeInv, AtRest, [Next]_vars
    PROVE  AtRest'
<1> USE DEF At
<1>0. /\ held \in [Thread -> Hold] /\ pc \in [Thread -> Label] /\ Cleaner \in Thread
      /\ Cleaner \notin Looker \cup Checker
      /\ \A w \in Worker : w \in Thread /\ w \notin Looker \cup Checker
      /\ \A f \in Writer : f \in Thread
      /\ \A n \in Node : cache[n] \in Stored
      /\ NoReport \in Stored
  BY Goroutines, ThreadKinds DEF TypeInv, TypeOK, StoreTypeOK, Stored
<1>a. CASE UNCHANGED <<held, pc>>
  BY <1>a DEF AtRest
<1>b. ASSUME NEW w \in Worker, NEW m, NEW r, NEW l, Proceed(w, m, r, l)
      PROVE  AtRest'
  BY <1>0, <1>b, AtRestCall DEF Proceed
<1>1. ASSUME NEW w \in Worker, NEW n \in Node, Take(w, n)
      PROVE  AtRest'
  <2>1. CASE Drop(w, n)
    BY <1>a, <2>1 DEF Drop
  <2>2. ASSUME NEW r, NEW l, Begin(w, n, r, l)
        PROVE  AtRest'
    <3>1. \A s \in Thread \ {w} : held'[s] = held[s] /\ pc'[s] = pc[s]
      BY <1>0, <2>2 DEF Begin
    <3> QED BY <1>0, <3>1, AtRestAside
  <2> QED BY <1>1, <2>1, <2>2, TakeBegins
<1>2. ASSUME NEW w \in Worker, Work(w)
      PROVE  AtRest'
  <2>0. pc[w] # "idle" => held[w].node \in Node /\ Mine(w) \in Stored
    BY <1>0, Busy DEF Mine
  <2>1. CASE Start(w) \/ Notify(w)
    BY <1>b, <2>1 DEF Start, Notify
  <2>2. CASE Reboot(w) \/ Detach(w) \/ EvictOld(w) \/ EvictReboot(w)
    BY <1>b, <2>2 DEF Reboot, Detach, EvictOld, EvictReboot
  <2>3. CASE Cordon(w) \/ ForceCordon(w) \/ ForceTaint(w) \/ Uncordon(w)
    BY <1>b, <2>3 DEF Cordon, ForceCordon, ForceTaint, Uncordon
  <2>4. CASE DeleteNode(w) \/ SelfNodeGone(w)
    BY <1>b, <2>4 DEF DeleteNode, SelfNodeGone
  <2>5. CASE DetachRefused(w) \/ ForceStale(w) \/ NodeGone(w) \/ SaveConflict(w)
    BY <1>0, <2>5, AtRestCall DEF DetachRefused, ForceStale, NodeGone, SaveConflict, Retry, Finish
  <2>6. CASE Save(w)
    <3>1. pc[w] # "idle"
      BY <2>6 DEF Save, Saving
    <3> QED BY <1>0, <2>0, <2>6, <3>1, AtRestCall DEF Save, Finish
  <2>7. CASE DeleteReport(w) \/ DeletePaged(w) \/ SelfReport(w)
    <3>1. pc[w] # "idle"
      BY <2>7 DEF DeleteReport, DeletePaged, SelfReport
    <3> QED BY <1>0, <2>0, <2>7, <3>1, AtRestCall
            DEF DeleteReport, DeletePaged, SelfReport, Finish
  <2> QED BY <1>2, <2>1, <2>2, <2>3, <2>4, <2>5, <2>6, <2>7 DEF Work
<1>3. ASSUME NEW w \in Worker, Fault(w)
      PROVE  AtRest'
  <2>1. CASE CallFails(w) \/ CallLost(w) \/ DeleteReportFails(w) \/ SelfCallFails(w)
    BY <1>0, <2>1, AtRestCall
       DEF CallFails, CallLost, DeleteReportFails, SelfCallFails, Retry, Finish
  <2>2. CASE SaveFails(w)
    <3>1. held[w].node \in Node /\ Mine(w) \in Stored
      BY <1>0, <2>2, Busy DEF SaveFails, Saving, Mine
    <3> QED BY <1>0, <2>2, <3>1, AtRestCall DEF SaveFails, Finish
  <2> QED BY <1>3, <2>1, <2>2 DEF Fault
<1>4. CASE (\E k \in Node : CleanerFinds(k)) \/ CleanerDeletes \/ CleanerFails
  <2>1. CleanerDeletes => held[Cleaner].node \in Node
    BY <1>0 DEF CleanerDeletes, TypeInv, Pointers
  <2> QED BY <1>0, <1>4, <2>1, AtRestCall DEF CleanerFinds, CleanerDeletes, CleanerFails
<1>5. ASSUME NEW k \in Node, EventCreates(k) \/ NodeCreates(k)
      PROVE  AtRest'
  <2>1. pc' = pc /\ held' = Outdated(held, k)
    BY <1>5 DEF EventCreates, NodeCreates, Create, Persist
  <2> QED BY <1>0, <2>1, AtRestAside
<1>6. ASSUME NEW f \in Writer, NEW k \in Node, Write(f, k)
      PROVE  AtRest'
  <2>1. \E r \in Stored, l \in {"commit", "remove"} : WriterBegins(f, k, r, l)
    BY <1>6, WritesUnruled
  <2> QED BY <1>0, <2>1, AtRestCall DEF WriterBegins
<1>7. ASSUME NEW f \in Writer, WriterSaves(f) \/ WriterDeletes(f)
      PROVE  AtRest'
  <2>1. held[f].node \in Node
    BY <1>7, HeldIsNode
  <2>2. Mine(f) \in Stored
    BY <1>0, <2>1 DEF Mine
  <2> QED BY <1>0, <1>7, <2>1, <2>2, AtRestCall DEF WriterSaves, WriterDeletes
<1>8. ASSUME NEW k \in Node, Deliver(k)
      PROVE  AtRest'
  <2>1. \A f \in Thread : held[f] = Nothing => held'[f] = Nothing
    BY <1>8, StoreAssumption DEF Deliver, DeliverNext, Replaced, Nothing
  <2> QED BY <1>8, <2>1, Goroutines DEF Deliver, AtRest
<1>9. CASE EditConfigs \/ Tick \/ UNCHANGED vars \/ \E k \in Node : Environment(k)
  BY <1>9, <1>a DEF EditConfigs, Tick, AgeReports, vars, Environment, Outage, Recover,
                    GoesDown, ComesUp, Launch, ScaleOut, Joined, Vanish, PodsScheduled,
                    TaintEvicts, World
<1>10. CASE Crash \/ \E w \in Worker : SelfPod(w)
  BY <1>10, Goroutines DEF Crash, SelfPod, Restart, Relist, AtRest
<1> QED
  BY <1>1, <1>2, <1>3, <1>4, <1>5, <1>6, <1>7, <1>8, <1>9, <1>10 DEF Next

LEMMA WatchNext ==
    ASSUME ~Lagging, SelfNode = NoNode, Ruleless,
           TypeInv, SafetyInv, QueuesOK, WatchInv, [NodeNext]_nodeVars
    PROVE  WatchInv'
<1>0. /\ [Next]_vars /\ TypeInv' /\ SafetyInv' /\ UnruledInv /\ AtRest
      /\ budget["crashes"] <= Budget["crashes"]
  BY NodeStepIsStep, TypeNext, SafeNext DEF WatchInv
<1>1. UnruledInv'
  BY <1>0, UnruledNext
<1>2. AtRest'
  BY <1>0, AtRestNext
<1>3. budget'["crashes"] <= Budget["crashes"]
  BY <1>0, NoOutburst DEF TypeInv
<1>4. WatchStep
  BY <1>0, <1>1, NoOnset DEF WatchStep
<1>5. Onwards
  BY <1>0, <1>4 DEF Onwards
<1>6. ASSUME NEW n \in Managed
      PROVE  Attended(n)'
  <2>0. Attended(n)
    BY DEF WatchInv
  <2>1. CASE \E f \in Looker : LookSaves(f) \/ \E k \in Node : LookStep(f, k)
    BY <1>5, <2>0, <2>1, AttendedLooks
  <2>2. CASE \E f \in Checker : \/ CheckSaves(f) \/ CheckDeletes(f)
                                \/ \E k \in Node : CheckStep(f, k)
    BY <1>5, <2>0, <2>2, AttendedChecks
  <2>3. CASE \E k \in Node : NodeChanges(k)
    BY <1>5, <2>0, <2>3, AttendedChange
  <2>4. CASE NodeTick
    BY <1>5, <2>0, <2>4, AttendedTick
  <2>5. CASE NodeRestart
    BY <1>0, <1>5, <2>0, <2>5, AttendedRestart
  <2>6. CASE ControllerStep
    BY <1>4, <2>0, <2>6, AttendedOther
  <2>7. CASE UNCHANGED nodeVars
    <3>1. /\ n \in Node /\ Undiverted(n)
          /\ api' = api /\ watch' = watch /\ cache' = cache
      BY <2>7, NodeAssumption DEF nodeVars, vars, queues, Undiverted
    <3> QED BY <1>4, <2>0, <3>1, AttendedAside DEF WatchStep
  <2> QED BY <2>1, <2>2, <2>3, <2>4, <2>5, <2>6, <2>7 DEF NodeNext
<1> QED BY <1>1, <1>2, <1>3, <1>6 DEF WatchInv

LEMMA WatchInit ==
    ASSUME NodeInit
    PROVE  WatchInv
<1>0. Init
  BY DEF NodeInit
<1>1. AtRest
  BY <1>0, Goroutines DEF Init, StoreInit, AtRest
<1>2. ASSUME NEW n \in Managed
      PROVE  Attended(n)
  <2>1. n \in Node
    BY NodeAssumption
  <2>2. api[n] = NoReport /\ cache[n] = NoReport
    BY <1>0, <2>1 DEF Init, StoreInit
  <2> QED BY <2>2 DEF Attended, Agreed, Requested, Noted, Awaited, Suspicious
<1>3. budget["crashes"] <= Budget["crashes"]
  BY <1>0, ControllerAssumption DEF Init, Disturbance
<1> QED BY <1>0, <1>1, <1>2, <1>3, UnruledInit DEF WatchInv

(* The invariant that a suspicion rests on: an edit of the shared object   *)
(* that makes a report suspicious, or makes it ask for a replacement, is   *)
(* followed by a call of whoever made it, and that call sets the timer of  *)
(* the second look or leaves nothing to look for                           *)
(* (nodecontroller.go:190-274, 332-360).  The watch delivers before time   *)
(* passes, the controller does not run on a managed node, and no policy    *)
(* has a rule for one.                                                     *)
THEOREM SuspicionsAreAttended ==
    ASSUME ~Lagging, SelfNode = NoNode, Ruleless
    PROVE  NodeSpec => []WatchInv
<1>1. NodeInit => WatchInv /\ QueuesOK
  BY WatchInit DEF NodeInit, QueuesOK
<1>2. TypeInv /\ SafetyInv /\ QueuesOK /\ WatchInv /\ [NodeNext]_nodeVars
        => WatchInv' /\ QueuesOK'
  BY WatchNext, QueuesStep
<1> QED BY <1>1, <1>2, NodeImplements, SafetyHolds, PTL DEF NodeSpec

(* So a node that left Ready, or whose report has no problem to be kept    *)
(* for, is looked at again until the process ends: through conflicts, the  *)
(* edits of other goroutines, lost answers and changes of policy           *)
(* (nodecontroller.go:190-274, 332-360).                                   *)
THEOREM SuspicionsAreWatched ==
    ASSUME ~Lagging, SelfNode = NoNode, Ruleless
    PROVE  NodeSpec => []SuspicionWatched
<1>1. WatchInv => SuspicionWatched
  <2> SUFFICES ASSUME WatchInv, NEW n \in Managed, Undisturbed, Present(n),
                      api[n] # NoReport, Idle(api[n]), Suspects(api[n])
               PROVE  Watched(n)
    BY DEF SuspicionWatched
  <2>1. Kept(n) \/ n \in due
    BY DEF WatchInv, Attended, Awaited, Suspicious
  <2> QED BY <2>1 DEF Kept, Watched
<1> QED BY <1>1, SuspicionsAreAttended, PTL
=============================================================================
