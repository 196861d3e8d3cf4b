------------------------- MODULE NIRLifecycleProofs -------------------------
(***************************************************************************)
(* As long as API calls only succeed or conflict, the persisted reports    *)
(* implement ReportLifecycle; and if the rules are not edited either, no   *)
(* report with work to do is forgotten.                                    *)
(*                                                                         *)
(* Handlers edit the shared object before they save it, so it is ahead of  *)
(* the persisted report at times.  StepInv says by how much: an edit that  *)
(* can still be saved is one step of the lifecycle, for the worker that    *)
(* made it is the only one on the report until it has saved it or lost its *)
(* pointer.                                                                *)
(***************************************************************************)
EXTENDS NIRSafetyProofs

(* How a step may edit a report whose phase is p, going on to call l.      *)
EditTo(p, q, l) == p = q \/ (<<p, q>> \in Lifecycle!Follows /\ l \in Saving)

Walking(w) == held[w].ref # "orphan" => Walks(pc[w], cache[held[w].node].phase)

LEMMA FollowsPairs ==
    /\ <<"none", "reboot">> \in Lifecycle!Follows
    /\ <<"reboot", "rebooted">> \in Lifecycle!Follows
    /\ <<"rebooted", "none">> \in Lifecycle!Follows
    /\ <<"none", "replace">> \in Lifecycle!Follows
    /\ <<"replace", "detached">> \in Lifecycle!Follows
    /\ <<"detached", "newjoined">> \in Lifecycle!Follows
    /\ <<"newjoined", "drained">> \in Lifecycle!Follows
BY DEF Lifecycle!Follows

(* A worker that waits or saves relies on no phase.                        *)
LEMMA WalksAnywhere ==
    \A l \in Saving \cup {"idle", "pageEscalated", "deletePaged", "notifyReplaced",
                          "deleteNode", "deleteReport", "selfReport", "selfNode", "selfPod"} :
       \A p : Walks(l, p)
BY DEF Walks, Saving, DrainsOld

LEMMA WalkingKept ==
    ASSUME NEW v \in Worker, Walking(v), pc'[v] = pc[v],
           held'[v].node = held[v].node,
           held[v].ref = "orphan" => held'[v].ref = "orphan",
           cache'[held[v].node].phase = cache[held[v].node].phase
    PROVE  Walking(v)'
BY DEF Walking
-----------------------------------------------------------------------------
(* One lemma for each way the report of a node may be left.                *)

(* Something is on its way: no pointer is live.                            *)
LEMMA StepPending ==
    ASSUME NEW n \in Node, watch'[n] # <<>>,
           \A t \in Thread : held'[t].node = n => held'[t].ref # "none"
    PROVE  Synced(n)' /\ InStep(n)'
BY DEF Synced, InStep

(* Nothing is on its way, and the cache agrees with the API server.        *)
LEMMA StepAgreed ==
    ASSUME NEW n \in Node, cache'[n] = NoReport <=> api'[n] = NoReport,
           api'[n] # NoReport => cache'[n].phase = api'[n].phase,
           \A t \in Thread : held'[t].node = n => held'[t].ref \in {"live", "orphan"}
    PROVE  Synced(n)' /\ InStep(n)'
BY DEF Synced, InStep

(* The report is left alone.                                               *)
LEMMA StepAside ==
    ASSUME NEW n \in Node, Synced(n), InStep(n),
           api'[n] = api[n], cache'[n] = cache[n], watch'[n] = watch[n],
           \A t \in Thread : held'[t].node = n =>
              held'[t] = held[t] \/ held'[t] = Lookup(n),
           \A w \in Worker : Live(w, n) /\ pc[w] \in Saving =>
              held'[w] = held[w] /\ pc'[w] = pc[w]
    PROVE  Synced(n)' /\ InStep(n)'
<1>1. Synced(n)'
  BY DEF Synced, Lookup
<1>2. InStep(n)'
  BY DEF InStep, Live
<1> QED BY <1>1, <1>2

(* The API server stores or deletes it.                                    *)
LEMMA StepPersist ==
    ASSUME TypeInv, NEW n \in Node, Synced(n), InStep(n),
           NEW k \in Node, NEW r \in Stored, NEW h \in [Thread -> Hold],
           Persist(k, r, h), UNCHANGED cache,
           \A t \in Thread : h[t] = held[t] \/ (h[t] = Nothing /\ held[t].node \in {k, NoNode}),
           \A w \in Worker : pc'[w] # pc[w] => held[w].node \in {k, NoNode}
    PROVE  Synced(n)' /\ InStep(n)'
<1>1. api \in [Node -> Stored] /\ watch \in [Node -> Seq(Stored)]
  BY DEF TypeInv, TypeOK, StoreTypeOK, Stored
<1>2. NoNode # n /\ Nothing.node = NoNode
  BY StoreAssumption DEF Nothing
<1>3. CASE k = n
  <2>1. watch'[n] # <<>>
    <3>1. watch'[n] = Append(watch[n], r) /\ watch[n] \in Seq(Stored)
      BY <1>1, <1>3 DEF Persist
    <3> QED BY <3>1, AppendProperties, EmptySeq
  <2>2. \A t \in Thread : held'[t].node = n => held'[t].ref # "none"
    BY <1>2 DEF Persist, Outdated, Synced
  <2> QED BY <2>1, <2>2, StepPending
<1>4. CASE k # n
  <2>1. api'[n] = api[n] /\ watch'[n] = watch[n]
    BY <1>1, <1>4 DEF Persist
  <2>2. \A t \in Thread : held'[t].node = n => held'[t] = held[t]
    BY <1>2, <1>4 DEF Persist, Outdated
  <2>3. \A w \in Worker : Live(w, n) => held'[w] = held[w] /\ pc'[w] = pc[w]
    BY <1>2, <1>4, ThreadKinds DEF Persist, Outdated, Live
  <2> QED BY <2>1, <2>2, <2>3, StepAside
<1> QED BY <1>3, <1>4

(* Letting go of a report, unless it is an edit that could still be saved. *)
LEMMA StepRelease ==
    ASSUME TypeInv, NEW n \in Node, Synced(n), InStep(n), NEW t \in Thread,
           held' = Released(t), pc' = [pc EXCEPT ![t] = "idle"],
           UNCHANGED <<api, cache, watch>>,
           t \in Worker /\ Live(t, n) => pc[t] \notin Saving
    PROVE  Synced(n)' /\ InStep(n)'
<1>1. /\ held \in [Thread -> Hold] /\ pc \in [Thread -> Label]
      /\ NoNode # n /\ Nothing.node = NoNode
  BY StoreAssumption DEF TypeInv, TypeOK, StoreTypeOK, Nothing
<1>2. \A s \in Thread : s # t => held'[s] = held[s] /\ pc'[s] = pc[s]
  BY <1>1 DEF Released
<1>3. held'[t].node # n
  BY <1>1 DEF Released
<1>4. \A w \in Worker : Live(w, n) /\ pc[w] \in Saving =>
         held'[w] = held[w] /\ pc'[w] = pc[w]
  BY <1>2, ThreadKinds
<1> QED BY <1>2, <1>3, <1>4, StepAside

(* Letting go of it after a Delete.                                        *)
LEMMA StepRemove ==
    ASSUME TypeInv, NEW n \in Node, Synced(n), InStep(n), NEW t \in Thread,
           held[t].node \in Node, Remove(held[t].node, Released(t)), UNCHANGED cache,
           pc' = [pc EXCEPT ![t] = "idle"], t \in Worker => pc[t] \notin Saving
    PROVE  Synced(n)' /\ InStep(n)'
<1>1. /\ Released(t) \in [Thread -> Hold]
      /\ \A s \in Thread : s # t => Released(t)[s] = held[s] /\ pc'[s] = pc[s]
      /\ Released(t)[t] = Nothing
  BY DEF TypeInv, TypeOK, StoreTypeOK, Released, Hold, Ref, Nothing
<1>2. CASE api[held[t].node] = NoReport
  BY <1>2, StepRelease DEF Remove
<1>3. CASE api[held[t].node] # NoReport
  <2>1. Persist(held[t].node, NoReport, Released(t)) /\ NoReport \in Stored
    BY <1>3 DEF Remove, Stored
  <2>2. \A w \in Worker : pc'[w] # pc[w] => held[w].node = held[t].node
    BY <1>1, ThreadKinds
  <2> QED BY <1>1, <2>1, <2>2, StepPersist
<1> QED BY <1>2, <1>3
-----------------------------------------------------------------------------
(* The workers.                                                            *)

StepOK == (\A n \in Node : Synced(n) /\ InStep(n)) /\ \A w \in Worker : Walking(w)

LEMMA StepIs == StepInv <=> StepOK
BY DEF StepInv, StepOK, Walking

LEMMA StepWillBe ==
    ASSUME \A n \in Node : Synced(n)' /\ InStep(n)', \A w \in Worker : Walking(w)'
    PROVE  StepOK'
BY DEF StepOK

(* Nobody works on a report that is handed out: it agrees with the API     *)
(* server, or something is on its way.                                     *)
LEMMA Untouched ==
    ASSUME NEW n \in Node, Synced(n), InStep(n), watch[n] = <<>>, cache[n] # NoReport,
           \A w \in Worker : Live(w, n) => pc[w] \notin Saving
    PROVE  api[n] # NoReport /\ cache[n].phase = api[n].phase
BY DEF Synced, InStep

(* Nobody else relies on the report a worker edits.                        *)
LEMMA WalkingElsewhere ==
    ASSUME TypeInv, Exclusive, NEW w \in Worker, NEW v \in Worker, v # w, Walking(v),
           held'[v] = held[v], pc'[v] = pc[v], NEW n \in Node,
           held[w].node = n \/ held[v].node # n,
           \A k \in Node \ {n} : cache'[k] = cache[k]
    PROVE  Walking(v)'
<1>1. CASE pc[v] = "idle"
  BY <1>1, WalksAnywhere DEF Walking
<1>2. CASE pc[v] # "idle"
  <2>1. held[v].node \in Node /\ held[v].node # n
    BY <1>2, ThreadKinds DEF TypeInv, Pointers, Exclusive
  <2> QED BY <2>1, WalkingKept
<1> QED BY <1>1, <1>2

LEMMA StepBegin ==
    ASSUME TypeInv, Exclusive, StepOK, NEW w \in Worker, NEW n \in Node,
           NEW r \in Report, NEW l, Begin(w, n, r, l),
           EditTo(cache[n].phase, r.phase, l), Walks(l, r.phase)
    PROVE  StepOK'
<1> USE ThreadKinds
<1>1. /\ held \in [Thread -> Hold] /\ pc \in [Thread -> Label] /\ cache \in [Node -> Stored]
  BY DEF TypeInv, TypeOK, StoreTypeOK, Stored
<1>2. /\ held' = [held EXCEPT ![w] = Lookup(n)] /\ cache' = [cache EXCEPT ![n] = r]
      /\ pc' = [pc EXCEPT ![w] = l] /\ UNCHANGED <<api, watch>>
      /\ cache[n] # NoReport /\ pc[w] = "idle" /\ \A v \in Worker : held[v].node # n
  BY DEF Begin, Dequeue
<1>3. /\ Lookup(n).node = n /\ Lookup(n).ref # "none" /\ r # NoReport
      /\ Lookup(n).ref = IF watch[n] = <<>> THEN "live" ELSE "behind"
  BY NoReportAssumption DEF Lookup
<1>4. \A t \in Thread : t # w => held'[t] = held[t] /\ pc'[t] = pc[t]
  BY <1>1, <1>2
<1>5. held'[w] = Lookup(n) /\ pc'[w] = l /\ cache'[n] = r
  BY <1>1, <1>2
<1>6. Synced(n) /\ InStep(n)
  BY DEF StepOK
<1>7. Synced(n)' /\ InStep(n)'
  <2>1. \A t \in Thread : held'[t].node = n => held'[t].ref # "none"
    BY <1>3, <1>4, <1>5, <1>6 DEF Synced
  <2>2. CASE watch[n] # <<>>
    BY <1>2, <2>1, <2>2, StepPending
  <2>3. CASE watch[n] = <<>>
    <3>1. api[n] # NoReport /\ cache[n].phase = api[n].phase
      <4>1. \A v \in Worker : ~Live(v, n)
        BY <1>2 DEF Live
      <4> QED BY <1>2, <1>6, <2>3, <4>1, Untouched
    <3>2. \A t \in Thread : held'[t].node = n => held'[t].ref # "behind"
      BY <1>3, <1>4, <1>5, <1>6, <2>3 DEF Synced
    <3>3. Synced(n)'
      BY <1>2, <1>3, <1>5, <2>1, <3>1, <3>2 DEF Synced
    <3>4. InStep(n)'
      <4>1. CASE r.phase = cache[n].phase
        BY <1>2, <1>5, <3>1, <4>1 DEF InStep
      <4>2. CASE <<cache[n].phase, r.phase>> \in Lifecycle!Follows /\ l \in Saving
        <5>1. Live(w, n)'
          BY <1>3, <1>5, <2>3 DEF Live, Lookup
        <5> QED BY <1>2, <1>5, <3>1, <4>2, <5>1 DEF InStep
      <4> QED BY <4>1, <4>2 DEF EditTo
    <3> QED BY <3>3, <3>4
  <2> QED BY <2>2, <2>3
<1>8. ASSUME NEW k \in Node, k # n
      PROVE  Synced(k)' /\ InStep(k)'
  <2>1. \A t \in Thread : held'[t].node = k => held'[t] = held[t]
    BY <1>3, <1>4, <1>5, <1>8
  <2>2. api'[k] = api[k] /\ cache'[k] = cache[k] /\ watch'[k] = watch[k]
    BY <1>1, <1>2, <1>8
  <2>3. \A v \in Worker : Live(v, k) /\ pc[v] \in Saving => held'[v] = held[v] /\ pc'[v] = pc[v]
    BY <1>2, <1>4 DEF Saving
  <2>4. Synced(k) /\ InStep(k)
    BY DEF StepOK
  <2> QED BY <2>1, <2>2, <2>3, <2>4, StepAside
<1>9. ASSUME NEW v \in Worker
      PROVE  Walking(v)'
  <2>1. CASE v = w
    BY <1>3, <1>5, <2>1 DEF Walking
  <2>2. CASE v # w
    <3>1. held'[v] = held[v] /\ pc'[v] = pc[v] /\ Walking(v) /\ held[v].node # n
      BY <1>2, <1>4, <2>2 DEF StepOK
    <3>2. \A k \in Node \ {n} : cache'[k] = cache[k]
      BY <1>1, <1>2
    <3> QED BY <2>2, <3>1, <3>2, WalkingElsewhere
  <2> QED BY <2>1, <2>2
<1> QED BY <1>7, <1>8, <1>9, StepWillBe

LEMMA StepProceed ==
    ASSUME TypeInv, Exclusive, StepOK, NEW w \in Worker, pc[w] # "idle", pc[w] \notin Saving,
           NEW m, NEW l, NEW r, Proceed(w, m, r, l),
           held[w].ref # "orphan" =>
              /\ Mine(w) \in Report => r \in Report /\ EditTo(Mine(w).phase, r.phase, l)
              /\ Walks(l, r.phase)
    PROVE  StepOK'
<1> USE ThreadKinds
<1>0. PICK n \in Node : n = held[w].node
  BY Busy
<1>1. /\ held \in [Thread -> Hold] /\ pc \in [Thread -> Label] /\ cache \in [Node -> Stored]
  BY DEF TypeInv, TypeOK, StoreTypeOK, Stored
<1>2. /\ cache' = Edited(w, r) /\ pc' = [pc EXCEPT ![w] = l] /\ UNCHANGED <<api, watch, held>>
  BY DEF Proceed
<1>3. \A t \in Thread : t # w => pc'[t] = pc[t]
  BY <1>1, <1>2
<1>4. pc'[w] = l
  BY <1>1, <1>2
<1>5. \A k \in Node \ {n} : cache'[k] = cache[k]
  BY <1>0, <1>1, <1>2 DEF Edited
<1>6. ASSUME NEW k \in Node, k # n \/ held[w].ref = "orphan"
      PROVE  Synced(k)' /\ InStep(k)'
  <2>1. cache'[k] = cache[k]
    BY <1>1, <1>2, <1>5, <1>6 DEF Edited
  <2>2. \A v \in Worker : Live(v, k) /\ pc[v] \in Saving => held'[v] = held[v] /\ pc'[v] = pc[v]
    BY <1>2, <1>3
  <2>3. Synced(k) /\ InStep(k)
    BY DEF StepOK
  <2> QED BY <1>2, <2>1, <2>2, <2>3, StepAside
<1>7. ASSUME held[w].ref # "orphan"
      PROVE  Synced(n)' /\ InStep(n)'
  <2>1. Mine(w) \in Report /\ Mine(w) = cache[n] /\ cache'[n] = r
    BY <1>0, <1>1, <1>2, <1>7, Busy DEF Mine, Edited
  <2>2. r \in Report /\ EditTo(cache[n].phase, r.phase, l) /\ r # NoReport /\ cache[n] # NoReport
    BY <1>7, <2>1, NoReportAssumption
  <2>3. Synced(n) /\ InStep(n)
    BY DEF StepOK
  <2>4. CASE watch[n] # <<>>
    BY <1>2, <2>3, <2>4, StepPending DEF Synced
  <2>5. CASE watch[n] = <<>>
    <3>1. \A v \in Worker : Live(v, n) => pc[v] \notin Saving
      <4>1. ASSUME NEW v \in Worker, Live(v, n)
            PROVE  v = w
        <5>1. held[v].node = n
          BY <4>1 DEF Live
        <5> QED BY <1>0, <5>1 DEF Exclusive
      <4> QED BY <4>1
    <3>2. api[n] # NoReport /\ cache[n].phase = api[n].phase
      BY <2>2, <2>3, <2>5, <3>1, Untouched
    <3>3. Synced(n)'
      BY <1>2, <2>1, <2>2, <2>3, <3>2 DEF Synced
    <3>4. InStep(n)'
      <4>1. CASE r.phase = cache[n].phase
        BY <1>2, <2>1, <3>2, <4>1 DEF InStep
      <4>2. CASE <<cache[n].phase, r.phase>> \in Lifecycle!Follows /\ l \in Saving
        <5>1. Live(w, n)
          <6>1. held[w].ref # "behind" /\ held[w].ref # "none" /\ held[w] \in Hold
            BY <1>0, <1>1, <2>3, <2>5 DEF Synced
          <6> QED BY <1>0, <1>7, <6>1 DEF Live, Hold, Ref
        <5>2. Live(w, n)' /\ pc'[w] \in Saving
          BY <1>2, <1>4, <4>2, <5>1 DEF Live
        <5> QED BY <1>2, <2>1, <3>2, <4>2, <5>2 DEF InStep
      <4> QED BY <2>2, <4>1, <4>2 DEF EditTo
    <3> QED BY <3>3, <3>4
  <2> QED BY <2>4, <2>5
<1>8. ASSUME NEW v \in Worker
      PROVE  Walking(v)'
  <2>1. CASE v = w
    <3>1. CASE held[w].ref = "orphan"
      BY <1>2, <2>1, <3>1 DEF Walking
    <3>2. CASE held[w].ref # "orphan"
      <4>1. cache'[held[w].node] = r
        BY <1>0, <1>1, <1>2, <3>2 DEF Edited
      <4> QED BY <1>2, <1>4, <2>1, <3>2, <4>1 DEF Walking
    <3> QED BY <3>1, <3>2
  <2>2. CASE v # w
    <3>1. held'[v] = held[v] /\ pc'[v] = pc[v] /\ Walking(v)
      BY <1>2, <1>3, <2>2 DEF StepOK
    <3> QED BY <1>0, <1>5, <2>2, <3>1, WalkingElsewhere
  <2> QED BY <2>1, <2>2
<1> QED BY <1>6, <1>7, <1>8, StepWillBe

(* The report goes back, or is gone: those who stay rely on what they did. *)
LEMMA WalkingAfter ==
    ASSUME StepOK, UNCHANGED cache,
           \A v \in Worker :
              \/ pc'[v] \in {"idle", "selfNode", "selfPod"}
              \/ /\ pc'[v] = pc[v] /\ held'[v].node = held[v].node
                 /\ held[v].ref = "orphan" => held'[v].ref = "orphan"
    PROVE  \A v \in Worker : Walking(v)'
<1> SUFFICES ASSUME NEW v \in Worker PROVE Walking(v)'
  OBVIOUS
<1>1. CASE pc'[v] \in {"idle", "selfNode", "selfPod"}
  BY <1>1, WalksAnywhere DEF Walking
<1>2. CASE pc'[v] \notin {"idle", "selfNode", "selfPod"}
  BY <1>2, WalkingKept DEF StepOK
<1> QED BY <1>1, <1>2

LEMMA StepTake ==
    ASSUME TypeInv, Exclusive, StepOK, NEW w \in Worker, NEW n \in Node, Take(w, n)
    PROVE  StepOK'
<1> DEFINE r == cache[n]
<1>a. ASSUME Drop(w, n)
      PROVE  StepOK'
  <2>1. UNCHANGED <<api, cache, watch, held, pc>>
    BY <1>a DEF Drop
  <2> QED BY <2>1 DEF StepOK, Synced, InStep, Live, Walking
<1>1. CASE TakeMissing(w, n)
  BY <1>1, <1>a DEF TakeMissing
<1>2. CASE TakeReport(w, n)
  <2>1. r \in Report
    BY <1>2 DEF TakeReport, TypeInv, TypeOK, StoreTypeOK
  <2>2. ASSUME NEW l, Begin(w, n, r, l), Walks(l, r.phase)
        PROVE  StepOK'
    BY <2>1, <2>2, StepBegin DEF EditTo
  <2>3. ASSUME NEW l \in Saving, NEW q \in Report, Begin(w, n, q, l),
               q.phase = r.phase \/ <<r.phase, q.phase>> \in Lifecycle!Follows
        PROVE  StepOK'
    BY <2>1, <2>3, StepBegin, WalksAnywhere DEF EditTo
  <2>4. CASE TakeDrained(w, n)
    BY <2>2, <2>4, WalksAnywhere DEF TakeDrained
  <2>5. CASE TakeNewJoined(w, n)
    <3>1. Walks("cordonOld", "newjoined") /\ Walks("forceCordon", "newjoined")
      BY DEF Walks, DrainsOld
    <3> QED BY <2>2, <2>5, <3>1 DEF TakeNewJoined
  <2>6. CASE TakeDetached(w, n)
    <3>1. InPhase(r, "newjoined") \in Report /\ InPhase(r, "newjoined").phase = "newjoined"
      BY <2>1, MarkedReport DEF Phase
    <3> HIDE DEF r
    <3>2. r.phase = "detached" /\ Begin(w, n, InPhase(r, "newjoined"), "saveRetry")
      BY <2>6 DEF TakeDetached, r
    <3> QED BY <2>3, <3>1, <3>2, FollowsPairs DEF Saving
  <2>7. CASE TakeReplace(w, n)
    <3>1. Walks("detach", "replace")
      BY DEF Walks, DrainsOld
    <3> QED BY <2>2, <2>7, <3>1 DEF TakeReplace
  <2>8. CASE TakeRebooted(w, n)
    <3>1. Walks("uncordon", "rebooted")
      BY DEF Walks, DrainsOld
    <3> QED BY <2>2, <2>8, <3>1 DEF TakeRebooted
  <2>9. CASE TakeReboot(w, n)
    <3>1. Walks("cordonReboot", "reboot")
      BY DEF Walks, DrainsOld
    <3> QED BY <2>2, <2>9, <3>1 DEF TakeReboot
  <2>10. CASE TakeDenied(w, n)
    <3>1. Walks("notifyDenied", "none")
      BY DEF Walks, DrainsOld
    <3> QED BY <2>2, <2>10, <3>1 DEF TakeDenied, Pending
  <2>11. CASE TakeDryRun(w, n)
    <3>1. Settled(r) \in Report /\ Settled(r).phase = "none"
      BY <2>1, ReportEdits, MarkedReport DEF Phase
    <3> HIDE DEF r
    <3>2. r.phase = "none" /\ Begin(w, n, Settled(r), "saveLog")
      BY <2>11 DEF TakeDryRun, Pending, r
    <3> QED BY <2>3, <3>1, <3>2 DEF Saving
  <2>12. CASE TakeStart(w, n)
    <3>1. \A l \in {"startReboot", "startReplace", "page", "pageEscalated"} : Walks(l, "none")
      BY DEF Walks, DrainsOld
    <3> QED BY <2>2, <2>12, <3>1 DEF TakeStart, Pending
  <2>13. CASE TakeOverflow(w, n)
    <3> DEFINE z == [r EXCEPT !.score = 0, !.lastAction = 0]
               up == [z EXCEPT !.action = Policy(n).escalate, !.escalated = TRUE]
               act == [z EXCEPT !.action = Policy(n).action]
    <3>1. Policy(n).escalate \in Action /\ Policy(n).action \in Action
      <4>1. Policy(n) \in Entry
        BY <2>13, PolicyType DEF TypeInv, TakeOverflow, Overflow
      <4> QED BY <4>1 DEF Entry
    <3>2. z \in Report /\ z.phase = r.phase
      <4>1. 0 \in 0 .. ScoreCap /\ 0 \in Stamp
        BY StoreAssumption DEF Stamp
      <4> QED BY <2>1, <4>1 DEF Report
    <3>3. up \in Report /\ act \in Report /\ up.phase = r.phase /\ act.phase = r.phase
      <4> HIDE DEF z
      <4> QED BY <3>1, <3>2 DEF Report
    <3>4. Begin(w, n, IF WithinCooldown(n) THEN up ELSE act, "saveLog")
      BY <2>13 DEF TakeOverflow
    <3> HIDE DEF up, act
    <3> QED BY <2>3, <3>3, <3>4 DEF Saving
  <2>14. CASE TakeUnknownAction(w, n) \/ TakeQuiet(w, n)
    BY <2>14, <1>a DEF TakeUnknownAction, TakeQuiet
  <2> QED
    BY <1>2, <2>4, <2>5, <2>6, <2>7, <2>8, <2>9, <2>10, <2>11, <2>12, <2>13, <2>14
       DEF TakeReport
<1> QED BY <1>1, <1>2 DEF Take

LEMMA StepWork ==
    ASSUME TypeInv, Exclusive, StepOK, NEW w \in Worker, Work(w)
    PROVE  StepOK'
<1> USE ThreadKinds DEF At
<1>0. pc[w] # "idle"
  BY DEF Work, Start, Reboot, Detach, DetachRefused, Cordon, EvictOld, EvictReboot,
         ForceCordon, ForceStale, ForceTaint, Uncordon, NodeGone, Notify,
         DeleteNode, DeleteReport, DeletePaged, SelfReport, SelfNodeGone, Save, SaveConflict,
         Retried, Notifying, Draining, Saving
<1> DEFINE r == Mine(w)
           own == held[w].ref # "orphan"
<1>a. /\ held[w].node \in Node /\ held \in [Thread -> Hold] /\ pc \in [Thread -> Label]
      /\ own => r \in Report /\ Walks(pc[w], r.phase)
  BY <1>0, Busy DEF StepOK, Walking, Mine, TypeInv, TypeOK, StoreTypeOK
<1>b. ASSUME NEW m, NEW l, Proceed(w, m, r, l), pc[w] \notin Saving,
             \A p : Walks(pc[w], p) => Walks(l, p)
      PROVE  StepOK'
  BY <1>0, <1>a, <1>b, StepProceed DEF EditTo
<1>c. ASSUME NEW m, NEW l \in Saving, NEW p \in Phase, Proceed(w, m, InPhase(r, p), l),
             pc[w] \notin Saving, own => <<r.phase, p>> \in Lifecycle!Follows
      PROVE  StepOK'
  <2> HIDE DEF r
  <2>1. own => InPhase(r, p) \in Report /\ InPhase(r, p).phase = p
    BY <1>a, MarkedReport
  <2> QED BY <1>0, <1>c, <2>1, StepProceed, WalksAnywhere DEF EditTo, r
<1>d. ASSUME NEW m, NEW l \in Saving, Proceed(w, m, Settled(r), l), pc[w] \notin Saving,
             own => r.phase = "none" \/ <<r.phase, "none">> \in Lifecycle!Follows
      PROVE  StepOK'
  <2> HIDE DEF r
  <2>1. own => Settled(r) \in Report /\ Settled(r).phase = "none"
    BY <1>a, MarkedReport DEF Phase
  <2> QED BY <1>0, <1>d, <2>1, StepProceed, WalksAnywhere DEF EditTo, r
<1> HIDE DEF r, own
<1>e. /\ "saveRetry" \in Saving /\ "saveLog" \in Saving
      /\ \A l : l \in Saving => l \in {"saveRetry", "saveLog"}
  BY DEF Saving
<1>f. ASSUME NEW again, Finish(w, again), held' = Released(w), UNCHANGED <<api, cache, watch>>,
             pc[w] \notin Saving \/ held[w].ref # "live"
      PROVE  StepOK'
  <2>1. pc' = [pc EXCEPT ![w] = "idle"]
    BY <1>f DEF Finish
  <2>2. ASSUME NEW n \in Node
        PROVE  Synced(n)' /\ InStep(n)'
    <3>1. Live(w, n) => pc[w] \notin Saving
      BY <1>f DEF Live
    <3>2. Synced(n) /\ InStep(n)
      BY DEF StepOK
    <3> QED BY <1>f, <2>1, <3>1, <3>2, StepRelease
  <2>3. \A v \in Worker : Walking(v)'
    BY <1>a, <1>f, <2>1, WalkingAfter DEF Released
  <2> QED BY <2>2, <2>3, StepWillBe
<1>1. CASE Start(w)
  <2>1. \A p : Walks("startReboot", p) \/ Walks("startReplace", p) => p = "none"
    BY DEF Walks
  <2> QED BY <1>1, <1>a, <1>c, <1>e, <2>1, FollowsPairs DEF Start, Phase, r
<1>2. CASE Reboot(w)
  <2>1. \A p : Walks("reboot", p) => p = "reboot"
    BY DEF Walks
  <2> QED BY <1>2, <1>a, <1>c, <1>e, <2>1, FollowsPairs DEF Reboot, Phase, r
<1>3. CASE Detach(w)
  <2>1. \A p : Walks("detach", p) => p = "replace"
    BY DEF Walks
  <2> QED BY <1>3, <1>a, <1>c, <1>e, <2>1, FollowsPairs DEF Detach, Phase, r
<1>4. CASE DetachRefused(w) \/ ForceStale(w) \/ NodeGone(w)
  BY <1>4, <1>e, <1>f DEF DetachRefused, ForceStale, NodeGone, Retry
<1>5. CASE Cordon(w) \/ ForceCordon(w)
  <2>1. \A p : /\ Walks("cordonOld", p) => Walks("evictOld", p)
               /\ Walks("cordonReboot", p) => Walks("evictReboot", p)
               /\ Walks("forceCordon", p) => Walks("forceTaint", p) /\ Walks("forceStale", p)
    BY DEF Walks, DrainsOld
  <2>2. CASE Cordon(w)
    BY <2>1, <2>2, <1>b, <1>e DEF Cordon, r
  <2>3. CASE ForceCordon(w)
    BY <2>1, <2>3, <1>b, <1>e DEF ForceCordon, r
  <2> QED BY <1>5, <2>2, <2>3
<1>6. CASE EvictOld(w)
  <2>1. \A p : Walks("evictOld", p) => p = "newjoined"
    BY DEF Walks, DrainsOld
  <2> QED BY <1>6, <1>a, <1>c, <1>e, <2>1, FollowsPairs DEF EvictOld, Phase, r
<1>7. CASE EvictReboot(w)
  <2>1. \A p : Walks("evictReboot", p) => Walks("reboot", p)
    BY DEF Walks, DrainsOld
  <2> QED BY <1>7, <1>b, <1>e, <2>1 DEF EvictReboot, r
<1>8. CASE ForceTaint(w)
  <2>1. \A p : Walks("forceTaint", p) => p = "newjoined"
    BY DEF Walks, DrainsOld
  <2> QED BY <1>8, <1>a, <1>c, <1>e, <2>1, FollowsPairs DEF ForceTaint, Phase, r
<1>9. CASE Uncordon(w)
  <2>1. \A p : Walks("uncordon", p) => p = "rebooted"
    BY DEF Walks
  <2> QED BY <1>9, <1>a, <1>d, <1>e, <2>1, FollowsPairs DEF Uncordon, r
<1>10. CASE Notify(w)
  <2>1. \A p : /\ Walks("notifyDenied", p) => p = "none"
               /\ Walks("page", p) => p = "none"
               /\ Walks("selfReport", p) /\ Walks("deleteNode", p) /\ Walks("deletePaged", p)
    BY DEF Walks, DrainsOld
  <2>2. CASE At(w, "notifyReplaced") \/ At(w, "pageEscalated")
    BY <1>10, <1>b, <1>e, <2>1, <2>2 DEF Notify, r
  <2>3. CASE At(w, "notifyDenied") \/ At(w, "page")
    BY <1>10, <1>a, <1>d, <1>e, <2>1, <2>3 DEF Notify, r
  <2> QED BY <1>10, <2>2, <2>3 DEF Notify
<1>11. CASE DeleteNode(w) \/ SelfNodeGone(w)
  <2>1. \A p : Walks("deleteReport", p) /\ Walks("selfPod", p)
    BY WalksAnywhere
  <2> QED BY <1>11, <1>b, <1>e, <2>1 DEF DeleteNode, SelfNodeGone, r
<1>12. CASE DeleteReport(w) \/ DeletePaged(w)
  <2>1. /\ pc' = [pc EXCEPT ![w] = "idle"] /\ pc[w] \notin Saving
        /\ Remove(held[w].node, Released(w)) /\ UNCHANGED cache
    BY <1>12, <1>e DEF DeleteReport, DeletePaged, Finish
  <2>2. ASSUME NEW n \in Node
        PROVE  Synced(n)' /\ InStep(n)'
    BY <1>a, <2>1, StepRemove DEF StepOK
  <2>3. \A v \in Worker : v # w => pc'[v] = pc[v] /\ held'[v].node = held[v].node
           /\ (held[v].ref = "orphan" => held'[v].ref = "orphan")
    BY <1>a, <2>1 DEF Remove, Persist, Outdated, Released
  <2>4. pc'[w] = "idle"
    BY <1>a, <2>1
  <2> QED BY <2>1, <2>2, <2>3, <2>4, WalkingAfter, StepWillBe
<1>13. CASE SelfReport(w)
  <2>1. /\ pc' = [pc EXCEPT ![w] = "selfNode"] /\ pc[w] \notin Saving
        /\ Remove(held[w].node, held) /\ UNCHANGED cache
    BY <1>13, <1>e DEF SelfReport
  <2>2. ASSUME NEW n \in Node
        PROVE  Synced(n)' /\ InStep(n)'
    <3>1. CASE api[held[w].node] = NoReport
      <4>1. UNCHANGED <<api, watch, held>>
        BY <2>1, <3>1 DEF Remove
      <4>2. \A v \in Worker : pc[v] \in Saving => pc'[v] = pc[v]
        BY <1>a, <2>1
      <4> QED BY <2>1, <4>1, <4>2, StepAside DEF StepOK
    <3>2. CASE api[held[w].node] # NoReport
      <4>1. Persist(held[w].node, NoReport, held) /\ NoReport \in Stored
        BY <2>1, <3>2 DEF Remove, Stored
      <4>2. \A v \in Worker : pc'[v] # pc[v] => held[v].node = held[w].node
        BY <1>a, <2>1
      <4> QED BY <1>a, <2>1, <4>1, <4>2, StepPersist DEF StepOK
    <3> QED BY <3>1, <3>2
  <2>3. \A v \in Worker : /\ v # w => pc'[v] = pc[v]
                          /\ held'[v].node = held[v].node
                          /\ held[v].ref = "orphan" => held'[v].ref = "orphan"
    BY <1>a, <2>1 DEF Remove, Persist, Outdated
  <2>4. pc'[w] = "selfNode"
    BY <1>a, <2>1
  <2> QED BY <2>1, <2>2, <2>3, <2>4, WalkingAfter, StepWillBe
<1>14. CASE Save(w)
  <2>1. /\ pc' = [pc EXCEPT ![w] = "idle"] /\ UNCHANGED cache
        /\ Persist(held[w].node, Mine(w), Released(w)) /\ Mine(w) \in Stored
    BY <1>14, <1>0, Busy DEF Save, Finish
  <2>2. /\ Released(w) \in [Thread -> Hold] /\ Released(w)[w] = Nothing
        /\ \A t \in Thread : t # w => Released(w)[t] = held[t] /\ pc'[t] = pc[t]
    BY <1>a, <2>1 DEF Released, Hold, Ref, Nothing
  <2>3. \A v \in Worker : pc'[v] # pc[v] => held[v].node = held[w].node
    BY <2>2
  <2>4. ASSUME NEW n \in Node
        PROVE  Synced(n)' /\ InStep(n)'
    BY <1>a, <2>1, <2>2, <2>3, StepPersist DEF StepOK
  <2>5. \A v \in Worker : v # w => pc'[v] = pc[v] /\ held'[v].node = held[v].node
           /\ (held[v].ref = "orphan" => held'[v].ref = "orphan")
    BY <2>1, <2>2 DEF Persist, Outdated
  <2>6. pc'[w] = "idle"
    BY <1>a, <2>1
  <2> QED BY <2>1, <2>4, <2>5, <2>6, WalkingAfter, StepWillBe
<1>15. CASE SaveConflict(w)
  BY <1>15, <1>f DEF SaveConflict, Updatable
<1> QED
  BY <1>1, <1>2, <1>3, <1>4, <1>5, <1>6, <1>7, <1>8, <1>9, <1>10, <1>11, <1>12,
     <1>13, <1>14, <1>15 DEF Work
-----------------------------------------------------------------------------
(* The cleanup and the other controllers: they never write a phase.        *)

LEMMA StepCleaner ==
    ASSUME TypeInv, StepOK, (\E k \in Node : CleanerFinds(k)) \/ CleanerDeletes
    PROVE  StepOK'
<1> USE ThreadKinds DEF At
<1>0. held \in [Thread -> Hold] /\ pc \in [Thread -> Label]
  BY DEF TypeInv, TypeOK, StoreTypeOK
<1>1. ASSUME NEW k \in Node, CleanerFinds(k)
      PROVE  StepOK'
  <2>1. /\ held' = [held EXCEPT ![Cleaner] = Lookup(k)]
        /\ pc' = [pc EXCEPT ![Cleaner] = "expire"] /\ UNCHANGED <<api, cache, watch>>
    BY <1>1 DEF CleanerFinds
  <2>2. /\ \A t \in Thread : t # Cleaner => held'[t] = held[t] /\ pc'[t] = pc[t]
        /\ held'[Cleaner] = Lookup(k) /\ \A w \in Worker : w # Cleaner
    BY <1>0, <2>1, ControllerAssumption
  <2>3. ASSUME NEW n \in Node
        PROVE  Synced(n)' /\ InStep(n)'
    <3>1. \A t \in Thread : held'[t].node = n => held'[t] = held[t] \/ held'[t] = Lookup(n)
      BY <2>2, LookupType
    <3>2. \A w \in Worker : held'[w] = held[w] /\ pc'[w] = pc[w]
      BY <2>2
    <3> QED BY <2>1, <3>1, <3>2, StepAside DEF StepOK
  <2>4. \A w \in Worker : Walking(w)'
    BY <2>1, <2>2, WalkingAfter
  <2> QED BY <2>3, <2>4, StepWillBe
<1>2. CASE CleanerDeletes
  <2>1. /\ held[Cleaner].node \in Node /\ pc' = [pc EXCEPT ![Cleaner] = "idle"]
        /\ Remove(held[Cleaner].node, Released(Cleaner)) /\ UNCHANGED cache
    BY <1>2 DEF CleanerDeletes, TypeInv, Pointers
  <2>2. \A w \in Worker : w # Cleaner
    BY ControllerAssumption
  <2>3. \A n \in Node : Synced(n)' /\ InStep(n)'
    BY <2>1, <2>2, StepRemove DEF StepOK
  <2>4. \A v \in Worker : /\ pc'[v] = pc[v] /\ held'[v].node = held[v].node
                          /\ held[v].ref = "orphan" => held'[v].ref = "orphan"
    BY <1>0, <2>1, <2>2 DEF Remove, Persist, Outdated, Released
  <2>5. \A v \in Worker : Walking(v)'
    BY <2>1, <2>4, WalkingAfter
  <2> QED BY <2>3, <2>5, StepWillBe
<1> QED BY <1>1, <1>2

LEMMA StepCreate ==
    ASSUME TypeInv, StepOK, NEW k \in Node, EventCreates(k) \/ NodeCreates(k)
    PROVE  StepOK'
<1> USE ThreadKinds
<1>1. PICK status \in NodeStatus, problems \in BOOLEAN, s \in 0 .. ScoreCap :
         Create(k, status, problems, s)
  <2>1. 0 \in 0 .. ScoreCap
    BY StoreAssumption
  <2> QED BY <2>1 DEF EventCreates, NodeCreates, NodeStatus
<1>2. PICK r \in Stored : r = Opened(status, problems, s)
  BY DEF Opened, Stored, Report, Action, Phase, Stamp
<1>3. /\ Persist(k, r, held) /\ UNCHANGED <<cache, pc>> /\ held \in [Thread -> Hold]
  BY <1>1, <1>2 DEF Create, TypeInv, TypeOK, StoreTypeOK
<1>4. \A n \in Node : Synced(n)' /\ InStep(n)'
  BY <1>2, <1>3, StepPersist DEF StepOK
<1>5. \A v \in Worker : /\ pc'[v] = pc[v] /\ held'[v].node = held[v].node
                        /\ held[v].ref = "orphan" => held'[v].ref = "orphan"
  BY <1>3 DEF Persist, Outdated
<1>6. \A v \in Worker : Walking(v)'
  BY <1>3, <1>5, WalkingAfter
<1> QED BY <1>4, <1>6, StepWillBe

(* What a writer makes of the cached object.                               *)
LEMMA WriteEdits ==
    ASSUME TypeInv, NEW f \in Writer, NEW k \in Node, Write(f, k)
    PROVE  \E r \in Stored, l \in {"commit", "remove"} :
              /\ WriterBegins(f, k, r, l)
              /\ r = NoReport <=> cache[k] = NoReport
              /\ cache[k] # NoReport => r.phase = cache[k].phase
              /\ l = "commit" => cache[k] # NoReport
<1>0. cache[k] # NoReport => cache[k] \in Report
  BY DEF TypeInv, TypeOK, StoreTypeOK
<1>1. CASE EventRecorded(f, k)
  <2>1. PICK s \in 0 .. ScoreCap : /\ cache[k] # NoReport
           /\ WriterBegins(f, k, [cache[k] EXCEPT !.problems = TRUE, !.score = s], "commit")
    BY <1>1 DEF EventRecorded
  <2>2. PICK r \in Report : r = [cache[k] EXCEPT !.problems = TRUE, !.score = s]
    BY <1>0, <2>1, ReportEdits
  <2>3. r.phase = cache[k].phase /\ r # NoReport /\ r \in Stored
    BY <1>0, <2>1, <2>2, NoReportAssumption DEF Report, Stored
  <2> QED BY <2>1, <2>2, <2>3
<1>2. CASE StatusRecorded(f, k)
  <2>1. cache[k] # NoReport /\ WriterBegins(f, k, [cache[k] EXCEPT !.status = StatusOf(k)], "commit")
    BY <1>2 DEF StatusRecorded
  <2>2. PICK r \in Report : r = [cache[k] EXCEPT !.status = StatusOf(k)]
    BY <1>0, <2>1 DEF Report, StatusOf, NodeStatus
  <2>3. r.phase = cache[k].phase /\ r # NoReport /\ r \in Stored
    BY <1>0, <2>1, <2>2, NoReportAssumption DEF Report, Stored
  <2> QED BY <2>1, <2>2, <2>3
<1>3. CASE ReplaceRequested(f, k)
  <2> DEFINE q == [cache[k] EXCEPT !.action = "replace",
                     !.status = IF node[k].ready = "Unknown" THEN "Unknown" ELSE @]
  <2>1. cache[k] # NoReport /\ WriterBegins(f, k, q, "commit")
    BY <1>3 DEF ReplaceRequested
  <2>2. q \in Report /\ q.phase = cache[k].phase
    BY <1>0, <2>1 DEF Report, NodeStatus, Action
  <2>3. q # NoReport /\ q \in Stored
    BY <2>2, NoReportAssumption DEF Stored
  <2> HIDE DEF q
  <2> QED BY <2>1, <2>2, <2>3
<1>4. CASE ReportWithdrawn(f, k)
  <2>1. cache[k] \in Stored
    BY <1>0 DEF Stored
  <2> QED BY <1>4, <2>1 DEF ReportWithdrawn
<1> QED BY <1>1, <1>2, <1>3, <1>4 DEF Write

LEMMA StepWrite ==
    ASSUME TypeInv, StepOK, NEW f \in Writer, NEW k \in Node, Write(f, k)
    PROVE  StepOK'
<1> USE ThreadKinds
<1>1. PICK r \in Stored, l \in {"commit", "remove"} :
              /\ WriterBegins(f, k, r, l)
              /\ r = NoReport <=> cache[k] = NoReport
              /\ cache[k] # NoReport => r.phase = cache[k].phase
  BY WriteEdits
<1>2. /\ held \in [Thread -> Hold] /\ pc \in [Thread -> Label] /\ cache \in [Node -> Stored]
      /\ \A w \in Worker : w # f
  BY ControllerAssumption DEF TypeInv, TypeOK, StoreTypeOK, Stored
<1>3. /\ \A t \in Thread : t # f => held'[t] = held[t] /\ pc'[t] = pc[t]
      /\ held'[f] = Lookup(k) /\ UNCHANGED <<api, watch>>
      /\ cache'[k] = r /\ \A n \in Node : n # k => cache'[n] = cache[n]
  BY <1>1, <1>2 DEF WriterBegins
<1>4. ASSUME NEW n \in Node
      PROVE  /\ cache'[n] = NoReport <=> cache[n] = NoReport
             /\ cache[n] # NoReport => cache'[n].phase = cache[n].phase
  BY <1>1, <1>3
<1>5. ASSUME NEW n \in Node
      PROVE  Synced(n)' /\ InStep(n)'
  <2>1. Synced(n) /\ InStep(n)
    BY DEF StepOK
  <2>2. Synced(n)'
    <3>1. \A t \in Thread : held'[t].node = n => held'[t] = held[t] \/ held'[t] = Lookup(n)
      BY <1>3, LookupType
    <3> QED BY <1>3, <1>4, <2>1, <3>1 DEF Synced, Lookup
  <2>3. InStep(n)'
    <3>1. watch[n] = <<>> /\ api[n] # NoReport => cache[n] # NoReport
      BY <2>1 DEF Synced
    <3>2. \A w \in Worker : Live(w, n) => Live(w, n)'
      BY <1>2, <1>3 DEF Live
    <3>3. \A w \in Worker : pc'[w] = pc[w]
      BY <1>2, <1>3
    <3> QED BY <1>3, <1>4, <2>1, <3>1, <3>2, <3>3 DEF InStep
  <2> QED BY <2>2, <2>3
<1>6. ASSUME NEW w \in Worker
      PROVE  Walking(w)'
  <2>1. held'[w] = held[w] /\ pc'[w] = pc[w] /\ Walking(w)
    BY <1>2, <1>3 DEF StepOK
  <2>2. CASE pc[w] = "idle" \/ held[w].ref = "orphan"
    BY <2>1, <2>2, WalksAnywhere DEF Walking
  <2>3. CASE pc[w] # "idle" /\ held[w].ref # "orphan"
    <3>1. held[w].node \in Node /\ cache[held[w].node] # NoReport
      BY <2>3 DEF TypeInv, Pointers
    <3> QED BY <1>4, <2>1, <3>1, WalkingKept
  <2> QED BY <2>2, <2>3
<1> QED BY <1>5, <1>6, StepWillBe

LEMMA StepWriterEnds ==
    ASSUME TypeInv, StepOK, NEW f \in Writer, WriterSaves(f) \/ WriterDeletes(f)
    PROVE  StepOK'
<1> USE ThreadKinds DEF At
<1>0. /\ held \in [Thread -> Hold] /\ pc \in [Thread -> Label]
      /\ held[f].node \in Node /\ \A w \in Worker : w # f
  BY ControllerAssumption DEF WriterSaves, WriterDeletes, TypeInv, TypeOK, StoreTypeOK, Pointers
<1>1. UNCHANGED cache /\ pc' = [pc EXCEPT ![f] = "idle"]
  BY DEF WriterSaves, WriterDeletes
<1>2. /\ Released(f) \in [Thread -> Hold] /\ Released(f)[f] = Nothing
      /\ \A t \in Thread : t # f => Released(f)[t] = held[t] /\ pc'[t] = pc[t]
  BY <1>0, <1>1 DEF Released, Hold, Ref, Nothing
<1>3. CASE WriterSaves(f) /\ Updatable(f)
  <2>1. Persist(held[f].node, Mine(f), Released(f)) /\ Mine(f) \in Stored
    BY <1>0, <1>3 DEF WriterSaves, Mine, TypeInv, TypeOK, StoreTypeOK, Stored
  <2>2. ASSUME NEW n \in Node
        PROVE  Synced(n)' /\ InStep(n)'
    <3>1. \A w \in Worker : pc'[w] = pc[w]
      BY <1>0, <1>2
    <3>2. \A t \in Thread :
             Released(f)[t] = held[t] \/ (Released(f)[t] = Nothing /\ held[t].node = held[f].node)
      BY <1>2
    <3>3. Synced(n) /\ InStep(n)
      BY DEF StepOK
    <3> QED BY <1>0, <1>1, <1>2, <2>1, <3>1, <3>2, <3>3, StepPersist
  <2>3. \A v \in Worker : /\ pc'[v] = pc[v] /\ held'[v].node = held[v].node
                          /\ held[v].ref = "orphan" => held'[v].ref = "orphan"
    BY <1>0, <1>2, <2>1 DEF Persist, Outdated
  <2> QED BY <1>1, <2>2, <2>3, WalkingAfter, StepWillBe
<1>4. CASE WriterSaves(f) /\ ~Updatable(f)
  <2>1. held' = Released(f) /\ UNCHANGED <<api, watch>>
    BY <1>4 DEF WriterSaves
  <2>2. \A n \in Node : Synced(n)' /\ InStep(n)'
    BY <1>0, <1>1, <2>1, StepRelease DEF StepOK
  <2>3. \A v \in Worker : pc'[v] = pc[v] /\ held'[v] = held[v]
    BY <1>0, <1>2, <2>1
  <2> QED BY <1>1, <2>2, <2>3, WalkingAfter, StepWillBe
<1>5. CASE WriterDeletes(f)
  <2>1. Remove(held[f].node, Released(f))
    BY <1>5 DEF WriterDeletes
  <2>2. \A n \in Node : Synced(n)' /\ InStep(n)'
    BY <1>0, <1>1, <2>1, StepRemove DEF StepOK
  <2>3. \A v \in Worker : /\ pc'[v] = pc[v] /\ held'[v].node = held[v].node
                          /\ held[v].ref = "orphan" => held'[v].ref = "orphan"
    BY <1>0, <1>2, <2>1 DEF Remove, Persist, Outdated
  <2> QED BY <1>1, <2>2, <2>3, WalkingAfter, StepWillBe
<1> QED BY <1>3, <1>4, <1>5
-----------------------------------------------------------------------------
(* The informer, the process, time and the world.                          *)

LEMMA StepDeliver ==
    ASSUME TypeInv, NEW k \in Node, VersionsInOrder(k), StepOK, Deliver(k)
    PROVE  StepOK'
<1> USE ThreadKinds
<1>1. /\ watch[k] # <<>> /\ api' = api /\ pc' = pc
      /\ cache' = [cache EXCEPT ![k] = Head(watch[k])]
      /\ watch' = [watch EXCEPT ![k] = Tail(@)] /\ held' = Replaced(k)
  BY DEF Deliver, DeliverNext
<1>2. /\ cache \in [Node -> Stored] /\ watch \in [Node -> Seq(Stored)]
      /\ held \in [Thread -> Hold]
  BY DEF TypeInv, TypeOK, StoreTypeOK, Stored
<1>3. \A t \in Thread :
         /\ held'[t].node = held[t].node
         /\ held[t].node = k => held'[t].ref = "orphan"
         /\ held[t].node # k => held'[t] = held[t]
  BY <1>1 DEF Replaced
<1>4. Synced(k)' /\ InStep(k)'
  <2>1. CASE watch'[k] # <<>>
    BY <1>3, <2>1, StepPending
  <2>2. CASE watch'[k] = <<>>
    <3>1. /\ Len(watch[k]) \in Nat /\ Len(watch[k]) >= 1 /\ Head(watch[k]) = watch[k][1]
          /\ Len(Tail(watch[k])) = Len(watch[k]) - 1
      BY <1>1, <1>2, HeadTailProperties, EmptySeq, LenProperties
    <3>2. PICK rest : rest = Tail(watch[k])
      OBVIOUS
    <3>3. rest = <<>> /\ Len(watch[k]) = 1 + Len(rest)
      BY <1>1, <1>2, <2>2, <3>1, <3>2
    <3>4. Len(watch[k]) = 1
      BY <3>3
    <3>5. cache'[k] = api[k]
      BY <1>1, <1>2, <3>1, <3>4 DEF VersionsInOrder
    <3> QED BY <1>1, <1>3, <3>5, StepAgreed
  <2> QED BY <2>1, <2>2
<1>5. ASSUME NEW n \in Node, n # k
      PROVE  Synced(n)' /\ InStep(n)'
  <2>1. \A t \in Thread : held'[t].node = n => held'[t] = held[t]
    BY <1>3, <1>5
  <2>2. \A w \in Worker : Live(w, n) => held'[w] = held[w]
    BY <1>3, <1>5 DEF Live
  <2>3. api'[n] = api[n] /\ cache'[n] = cache[n] /\ watch'[n] = watch[n]
    BY <1>1, <1>2, <1>5
  <2> QED BY <1>1, <2>1, <2>2, <2>3, StepAside DEF StepOK
<1>6. ASSUME NEW w \in Worker
      PROVE  Walking(w)'
  <2>1. CASE pc[w] = "idle"
    BY <1>1, <2>1, WalksAnywhere DEF Walking
  <2>2. CASE pc[w] # "idle" /\ held[w].node # k
    <3>1. held[w].node \in Node
      BY <2>2 DEF TypeInv, Pointers
    <3> QED BY <1>1, <1>2, <1>3, <2>2, <3>1, WalkingKept DEF StepOK
  <2>3. CASE held[w].node = k
    BY <1>3, <2>3 DEF Walking
  <2> QED BY <2>1, <2>2, <2>3
<1> QED BY <1>4, <1>5, <1>6, StepWillBe

LEMMA StepRestart ==
    ASSUME Restart
    PROVE  StepOK'
<1> USE ThreadKinds
<1>1. /\ \A n \in Node : api'[n] = api[n] /\ cache'[n] = api[n]
      /\ \A t \in Thread : held'[t] = Nothing /\ pc'[t] = "idle"
  BY DEF Restart, Relist
<1>2. \A n \in Node : Nothing.node # n
  BY StoreAssumption DEF Nothing
<1>3. \A n \in Node : Synced(n)' /\ InStep(n)'
  BY <1>1, <1>2, StepAgreed
<1>4. \A w \in Worker : Walking(w)'
  BY <1>1, WalksAnywhere DEF Walking
<1> QED BY <1>3, <1>4, StepWillBe

LEMMA AgedWatch ==
    ASSUME TypeInv, Tick, NEW n \in Node
    PROVE  watch'[n] = <<>> <=> watch[n] = <<>>
<1>1. watch[n] \in Seq(Stored) /\ watch'[n] \in Seq(Stored)
  BY TypeTick DEF TypeInv, TypeOK, StoreTypeOK, Stored
<1>2. /\ Len(watch[n]) \in Nat /\ Len(watch'[n]) \in Nat
      /\ DOMAIN watch[n] = 1 .. Len(watch[n]) /\ DOMAIN watch'[n] = 1 .. Len(watch'[n])
  BY <1>1, LenProperties
<1>3. DOMAIN watch'[n] = DOMAIN watch[n]
  BY DEF Tick, AgeReports
<1>4. Len(watch[n]) = 0 <=> Len(watch'[n]) = 0
  BY <1>2, <1>3
<1>5. \A s \in Seq(Stored) : s = <<>> <=> Len(s) = 0
  BY EmptySeq
<1> QED BY <1>1, <1>4, <1>5

LEMMA StepTick ==
    ASSUME TypeInv, StepOK, Tick
    PROVE  StepOK'
<1> USE ThreadKinds
<1>1. /\ held' = held /\ pc' = pc
      /\ \A n \in Node :
           /\ api'[n] = Aged(api[n]) /\ cache'[n] = Aged(cache[n])
           /\ watch'[n] = [i \in DOMAIN watch[n] |-> Aged(watch[n][i])]
  BY DEF Tick, AgeReports
<1>2. ASSUME NEW n \in Node
      PROVE  /\ api'[n] = NoReport <=> api[n] = NoReport
             /\ cache'[n] = NoReport <=> cache[n] = NoReport
             /\ api[n] # NoReport => api'[n].phase = api[n].phase
             /\ cache[n] # NoReport => cache'[n].phase = cache[n].phase
  <2>1. api[n] \in Stored /\ cache[n] \in Stored
    BY DEF TypeInv, TypeOK, StoreTypeOK, Stored
  <2> QED BY <1>1, <2>1, AgedKeeps
<1>3. \A n \in Node : watch'[n] = <<>> <=> watch[n] = <<>>
  BY AgedWatch
<1>4. ASSUME NEW n \in Node
      PROVE  Synced(n)' /\ InStep(n)'
  <2>1. Synced(n) /\ InStep(n)
    BY DEF StepOK
  <2>2. Synced(n)'
    BY <1>1, <1>2, <1>3, <2>1 DEF Synced
  <2>3. InStep(n)'
    BY <1>1, <1>2, <1>3, <2>1 DEF InStep, Synced, Live
  <2> QED BY <2>2, <2>3
<1>5. ASSUME NEW w \in Worker
      PROVE  Walking(w)'
  <2>1. CASE pc[w] = "idle" \/ held[w].ref = "orphan"
    BY <1>1, <2>1, WalksAnywhere DEF Walking
  <2>2. CASE pc[w] # "idle" /\ held[w].ref # "orphan"
    <3>1. held[w].node \in Node /\ cache[held[w].node] # NoReport
      BY <2>2 DEF TypeInv, Pointers
    <3> QED BY <1>1, <1>2, <3>1, WalkingKept DEF StepOK
  <2> QED BY <2>1, <2>2
<1> QED BY <1>4, <1>5, StepWillBe
-----------------------------------------------------------------------------
(* A step spends at most one unit of one bound.                            *)
LEMMA Spending ==
    ASSUME [Next]_vars
    PROVE  budget' = budget \/ \E e \in Disturbance : Spend(e)
<1>1. CASE \E w \in Worker, n \in Node : Take(w, n)
  BY <1>1
     DEF Take, TakeMissing, TakeReport, TakeDrained, TakeNewJoined, TakeDetached,
         TakeReplace, TakeRebooted, TakeReboot, TakeDenied, TakeDryRun, TakeStart,
         TakeUnknownAction, TakeOverflow, TakeQuiet, Begin, Drop
<1>2. CASE \E w \in Worker : Work(w)
  BY <1>2
     DEF Work, Start, Reboot, Detach, DetachRefused, Cordon, EvictOld, EvictReboot,
         ForceCordon, ForceStale, ForceTaint, Uncordon, NodeGone, Notify,
         DeleteNode, DeleteReport, DeletePaged, SelfReport, SelfNodeGone, Save,
         SaveConflict, Proceed
<1>3. CASE (\E w \in Worker : Fault(w)) \/ CleanerFails
  BY <1>3
     DEF Fault, CallFails, CallLost, SaveFails, DeleteReportFails, SelfCallFails,
         CleanerFails, Disturbance
<1>4. CASE (\E n \in Node : CleanerFinds(n)) \/ CleanerDeletes
              \/ \E f \in Writer : WriterSaves(f) \/ WriterDeletes(f)
  BY <1>4 DEF CleanerFinds, CleanerDeletes, WriterSaves, WriterDeletes
<1>5. CASE (\E n \in Node : EventCreates(n) \/ NodeCreates(n))
              \/ \E f \in Writer, n \in Node : Write(f, n)
  BY <1>5
     DEF EventCreates, NodeCreates, Create, Write, EventRecorded, StatusRecorded,
         ReplaceRequested, ReportWithdrawn, WriterBegins, Disturbance
<1>6. CASE \E n \in Node : Deliver(n) \/ Environment(n)
  BY <1>6
     DEF Deliver, Environment, Outage, Recover, GoesDown, ComesUp, Launch, ScaleOut,
         Vanish, PodsScheduled, TaintEvicts, Disturbance
<1>7. CASE Crash \/ EditConfigs \/ Tick \/ (\E w \in Worker : SelfPod(w)) \/ UNCHANGED vars
  BY <1>7 DEF Crash, EditConfigs, Tick, SelfPod, vars, Disturbance
<1> QED BY <1>1, <1>2, <1>3, <1>4, <1>5, <1>6, <1>7 DEF Next

(* What has no budget never happens.                                       *)
LEMMA NothingLeft ==
    ASSUME TypeOK, NEW d \in Disturbance, budget[d] = 0, [Next]_vars
    PROVE  budget'[d] = 0 /\ ~Spend(d)
<1>1. ~Spend(d)
  BY DEF Spend
<1>2. ASSUME NEW e \in Disturbance, Spend(e)
      PROVE  budget'[d] = 0
  <2>1. e # d
    BY <1>1, <1>2
  <2> QED BY <1>2, <2>1 DEF Spend, TypeOK
<1> QED BY <1>1, <1>2, Spending

Failing == (\E w \in Worker : Fault(w)) \/ CleanerFails

LEMMA NoFaultLeft ==
    ASSUME budget["faults"] = 0
    PROVE  ~Failing
BY DEF Failing, Fault, CallFails, CallLost, SaveFails, DeleteReportFails, SelfCallFails,
       CleanerFails, Spend

LEMMA StepInit == Init => StepOK
<1> SUFFICES ASSUME Init PROVE StepOK
  OBVIOUS
<1>1. /\ \A n \in Node : api[n] = NoReport /\ cache[n] = NoReport
      /\ \A t \in Thread : held[t] = Nothing /\ pc[t] = "idle"
  BY DEF Init, StoreInit
<1>2. \A n \in Node : Nothing.node # n
  BY StoreAssumption DEF Nothing
<1>3. \A n \in Node : Synced(n) /\ InStep(n)
  BY <1>1, <1>2 DEF Synced, InStep
<1>4. \A w \in Worker : Walking(w)
  BY <1>1, ThreadKinds, WalksAnywhere DEF Walking
<1> QED BY <1>3, <1>4 DEF StepOK

LEMMA StepNext ==
    ASSUME TypeInv, SafetyInv, StepOK, [Next]_vars, ~Failing
    PROVE  StepOK'
<1>0. Exclusive /\ \A n \in Node : VersionsInOrder(n)
  BY DEF SafetyInv
<1>1. CASE \E w \in Worker, k \in Node : Take(w, k)
  BY <1>0, <1>1, StepTake
<1>2. CASE \E w \in Worker : Work(w)
  BY <1>0, <1>2, StepWork
<1>3. CASE (\E k \in Node : CleanerFinds(k)) \/ CleanerDeletes
  BY <1>3, StepCleaner
<1>4. CASE \E k \in Node : EventCreates(k) \/ NodeCreates(k)
  BY <1>4, StepCreate
<1>5. CASE \E f \in Writer, k \in Node : Write(f, k)
  BY <1>5, StepWrite
<1>6. CASE \E f \in Writer : WriterSaves(f) \/ WriterDeletes(f)
  BY <1>6, StepWriterEnds
<1>7. CASE \E k \in Node : Deliver(k)
  BY <1>0, <1>7, StepDeliver
<1>8. CASE Crash \/ \E w \in Worker : SelfPod(w)
  BY <1>8, StepRestart DEF Crash, SelfPod
<1>9. CASE (\E k \in Node : Environment(k)) \/ EditConfigs \/ UNCHANGED vars
  <2>1. UNCHANGED <<api, cache, watch, held, pc>>
    BY <1>9
       DEF Environment, Outage, Recover, GoesDown, ComesUp, Launch, ScaleOut, Joined,
           Vanish, PodsScheduled, TaintEvicts, World, EditConfigs, vars
  <2> QED BY <2>1 DEF StepOK, Synced, InStep, Live, Walking
<1>10. CASE Tick
  BY <1>10, StepTick
<1> QED
  BY <1>1, <1>2, <1>3, <1>4, <1>5, <1>6, <1>7, <1>8, <1>9, <1>10 DEF Next, Failing

(* With no budget for faults, every step keeps StepInv.                    *)
SmoothInv == TypeInv /\ SafetyInv /\ StepOK /\ budget["faults"] = 0

LEMMA SmoothNext == SmoothInv /\ [Next]_vars => SmoothInv' /\ ~Failing
<1> SUFFICES ASSUME SmoothInv, [Next]_vars PROVE SmoothInv' /\ ~Failing
  OBVIOUS
<1>1. ~Failing
  BY NoFaultLeft DEF SmoothInv
<1>2. TypeInv' /\ SafetyInv' /\ StepOK'
  BY <1>1, TypeNext, SafeNext, StepNext DEF SmoothInv
<1>3. budget'["faults"] = 0
  BY NothingLeft DEF SmoothInv, TypeInv, Disturbance
<1> QED BY <1>1, <1>2, <1>3 DEF SmoothInv

LEMMA SmoothHolds ==
    ASSUME Budget["faults"] = 0
    PROVE  Spec => []SmoothInv
<1>1. Init => SmoothInv
  <2>1. Init => budget["faults"] = 0
    BY DEF Init
  <2> QED BY <2>1, TypeInit, SafeInit, StepInit DEF SmoothInv
<1>2. SmoothInv /\ [Next]_vars => SmoothInv'
  BY SmoothNext
<1> QED BY <1>1, <1>2, PTL DEF Spec

(* An edit that can still be saved is one step of the lifecycle.           *)
THEOREM StepsHold ==
    ASSUME Budget["faults"] = 0
    PROVE  Spec => []StepInv
<1>1. SmoothInv => StepInv
  BY StepIs DEF SmoothInv
<1> QED BY <1>1, SmoothHolds, PTL
-----------------------------------------------------------------------------
(* The refinement: each step is one of ReportLifecycle's, or none.         *)

(* How a step changes what is persisted.                                   *)
Stores(k, r) ==
    /\ api' = [api EXCEPT ![k] = r]
    /\ \/ r = NoReport
       \/ api[k] = NoReport /\ r # NoReport /\ r.phase = "none"
       \/ r = cache[k] /\ \E t \in Worker \cup Writer : Live(t, k) /\ pc[t] # "remove"

LEMMA ApiWrites ==
    ASSUME TypeInv, [Next]_vars, ~Failing
    PROVE  UNCHANGED api \/ Tick \/ \E k \in Node, r \in Stored : Stores(k, r)
<1> USE ThreadKinds DEF At
<1>0. held \in [Thread -> Hold]
  BY DEF TypeInv, TypeOK, StoreTypeOK
<1>a. ASSUME NEW k \in Node, NEW h, Remove(k, h)
      PROVE  UNCHANGED api \/ \E r \in Stored : Stores(k, r)
  BY <1>a DEF Remove, Persist, Stores, Stored
<1>b. ASSUME NEW t \in Worker \cup Writer, held[t].node \in Node, Updatable(t),
             NEW h, Persist(held[t].node, Mine(t), h), pc[t] # "remove"
      PROVE  \E k \in Node, r \in Stored : Stores(k, r)
  <2>1. Live(t, held[t].node) /\ Mine(t) = cache[held[t].node] /\ Mine(t) \in Stored
    BY <1>0, <1>b DEF Live, Updatable, Hold, Mine, TypeInv, TypeOK, StoreTypeOK, Stored
  <2> QED BY <1>b, <2>1 DEF Stores, Persist
<1>1. CASE \E w \in Worker, k \in Node : Take(w, k)
  BY <1>1
     DEF Take, TakeMissing, TakeReport, TakeDrained, TakeNewJoined, TakeDetached,
         TakeReplace, TakeRebooted, TakeReboot, TakeDenied, TakeDryRun, TakeStart,
         TakeUnknownAction, TakeOverflow, TakeQuiet, Begin, Drop
<1>2. ASSUME NEW w \in Worker, Work(w)
      PROVE  UNCHANGED api \/ \E k \in Node, r \in Stored : Stores(k, r)
  <2>1. CASE DeleteReport(w) \/ DeletePaged(w) \/ SelfReport(w)
    <3>1. held[w].node \in Node
      BY <2>1, Busy DEF DeleteReport, DeletePaged, SelfReport
    <3> QED BY <2>1, <3>1, <1>a DEF DeleteReport, DeletePaged, SelfReport
  <2>2. CASE Save(w)
    <3>1. held[w].node \in Node /\ pc[w] # "remove"
      BY <2>2, Busy DEF Save, Saving
    <3> QED BY <2>2, <3>1, <1>b DEF Save
  <2>3. CASE Start(w) \/ Reboot(w) \/ Detach(w) \/ Cordon(w) \/ EvictOld(w)
               \/ EvictReboot(w) \/ ForceCordon(w) \/ ForceTaint(w) \/ Uncordon(w)
               \/ Notify(w) \/ DeleteNode(w) \/ SelfNodeGone(w)
    BY <2>3
       DEF Start, Reboot, Detach, Cordon, EvictOld, EvictReboot, ForceCordon, ForceTaint,
           Uncordon, Notify, DeleteNode, SelfNodeGone, Proceed
  <2>4. CASE DetachRefused(w) \/ ForceStale(w) \/ NodeGone(w) \/ SaveConflict(w)
    BY <2>4 DEF DetachRefused, ForceStale, NodeGone, SaveConflict, Retry
  <2> QED BY <1>2, <2>1, <2>2, <2>3, <2>4 DEF Work
<1>3. CASE (\E k \in Node : CleanerFinds(k)) \/ CleanerDeletes
  <2>1. CASE CleanerDeletes
    <3>1. held[Cleaner].node \in Node
      BY <2>1 DEF CleanerDeletes, TypeInv, Pointers
    <3> QED BY <2>1, <3>1, <1>a DEF CleanerDeletes
  <2> QED BY <1>3, <2>1 DEF CleanerFinds
<1>4. ASSUME NEW k \in Node, EventCreates(k) \/ NodeCreates(k)
      PROVE  \E r \in Stored : Stores(k, r)
  <2>1. PICK status \in NodeStatus, problems \in BOOLEAN, s \in 0 .. ScoreCap :
           Create(k, status, problems, s)
    <3>1. 0 \in 0 .. ScoreCap
      BY StoreAssumption
    <3> QED BY <1>4, <3>1 DEF EventCreates, NodeCreates, NodeStatus
  <2>2. PICK r \in Report : r = Opened(status, problems, s)
    BY DEF Opened, Report, Action, Phase, Stamp
  <2>3. r.phase = "none" /\ r # NoReport
    BY <2>2, NoReportAssumption DEF Opened
  <2> QED BY <2>1, <2>2, <2>3 DEF Create, Persist, Stores, Stored
<1>5. CASE \E f \in Writer, k \in Node : Write(f, k)
  BY <1>5 DEF Write, EventRecorded, StatusRecorded, ReplaceRequested, ReportWithdrawn, WriterBegins
<1>6. ASSUME NEW f \in Writer, WriterSaves(f) \/ WriterDeletes(f)
      PROVE  UNCHANGED api \/ \E k \in Node, r \in Stored : Stores(k, r)
  <2>1. held[f].node \in Node
    BY <1>6 DEF WriterSaves, WriterDeletes, TypeInv, Pointers
  <2>2. CASE WriterSaves(f)
    BY <1>b, <2>1, <2>2 DEF WriterSaves
  <2>3. CASE WriterDeletes(f)
    BY <1>a, <2>1, <2>3 DEF WriterDeletes
  <2> QED BY <1>6, <2>2, <2>3
<1>7. CASE \E k \in Node : Deliver(k)
  BY <1>7 DEF Deliver, DeliverNext
<1>8. CASE \E k \in Node : Environment(k)
  BY <1>8
     DEF Environment, Outage, Recover, GoesDown, ComesUp, Launch, ScaleOut, Joined,
         Vanish, PodsScheduled, TaintEvicts, World
<1>9. CASE Crash \/ (\E w \in Worker : SelfPod(w)) \/ EditConfigs \/ UNCHANGED vars
  BY <1>9 DEF Crash, SelfPod, Restart, Relist, EditConfigs, vars
<1> QED
  BY <1>1, <1>2, <1>3, <1>4, <1>5, <1>6, <1>7, <1>8, <1>9 DEF Next, Failing

LEMMA LifecycleInit == Init => Lifecycle!Init
<1> SUFFICES ASSUME Init PROVE PersistedPhase = [n \in Node |-> "absent"]
  BY DEF Lifecycle!Init
<1> QED BY DEF Init, StoreInit, PersistedPhase

(* The persisted phase of k becomes that of r, and no other changes.       *)
LEMMA PhaseStored ==
    ASSUME TypeInv, NEW k \in Node, NEW r, api' = [api EXCEPT ![k] = r]
    PROVE  PersistedPhase' =
             [PersistedPhase EXCEPT ![k] = IF r = NoReport THEN "absent" ELSE r.phase]
BY DEF PersistedPhase, TypeInv, TypeOK, StoreTypeOK

LEMMA LifecycleStep ==
    ASSUME SmoothInv, [Next]_vars
    PROVE  [Lifecycle!Next]_PersistedPhase
<1>0. TypeInv /\ StepOK /\ ~Failing
  BY SmoothNext DEF SmoothInv
<1>1. CASE UNCHANGED api
  BY <1>1 DEF PersistedPhase
<1>2. CASE Tick
  <2>1. \A n \in Node : api'[n] = Aged(api[n]) /\ api[n] \in Stored
    BY <1>0, <1>2 DEF Tick, AgeReports, TypeInv, TypeOK, StoreTypeOK, Stored
  <2>2. \A n \in Node : /\ api'[n] = NoReport <=> api[n] = NoReport
                        /\ api[n] # NoReport => api'[n].phase = api[n].phase
    BY <2>1, AgedKeeps
  <2> QED BY <2>2 DEF PersistedPhase
<1>3. ASSUME NEW k \in Node, NEW r \in Stored, Stores(k, r)
      PROVE  [Lifecycle!Next]_PersistedPhase
  <2> DEFINE to == IF r = NoReport THEN "absent" ELSE r.phase
  <2>1. PersistedPhase' = [PersistedPhase EXCEPT ![k] = to]
    BY <1>0, <1>3, PhaseStored DEF Stores
  <2>2. /\ PersistedPhase[k] = IF api[k] = NoReport THEN "absent" ELSE api[k].phase
        /\ PersistedPhase = [n \in Node |-> PersistedPhase[n]]
    BY DEF PersistedPhase
  <2> HIDE DEF to
  <2>3. CASE to = PersistedPhase[k]
    <3>1. PersistedPhase' = PersistedPhase
      BY <2>1, <2>2, <2>3
    <3> QED BY <3>1
  <2>4. CASE r = NoReport /\ to # PersistedPhase[k]
    <3>1. to = "absent" /\ PersistedPhase[k] # "absent"
      BY <2>4 DEF to
    <3>2. Lifecycle!Close(k)
      BY <2>1, <3>1 DEF Lifecycle!Close
    <3> QED BY <3>2 DEF Lifecycle!Next
  <2>5. CASE api[k] = NoReport /\ r # NoReport /\ r.phase = "none"
    <3>1. to = "none" /\ PersistedPhase[k] = "absent"
      BY <2>2, <2>5 DEF to
    <3>2. Lifecycle!Open(k)
      BY <2>1, <3>1 DEF Lifecycle!Open, Lifecycle!Move
    <3> QED BY <3>2 DEF Lifecycle!Next
  <2>6. CASE /\ r = cache[k] /\ \E t \in Worker \cup Writer : Live(t, k)
             /\ r # NoReport /\ to # PersistedPhase[k]
    <3>1. watch[k] = <<>>
      <4>1. VersionsInOrder(k)
        BY DEF SmoothInv, SafetyInv
      <4> QED BY <2>6, <4>1, ThreadKinds DEF VersionsInOrder, Live
    <3>2. api[k] # NoReport
      BY <1>0, <2>6, <3>1 DEF StepOK, Synced
    <3>3. to = cache[k].phase /\ PersistedPhase[k] = api[k].phase
      BY <2>2, <2>6, <3>2 DEF to
    <3>4. <<PersistedPhase[k], to>> \in Lifecycle!Follows
      BY <1>0, <2>6, <3>1, <3>2, <3>3 DEF StepOK, InStep
    <3>5. Lifecycle!Advance(k)
      <4>1. PICK step \in Lifecycle!Follows : step = <<PersistedPhase[k], to>>
        BY <3>4
      <4>2. step[1] = PersistedPhase[k] /\ step[2] = to
        BY <4>1
      <4> QED BY <2>1, <4>1, <4>2 DEF Lifecycle!Advance, Lifecycle!Move
    <3> QED BY <3>5 DEF Lifecycle!Next
  <2> QED BY <1>3, <2>3, <2>4, <2>5, <2>6 DEF Stores
<1> QED BY <1>0, <1>1, <1>2, <1>3, ApiWrites

(* The persisted reports implement ReportLifecycle, as long as API calls   *)
(* only succeed or conflict: conflicts, crashes and the other controllers' *)
(* writes never make a report skip or repeat a phase.                      *)
THEOREM ImplementsLifecycle ==
    ASSUME Budget["faults"] = 0
    PROVE  Spec => FollowsLifecycle
<1>1. SmoothInv /\ [Next]_vars => [Lifecycle!Next]_PersistedPhase
  BY LifecycleStep
<1>2. Spec => Lifecycle!Init /\ [][Lifecycle!Next]_PersistedPhase
  BY <1>1, LifecycleInit, SmoothHolds, PTL DEF Spec
<1> QED BY <1>2 DEF FollowsLifecycle, Lifecycle!Spec
-----------------------------------------------------------------------------
(* No report with work to do is forgotten.                                 *)

(* The report asks for no more than it did, and those who look after it    *)
(* still do.                                                               *)
LEMMA TendedKept ==
    ASSUME NEW n \in Node, Tended(n),
           n \in queue => n \in queue', watch[n] # <<>> => watch'[n] # <<>>,
           \A t \in Worker \cup Writer : Live(t, n) /\ pc[t] # "idle" =>
              Live(t, n)' /\ pc'[t] # "idle"
    PROVE  Tended(n)'
BY DEF Tended

LEMMA SameWork ==
    ASSUME NEW n \in Node, configs' = configs, Present(n)' => Present(n),
           cache'[n] # NoReport =>
              /\ cache[n] # NoReport /\ cache'[n].phase = cache[n].phase
              /\ cache'[n].action = cache[n].action
              /\ cache'[n].escalated = cache[n].escalated,
           HasWork(n)'
    PROVE  HasWork(n)
<1>1. Policy(n)' = Policy(n)
  BY DEF Policy, Matching
<1>2. cache'[n] # NoReport
  BY DEF HasWork
<1>3. Dispatched(n)' = Dispatched(n)
  BY <1>1, <1>2 DEF Dispatched
<1> QED BY <1>2, <1>3 DEF HasWork

LEMMA RememberedKept ==
    ASSUME NEW n \in Node, Remembered(n), configs' = configs,
           cache'[n] = cache[n], Present(n)' => Present(n),
           n \in queue => n \in queue', watch[n] # <<>> => watch'[n] # <<>>,
           \A t \in Worker \cup Writer : Live(t, n) /\ pc[t] # "idle" =>
              Live(t, n)' /\ pc'[t] # "idle"
    PROVE  Remembered(n)'
<1>1. HasWork(n)' => HasWork(n)
  BY SameWork
<1> QED BY <1>1, TendedKept DEF Remembered

(* The API server stores or deletes a report: its change is on its way.    *)
LEMMA RememberedPersist ==
    ASSUME TypeInv, NEW n \in Node, Remembered(n),
           NEW k \in Node, NEW r \in Stored, NEW h \in [Thread -> Hold], Persist(k, r, h),
           UNCHANGED <<cache, node, configs>>, queue \subseteq queue',
           \A t \in Worker \cup Writer :
              held[t].node \in {k, NoNode} \/ (h[t] = held[t] /\ pc'[t] = pc[t])
    PROVE  Remembered(n)'
<1>1. api \in [Node -> Stored] /\ watch \in [Node -> Seq(Stored)] /\ NoNode # n
  BY StoreAssumption DEF TypeInv, TypeOK, StoreTypeOK, Stored
<1>2. CASE k = n
  <2>1. watch'[n] = Append(watch[n], r) /\ watch[n] \in Seq(Stored)
    BY <1>1, <1>2 DEF Persist
  <2>2. watch'[n] # <<>>
    BY <2>1, AppendProperties, EmptySeq
  <2> QED BY <2>2 DEF Remembered, Tended
<1>3. CASE k # n
  <2>1. watch'[n] = watch[n]
    BY <1>1, <1>3 DEF Persist
  <2>2. \A t \in Worker \cup Writer : Live(t, n) =>  held'[t] = held[t] /\ pc'[t] = pc[t]
    BY <1>1, <1>3, ThreadKinds DEF Persist, Outdated, Live
  <2>3. Present(n)' => Present(n)
    BY DEF Present
  <2> QED BY <2>1, <2>2, <2>3, RememberedKept DEF Live
<1> QED BY <1>2, <1>3

(* A Delete finds the report, or there has been no work any more.          *)
LEMMA RememberedRemove ==
    ASSUME TypeInv, NEW n \in Node, Synced(n), Remembered(n), NEW t \in Thread,
           held[t].node \in Node, Remove(held[t].node, Released(t)),
           pc' = [pc EXCEPT ![t] = "idle"],
           UNCHANGED <<cache, node, configs>>, queue \subseteq queue'
    PROVE  Remembered(n)'
<1>1. /\ Released(t) \in [Thread -> Hold]
      /\ \A s \in Thread : s # t => Released(t)[s] = held[s] /\ pc'[s] = pc[s]
  BY DEF TypeInv, TypeOK, StoreTypeOK, Released, Hold, Ref, Nothing
<1>2. CASE api[held[t].node] = NoReport
  <2>1. held' = Released(t) /\ UNCHANGED <<api, watch>>
    BY <1>2 DEF Remove
  <2>2. CASE n = held[t].node
    <3>1. CASE watch[n] = <<>>
      BY <1>2, <2>2, <3>1 DEF Synced, Remembered, HasWork
    <3>2. CASE watch[n] # <<>>
      BY <2>1, <3>2 DEF Remembered, Tended
    <3> QED BY <3>1, <3>2
  <2>3. CASE n # held[t].node
    <3>1. \A s \in Worker \cup Writer : Live(s, n) => held'[s] = held[s] /\ pc'[s] = pc[s]
      BY <1>1, <2>1, <2>3, ThreadKinds DEF Live
    <3>2. Present(n)' => Present(n)
      BY DEF Present
    <3> QED BY <2>1, <3>1, <3>2, RememberedKept DEF Live
  <2> QED BY <2>2, <2>3
<1>3. CASE api[held[t].node] # NoReport
  <2>1. Persist(held[t].node, NoReport, Released(t)) /\ NoReport \in Stored
    BY <1>3 DEF Remove, Stored
  <2>2. \A s \in Worker \cup Writer :
           held[s].node = held[t].node \/ (Released(t)[s] = held[s] /\ pc'[s] = pc[s])
    BY <1>1, ThreadKinds
  <2> QED BY <1>1, <2>1, <2>2, RememberedPersist
<1> QED BY <1>2, <1>3
-----------------------------------------------------------------------------
(* The workers.                                                            *)

LEMMA TakeLeavesNoWork ==
    ASSUME TypeInv, NEW w \in Worker, NEW n \in Node, Take(w, n)
    PROVE  \/ Drop(w, n) /\ ~HasWork(n)
           \/ \E r, l : Begin(w, n, r, l) /\ l # "idle"
<1>1. CASE TakeMissing(w, n)
  BY <1>1 DEF TakeMissing, HasWork
<1>2. CASE TakeReport(w, n)
  <2>1. CASE TakeUnknownAction(w, n)
    BY <2>1 DEF TakeUnknownAction, Pending, HasWork
  <2>2. CASE TakeQuiet(w, n)
    BY <2>2 DEF TakeQuiet, Waiting, HasWork
  <2>3. CASE TakeDrained(w, n) \/ TakeNewJoined(w, n) \/ TakeDetached(w, n)
               \/ TakeReplace(w, n) \/ TakeRebooted(w, n) \/ TakeReboot(w, n)
    BY <2>3 DEF TakeDrained, TakeNewJoined, TakeDetached, TakeReplace, TakeRebooted, TakeReboot
  <2>4. CASE TakeDenied(w, n) \/ TakeDryRun(w, n) \/ TakeStart(w, n) \/ TakeOverflow(w, n)
    BY <2>4 DEF TakeDenied, TakeDryRun, TakeStart, TakeOverflow
  <2> QED BY <1>2, <2>1, <2>2, <2>3, <2>4 DEF TakeReport
<1> QED BY <1>1, <1>2 DEF Take

LEMMA RememberedTake ==
    ASSUME TypeInv, NEW n \in Node, Remembered(n), NEW w \in Worker, NEW k \in Node, Take(w, k)
    PROVE  Remembered(n)'
<1> USE ThreadKinds
<1>0. held \in [Thread -> Hold] /\ pc \in [Thread -> Label] /\ cache \in [Node -> Stored]
  BY DEF TypeInv, TypeOK, StoreTypeOK, Stored
<1>1. CASE Drop(w, k) /\ ~HasWork(k)
  <2>1. UNCHANGED <<cache, watch, held, pc, node, configs>> /\ queue' = queue \ {k}
    BY <1>1 DEF Drop
  <2>2. HasWork(n)' => HasWork(n)
    BY <2>1, SameWork DEF Present
  <2>3. CASE n = k
    BY <1>1, <2>2, <2>3 DEF Remembered
  <2>4. CASE n # k
    <3>1. n \in queue => n \in queue'
      BY <2>1, <2>4
    <3>2. Tended(n) => Tended(n)'
      BY <2>1, <3>1 DEF Tended, Live
    <3> QED BY <2>2, <3>2 DEF Remembered
  <2> QED BY <2>3, <2>4
<1>2. ASSUME NEW r, NEW l, Begin(w, k, r, l), l # "idle"
      PROVE  Remembered(n)'
  <2>1. /\ held' = [held EXCEPT ![w] = Lookup(k)] /\ pc' = [pc EXCEPT ![w] = l]
        /\ cache' = [cache EXCEPT ![k] = r] /\ queue' = queue \ {k}
        /\ UNCHANGED <<watch, node, configs>> /\ pc[w] = "idle"
    BY <1>2 DEF Begin, Dequeue
  <2>2. CASE n = k
    <3>1. CASE watch[n] # <<>>
      BY <2>1, <3>1 DEF Remembered, Tended
    <3>2. CASE watch[n] = <<>>
      <4>1. held'[w] = [node |-> n, ref |-> "live"] /\ pc'[w] = l
        BY <1>0, <2>1, <2>2, <3>2 DEF Lookup
      <4> QED BY <1>2, <4>1 DEF Remembered, Tended, Live
    <3> QED BY <3>1, <3>2
  <2>3. CASE n # k
    <3>1. cache'[n] = cache[n] /\ (n \in queue => n \in queue')
      BY <1>0, <2>1, <2>3
    <3>2. \A t \in Worker \cup Writer : pc[t] # "idle" => held'[t] = held[t] /\ pc'[t] = pc[t]
      BY <1>0, <2>1
    <3>3. Present(n)' => Present(n)
      BY <2>1 DEF Present
    <3> QED BY <2>1, <3>1, <3>2, <3>3, RememberedKept DEF Live
  <2> QED BY <2>2, <2>3
<1> QED BY <1>1, <1>2, TakeLeavesNoWork

(* A pointer to the cached object is live, or a version is on its way.     *)
LEMMA RememberedProceed ==
    ASSUME TypeInv, SafetyInv, NEW n \in Node, Synced(n), Remembered(n),
           NEW w \in Worker, pc[w] # "idle", NEW m, NEW r, NEW l, Proceed(w, m, r, l),
           l # "idle", m.place = "present" => Here(w).place = "present"
    PROVE  Remembered(n)'
<1> USE ThreadKinds
<1>0. /\ held \in [Thread -> Hold] /\ pc \in [Thread -> Label] /\ cache \in [Node -> Stored]
      /\ node \in [Node -> NodeRecord] /\ held[w].node \in Node
  BY Busy DEF TypeInv, TypeOK, StoreTypeOK, Stored
<1>1. /\ node' = [node EXCEPT ![held[w].node] = m] /\ cache' = Edited(w, r)
      /\ pc' = [pc EXCEPT ![w] = l] /\ UNCHANGED <<watch, held, queue, configs>>
  BY DEF Proceed
<1>2. \A t \in Worker \cup Writer : pc[t] # "idle" => pc'[t] # "idle"
  BY <1>0, <1>1
<1>3. Present(n)' => Present(n)
  BY <1>0, <1>1 DEF Present, Here
<1>4. CASE held[w].node # n \/ held[w].ref = "orphan"
  <2>1. cache'[n] = cache[n]
    BY <1>0, <1>1, <1>4 DEF Edited
  <2>2. \A t \in Worker \cup Writer : Live(t, n) => Live(t, n)'
    BY <1>1 DEF Live
  <2> QED BY <1>1, <1>2, <1>3, <2>1, <2>2, RememberedKept
<1>5. CASE held[w].node = n /\ held[w].ref # "orphan"
  <2>1. CASE watch[n] # <<>>
    BY <1>1, <2>1 DEF Remembered, Tended
  <2>2. CASE watch[n] = <<>>
    <3>1. held[w].ref # "none" /\ held[w].ref # "behind" /\ held[w] \in Hold
      BY <1>0, <1>5, <2>2 DEF Synced
    <3>2. Live(w, n)' /\ pc'[w] # "idle"
      BY <1>0, <1>1, <1>5, <3>1 DEF Live, Hold, Ref
    <3> QED BY <3>2 DEF Remembered, Tended
  <2> QED BY <2>1, <2>2
<1> QED BY <1>4, <1>5

(* A key that is put back, or whose pointer is outdated.                   *)
LEMMA RememberedFinish ==
    ASSUME TypeInv, NEW n \in Node, Remembered(n), NEW w \in Worker, held[w].node \in Node,
           NEW again \in BOOLEAN, Finish(w, again), held' = Released(w),
           UNCHANGED <<cache, watch, node, configs>>, again \/ held[w].ref # "live"
    PROVE  Remembered(n)'
<1> USE ThreadKinds
<1>0. held \in [Thread -> Hold] /\ pc \in [Thread -> Label]
  BY DEF TypeInv, TypeOK, StoreTypeOK
<1>1. /\ pc' = [pc EXCEPT ![w] = "idle"] /\ queue \subseteq queue'
      /\ again => held[w].node \in queue'
  BY DEF Finish
<1>2. CASE again /\ held[w].node = n
  BY <1>1, <1>2 DEF Remembered, Tended
<1>3. CASE held[w].node # n \/ held[w].ref # "live"
  <2>1. \A t \in Worker \cup Writer : Live(t, n) => held'[t] = held[t] /\ pc'[t] = pc[t]
    BY <1>0, <1>1, <1>3 DEF Live, Released
  <2>2. Present(n)' => Present(n)
    BY DEF Present
  <2> QED BY <1>1, <2>1, <2>2, RememberedKept DEF Live
<1> QED BY <1>2, <1>3

LEMMA RememberedWork ==
    ASSUME TypeInv, SafetyInv, NEW n \in Node, Synced(n), Remembered(n),
           NEW w \in Worker, Work(w)
    PROVE  Remembered(n)'
<1> USE ThreadKinds DEF At
<1>0. pc[w] # "idle"
  BY DEF Work, Start, Reboot, Detach, DetachRefused, Cordon, EvictOld, EvictReboot,
         ForceCordon, ForceStale, ForceTaint, Uncordon, NodeGone, Notify,
         DeleteNode, DeleteReport, DeletePaged, SelfReport, SelfNodeGone, Save, SaveConflict,
         Retried, Notifying, Draining, Saving
<1>1. /\ held \in [Thread -> Hold] /\ pc \in [Thread -> Label]
      /\ held[w].node \in Node /\ Here(w) \in NodeRecord
  BY <1>0, BusyFacts DEF TypeInv, TypeOK, StoreTypeOK
<1> DEFINE m == Here(w)
<1>a. ASSUME NEW z, NEW r, NEW l, Proceed(w, z, r, l), l # "idle",
             z.place = "present" => m.place = "present"
      PROVE  Remembered(n)'
  BY <1>0, <1>a, RememberedProceed
<1>b. /\ \A x : [m EXCEPT !.cordoned = x].place = m.place
      /\ \A x : [m EXCEPT !.pods = x].place = m.place
      /\ \A x : [m EXCEPT !.inAsg = x].place = m.place
      /\ \A x, y : [m EXCEPT !.tainted = x, !.pods = y].place = m.place
      /\ \A x, y : [m EXCEPT !.boot = x, !.rebootAge = y].place = m.place
      /\ [m EXCEPT !.place = "gone"].place = "gone"
  BY <1>1 DEF NodeRecord
<1> HIDE DEF m
<1>2. CASE Start(w)
  <2>1. \/ Proceed(w, m, InPhase(Mine(w), "reboot"), "saveLog")
        \/ Proceed(w, m, InPhase(Mine(w), "replace"), "saveLog")
    BY <1>2 DEF Start, m
  <2> QED BY <2>1, <1>a
<1>3. CASE Reboot(w)
  <2> DEFINE z == [m EXCEPT !.boot = "requested", !.rebootAge = 0]
  <2>1. z.place = m.place
    BY <1>b
  <2>2. Proceed(w, z, InPhase(Mine(w), "rebooted"), "saveLog")
    BY <1>3 DEF Reboot, m
  <2> HIDE DEF z
  <2> QED BY <2>1, <2>2, <1>a
<1>4. CASE Detach(w)
  BY <1>4, <1>a, <1>b DEF Detach, m
<1>5. CASE Cordon(w)
  BY <1>5, <1>a, <1>b DEF Cordon, m
<1>6. CASE ForceCordon(w)
  BY <1>6, <1>a, <1>b DEF ForceCordon, m
<1>7. CASE EvictOld(w) \/ EvictReboot(w)
  BY <1>7, <1>a, <1>b DEF EvictOld, EvictReboot, m
<1>8. CASE ForceTaint(w)
  BY <1>8, <1>a, <1>b DEF ForceTaint, m
<1>9. CASE Uncordon(w)
  BY <1>9, <1>a, <1>b DEF Uncordon, m
<1>10. CASE Notify(w)
  BY <1>10, <1>a DEF Notify, m
<1>11. CASE DeleteNode(w) \/ SelfNodeGone(w)
  BY <1>11, <1>a, <1>b DEF DeleteNode, SelfNodeGone, m
<1>12. CASE DetachRefused(w) \/ ForceStale(w) \/ NodeGone(w)
  <2>1. Retry(w)
    BY <1>12 DEF DetachRefused, ForceStale, NodeGone
  <2> QED BY <1>1, <2>1, RememberedFinish DEF Retry
<1>13. CASE DeleteReport(w) \/ DeletePaged(w)
  <2>1. /\ pc' = [pc EXCEPT ![w] = "idle"] /\ queue \subseteq queue'
        /\ Remove(held[w].node, Released(w)) /\ UNCHANGED <<cache, node, configs>>
    BY <1>13 DEF DeleteReport, DeletePaged, Finish
  <2> QED BY <1>1, <2>1, RememberedRemove
<1>14. CASE SelfReport(w)
  <2>1. /\ pc' = [pc EXCEPT ![w] = "selfNode"] /\ Remove(held[w].node, held)
        /\ UNCHANGED <<cache, queue, node, configs>>
    BY <1>14 DEF SelfReport
  <2>2. \A t \in Worker \cup Writer : pc[t] # "idle" => pc'[t] # "idle"
    BY <1>1, <2>1
  <2>3. CASE api[held[w].node] = NoReport
    <3>1. UNCHANGED <<watch, held>>
      BY <2>1, <2>3 DEF Remove
    <3>2. Present(n)' => Present(n)
      BY <2>1 DEF Present
    <3> QED BY <2>1, <2>2, <3>1, <3>2, RememberedKept DEF Live
  <2>4. CASE api[held[w].node] # NoReport
    <3>1. Persist(held[w].node, NoReport, held) /\ NoReport \in Stored
      BY <2>1, <2>4 DEF Remove, Stored
    <3>2. \A t \in Worker \cup Writer : held[t].node = held[w].node \/ pc'[t] = pc[t]
      BY <1>1, <2>1
    <3> QED BY <1>1, <2>1, <3>1, <3>2, RememberedPersist
  <2> QED BY <2>3, <2>4
<1>15. CASE Save(w)
  <2>1. /\ pc' = [pc EXCEPT ![w] = "idle"] /\ queue' = queue /\ UNCHANGED <<cache, node, configs>>
        /\ Persist(held[w].node, Mine(w), Released(w)) /\ Mine(w) \in Stored
    BY <1>15, <1>0, Busy DEF Save, Finish
  <2>2. /\ Released(w) \in [Thread -> Hold]
        /\ \A t \in Thread : t # w => Released(w)[t] = held[t] /\ pc'[t] = pc[t]
    BY <1>1, <2>1 DEF Released, Hold, Ref, Nothing
  <2>3. /\ queue \subseteq queue'
        /\ \A t \in Worker \cup Writer :
              held[t].node \in {held[w].node, NoNode} \/ (Released(w)[t] = held[t] /\ pc'[t] = pc[t])
    BY <2>1, <2>2
  <2>4. held[w].node \in Node /\ UNCHANGED <<cache, node, configs>>
    BY <1>1, <2>1
  <2> QED BY <2>1, <2>2, <2>3, <2>4, RememberedPersist
<1>16. CASE SaveConflict(w)
  <2>1. At(w, "saveRetry") \in BOOLEAN /\ Finish(w, At(w, "saveRetry")) /\ held[w].ref # "live"
    BY <1>16 DEF SaveConflict, Updatable
  <2> QED BY <1>1, <1>16, <2>1, RememberedFinish DEF SaveConflict
<1> QED
  BY <1>2, <1>3, <1>4, <1>5, <1>6, <1>7, <1>8, <1>9, <1>10, <1>11, <1>12, <1>13,
     <1>14, <1>15, <1>16 DEF Work
-----------------------------------------------------------------------------
(* The cleanup and the other controllers.                                  *)

LEMMA RememberedCleaner ==
    ASSUME TypeInv, NEW n \in Node, Synced(n), Remembered(n),
           (\E k \in Node : CleanerFinds(k)) \/ CleanerDeletes
    PROVE  Remembered(n)'
<1> USE ThreadKinds
<1>0. /\ held \in [Thread -> Hold] /\ pc \in [Thread -> Label]
      /\ \A t \in Worker \cup Writer : t # Cleaner
  BY ControllerAssumption DEF TypeInv, TypeOK, StoreTypeOK
<1>1. ASSUME NEW k \in Node, CleanerFinds(k)
      PROVE  Remembered(n)'
  <2>1. /\ held' = [held EXCEPT ![Cleaner] = Lookup(k)]
        /\ pc' = [pc EXCEPT ![Cleaner] = "expire"]
        /\ UNCHANGED <<cache, watch, queue, node, configs>>
    BY <1>1 DEF CleanerFinds
  <2>2. \A t \in Worker \cup Writer : held'[t] = held[t] /\ pc'[t] = pc[t]
    BY <1>0, <2>1
  <2>3. Present(n)' => Present(n)
    BY <2>1 DEF Present
  <2> QED BY <2>1, <2>2, <2>3, RememberedKept DEF Live
<1>2. CASE CleanerDeletes
  <2>1. held[Cleaner].node \in Node
    BY <1>2 DEF CleanerDeletes, At, TypeInv, Pointers
  <2> QED BY <1>2, <2>1, RememberedRemove DEF CleanerDeletes
<1> QED BY <1>1, <1>2

LEMMA RememberedCreate ==
    ASSUME TypeInv, NEW n \in Node, Remembered(n),
           NEW k \in Node, EventCreates(k) \/ NodeCreates(k)
    PROVE  Remembered(n)'
<1>1. PICK status \in NodeStatus, problems \in BOOLEAN, s \in 0 .. ScoreCap :
         Create(k, status, problems, s)
  <2>1. 0 \in 0 .. ScoreCap
    BY StoreAssumption
  <2> QED BY <2>1 DEF EventCreates, NodeCreates, NodeStatus
<1>2. PICK r \in Stored : r = Opened(status, problems, s)
  BY DEF Opened, Stored, Report, Action, Phase, Stamp
<1>3. Persist(k, r, held) /\ UNCHANGED <<cache, queue, pc, node, configs>> /\ held \in [Thread -> Hold]
  BY <1>1, <1>2 DEF Create, TypeInv, TypeOK, StoreTypeOK
<1> QED BY <1>3, RememberedPersist

LEMMA RememberedWrite ==
    ASSUME TypeInv, NEW n \in Node, Remembered(n), NEW f \in Writer, NEW k \in Node, Write(f, k)
    PROVE  Remembered(n)'
<1> USE ThreadKinds
<1>0. held \in [Thread -> Hold] /\ pc \in [Thread -> Label] /\ cache \in [Node -> Stored]
  BY DEF TypeInv, TypeOK, StoreTypeOK, Stored
<1>1. PICK r \in Stored, l \in {"commit", "remove"} : WriterBegins(f, k, r, l)
  BY WriteEdits
<1>2. /\ held' = [held EXCEPT ![f] = Lookup(k)] /\ pc' = [pc EXCEPT ![f] = l] /\ pc[f] = "idle"
      /\ cache' = [cache EXCEPT ![k] = r] /\ UNCHANGED <<watch, queue, node, configs>>
  BY <1>1 DEF WriterBegins, At
<1>3. CASE n = k
  <2>1. CASE watch[n] # <<>>
    BY <1>2, <2>1 DEF Remembered, Tended
  <2>2. CASE watch[n] = <<>>
    <3>1. held'[f] = [node |-> n, ref |-> "live"] /\ pc'[f] # "idle"
      BY <1>0, <1>2, <1>3, <2>2 DEF Lookup
    <3> QED BY <3>1 DEF Remembered, Tended, Live
  <2> QED BY <2>1, <2>2
<1>4. CASE n # k
  <2>1. cache'[n] = cache[n]
    BY <1>0, <1>2, <1>4
  <2>2. \A t \in Worker \cup Writer : pc[t] # "idle" => held'[t] = held[t] /\ pc'[t] = pc[t]
    BY <1>0, <1>2
  <2>3. Present(n)' => Present(n)
    BY <1>2 DEF Present
  <2> QED BY <1>2, <2>1, <2>2, <2>3, RememberedKept DEF Live
<1> QED BY <1>3, <1>4

LEMMA RememberedWriterEnds ==
    ASSUME TypeInv, NEW n \in Node, Synced(n), Remembered(n),
           NEW f \in Writer, WriterSaves(f) \/ WriterDeletes(f)
    PROVE  Remembered(n)'
<1> USE ThreadKinds DEF At
<1>0. /\ held \in [Thread -> Hold] /\ pc \in [Thread -> Label] /\ held[f].node \in Node
      /\ UNCHANGED <<cache, queue, node, configs>> /\ pc' = [pc EXCEPT ![f] = "idle"]
  BY DEF WriterSaves, WriterDeletes, TypeInv, TypeOK, StoreTypeOK, Pointers
<1>1. CASE WriterSaves(f) /\ Updatable(f)
  <2>1. Persist(held[f].node, Mine(f), Released(f)) /\ Mine(f) \in Stored
    BY <1>0, <1>1 DEF WriterSaves, Mine, TypeInv, TypeOK, StoreTypeOK, Stored
  <2>2. /\ Released(f) \in [Thread -> Hold]
        /\ \A t \in Thread : t # f => Released(f)[t] = held[t] /\ pc'[t] = pc[t]
    BY <1>0 DEF Released, Hold, Ref, Nothing
  <2>3. /\ queue \subseteq queue'
        /\ \A t \in Worker \cup Writer :
              held[t].node \in {held[f].node, NoNode} \/ (Released(f)[t] = held[t] /\ pc'[t] = pc[t])
    BY <1>0, <2>2
  <2>4. held[f].node \in Node /\ UNCHANGED <<cache, node, configs>>
    BY <1>0, <2>1
  <2> QED BY <2>1, <2>2, <2>3, <2>4, RememberedPersist
<1>2. CASE WriterSaves(f) /\ ~Updatable(f)
  <2>1. held' = Released(f) /\ UNCHANGED <<api, watch>> /\ held[f].ref # "live"
    BY <1>2 DEF WriterSaves, Updatable
  <2>2. \A t \in Worker \cup Writer : Live(t, n) => held'[t] = held[t] /\ pc'[t] = pc[t]
    BY <1>0, <2>1 DEF Live, Released
  <2>3. Present(n)' => Present(n)
    BY <1>0 DEF Present
  <2> QED BY <1>0, <2>1, <2>2, <2>3, RememberedKept DEF Live
<1>3. CASE WriterDeletes(f)
  BY <1>0, <1>3, RememberedRemove DEF WriterDeletes
<1> QED BY <1>1, <1>2, <1>3
-----------------------------------------------------------------------------
(* The informer, the process, time and the world.                          *)

LEMMA RememberedDeliver ==
    ASSUME TypeInv, NEW n \in Node, Remembered(n), NEW k \in Node, Deliver(k)
    PROVE  Remembered(n)'
<1> USE ThreadKinds
<1>0. /\ cache \in [Node -> Stored] /\ watch \in [Node -> Seq(Stored)] /\ held \in [Thread -> Hold]
  BY DEF TypeInv, TypeOK, StoreTypeOK, Stored
<1>1. /\ cache' = [cache EXCEPT ![k] = Head(watch[k])] /\ watch' = [watch EXCEPT ![k] = Tail(@)]
      /\ held' = Replaced(k) /\ UNCHANGED <<pc, node, configs>>
      /\ queue' = IF Head(watch[k]) = NoReport THEN queue ELSE queue \cup {k}
  BY DEF Deliver, DeliverNext
<1>2. CASE n = k
  <2>1. CASE Head(watch[k]) = NoReport
    <3>1. cache'[n] = NoReport
      BY <1>0, <1>1, <1>2, <2>1
    <3> QED BY <3>1 DEF Remembered, HasWork
  <2>2. CASE Head(watch[k]) # NoReport
    <3>1. n \in queue'
      BY <1>1, <1>2, <2>2
    <3> QED BY <3>1 DEF Remembered, Tended
  <2> QED BY <2>1, <2>2
<1>3. CASE n # k
  <2>1. cache'[n] = cache[n] /\ watch'[n] = watch[n] /\ (n \in queue => n \in queue')
    BY <1>0, <1>1, <1>3
  <2>2. \A t \in Worker \cup Writer : Live(t, n) => Live(t, n)'
    BY <1>0, <1>1, <1>3 DEF Live, Replaced
  <2>3. Present(n)' => Present(n)
    BY <1>1 DEF Present
  <2> QED BY <1>1, <2>1, <2>2, <2>3, RememberedKept
<1> QED BY <1>2, <1>3

LEMMA RememberedRestart ==
    ASSUME NEW n \in Node, Restart
    PROVE  Remembered(n)'
<1>1. HasWork(n)' => cache'[n] # NoReport
  BY DEF HasWork
<1>2. cache'[n] # NoReport => n \in queue'
  BY DEF Restart, Relist
<1> QED BY <1>1, <1>2 DEF Remembered, Tended

LEMMA RememberedTick ==
    ASSUME TypeInv, NEW n \in Node, Remembered(n), Tick
    PROVE  Remembered(n)'
<1>1. /\ UNCHANGED <<queue, held, pc, configs>> /\ cache'[n] = Aged(cache[n])
      /\ node'[n] = AgeNode(node[n])
  BY DEF Tick, AgeReports
<1>2. cache[n] \in Stored /\ node[n] \in NodeRecord
  BY DEF TypeInv, TypeOK, StoreTypeOK, Stored
<1>3. node'[n].place = node[n].place
  BY <1>1, <1>2 DEF AgeNode, NodeRecord
<1>4. /\ cache'[n] = NoReport <=> cache[n] = NoReport
      /\ cache[n] # NoReport => /\ cache'[n].phase = cache[n].phase
                                /\ cache'[n].action = cache[n].action
                                /\ cache'[n].escalated = cache[n].escalated
  <2>1. CASE cache[n] = NoReport
    BY <1>1, <2>1 DEF Aged
  <2>2. CASE cache[n] # NoReport
    <3>1. cache[n] \in Report /\ cache'[n] = [cache[n] EXCEPT !.lastAction = Older(@)]
      BY <1>1, <1>2, <2>2 DEF Aged, Stored
    <3>2. /\ cache'[n].phase = cache[n].phase /\ cache'[n].action = cache[n].action
          /\ cache'[n].escalated = cache[n].escalated
      BY <3>1 DEF Report
    <3>3. cache'[n] # NoReport
      BY <1>1, <1>2, <2>2, AgedType
    <3> QED BY <2>2, <3>2, <3>3
  <2> QED BY <2>1, <2>2
<1>5. HasWork(n)' => HasWork(n)
  BY <1>1, <1>3, <1>4, SameWork DEF Present
<1>6. Tended(n) => Tended(n)'
  <2>1. watch'[n] = <<>> <=> watch[n] = <<>>
    BY AgedWatch
  <2> QED BY <1>1, <2>1 DEF Tended, Live
<1> QED BY <1>5, <1>6 DEF Remembered

(* Nobody can have a report for a node that joins only now.                *)
LEMMA RememberedEnvironment ==
    ASSUME TypeInv, SafetyInv, NEW n \in Node, Remembered(n), NEW k \in Node, Environment(k)
    PROVE  Remembered(n)'
<1>0. node \in [Node -> NodeRecord]
  BY DEF TypeInv, TypeOK
<1>1. UNCHANGED <<api, cache, watch, held, queue, pc, configs>>
  BY DEF Environment, Outage, Recover, GoesDown, ComesUp, Launch, ScaleOut, Joined,
         Vanish, PodsScheduled, TaintEvicts, World
<1>2. Present(n)' => Present(n) \/ node[n].place = "absent"
  <2>1. CASE Launch(k) \/ ScaleOut(k)
    <3>1. node' = [node EXCEPT ![k] = Fresh("present", 0)] /\ node[k].place = "absent"
      BY <2>1 DEF Launch, ScaleOut, Joined, World
    <3> QED BY <1>0, <3>1 DEF Present
  <2>2. CASE ~(Launch(k) \/ ScaleOut(k))
    <3>1. Present(k) /\ \E m : World(k, m)
      BY <2>2 DEF Environment, Outage, Recover, GoesDown, ComesUp, Vanish,
                  PodsScheduled, TaintEvicts, Steady, IsReady
    <3> QED BY <1>0, <3>1 DEF Present, World
  <2> QED BY <2>1, <2>2
<1>3. CASE node[n].place = "absent"
  <2>1. cache[n] = NoReport
    <3>1. NotJoined(n)
      BY DEF SafetyInv
    <3> QED BY <1>3, <3>1 DEF NotJoined, Copies
  <2> QED BY <1>1, <2>1 DEF Remembered, HasWork
<1>4. CASE node[n].place # "absent"
  BY <1>1, <1>2, <1>4, RememberedKept DEF Live
<1> QED BY <1>3, <1>4

LEMMA RememberedNext ==
    ASSUME TypeInv, SafetyInv, NEW n \in Node, Synced(n), Remembered(n),
           [Next]_vars, ~Failing, ~EditConfigs
    PROVE  Remembered(n)'
<1>1. CASE \E w \in Worker, k \in Node : Take(w, k)
  BY <1>1, RememberedTake
<1>2. CASE \E w \in Worker : Work(w)
  BY <1>2, RememberedWork
<1>3. CASE (\E k \in Node : CleanerFinds(k)) \/ CleanerDeletes
  BY <1>3, RememberedCleaner
<1>4. CASE \E k \in Node : EventCreates(k) \/ NodeCreates(k)
  BY <1>4, RememberedCreate
<1>5. CASE \E f \in Writer, k \in Node : Write(f, k)
  BY <1>5, RememberedWrite
<1>6. CASE \E f \in Writer : WriterSaves(f) \/ WriterDeletes(f)
  BY <1>6, RememberedWriterEnds
<1>7. CASE \E k \in Node : Deliver(k)
  BY <1>7, RememberedDeliver
<1>8. CASE \E k \in Node : Environment(k)
  BY <1>8, RememberedEnvironment
<1>9. CASE Crash \/ \E w \in Worker : SelfPod(w)
  BY <1>9, RememberedRestart DEF Crash, SelfPod
<1>10. CASE Tick
  BY <1>10, RememberedTick
<1>11. CASE UNCHANGED vars
  <2>1. Present(n)' => Present(n)
    BY <1>11 DEF vars, Present
  <2> QED BY <1>11, <2>1, RememberedKept DEF vars, Live
<1> QED
  BY <1>1, <1>2, <1>3, <1>4, <1>5, <1>6, <1>7, <1>8, <1>9, <1>10, <1>11 DEF Next, Failing
-----------------------------------------------------------------------------

RuledInv ==
    SmoothInv /\ budget["edits"] = 0 /\ \A n \in Node : Remembered(n)

LEMMA RuledNext == RuledInv /\ [Next]_vars => RuledInv'
<1> SUFFICES ASSUME RuledInv, [Next]_vars PROVE RuledInv'
  OBVIOUS
<1>1. SmoothInv' /\ ~Failing
  BY SmoothNext DEF RuledInv
<1>2. ~EditConfigs
  BY DEF RuledInv, EditConfigs, Spend
<1>3. budget'["edits"] = 0
  BY NothingLeft DEF RuledInv, SmoothInv, TypeInv, Disturbance
<1>4. \A n \in Node : Remembered(n)'
  BY <1>1, <1>2, RememberedNext DEF RuledInv, SmoothInv, StepOK
<1> QED BY <1>1, <1>3, <1>4 DEF RuledInv

LEMMA RuledHolds ==
    ASSUME Budget["faults"] = 0, Budget["edits"] = 0
    PROVE  Spec => []RuledInv
<1>1. Init => RuledInv
  <2>1. Init => budget["faults"] = 0 /\ budget["edits"] = 0
    BY DEF Init
  <2>2. Init => \A n \in Node : Remembered(n)
    BY DEF Init, StoreInit, Remembered, HasWork
  <2> QED BY <2>1, <2>2, TypeInit, SafeInit, StepInit DEF RuledInv, SmoothInv
<1> QED BY <1>1, RuledNext, PTL DEF Spec

(* While API calls only succeed or conflict and the rules stay, an edit is *)
(* one step of the lifecycle and whoever drops the key of a report with    *)
(* work to do has an outdated pointer.                                     *)
THEOREM WorkHolds ==
    ASSUME Budget["faults"] = 0, Budget["edits"] = 0
    PROVE  Spec => []WorkInv
<1>1. RuledInv => WorkInv
  BY StepIs DEF RuledInv, SmoothInv, WorkInv
<1> QED BY <1>1, RuledHolds, PTL

(* Although handlers drop keys on many paths, no report with work to do is *)
(* ever without a queued key, a version on its way or somebody who holds   *)
(* it (nIRcontroller.go:232-267, 536-540, 648-652).                        *)
THEOREM NoWorkIsLost ==
    ASSUME Budget["faults"] = 0, Budget["edits"] = 0
    PROVE  Spec => []NoLostWork
<1>1. WorkInv => NoLostWork
  <2>1. \A t, n : Live(t, n) => held[t].node = n
    BY DEF Live
  <2> QED BY <2>1 DEF WorkInv, Remembered, Tended, NoLostWork
<1> QED BY <1>1, WorkHolds, PTL
=============================================================================
