------------------------ MODULE NIRControllerProofs ------------------------
(***************************************************************************)
(* Type correctness of NIRController, for every value of the constants.    *)
(*                                                                         *)
(* TypeOK alone is not inductive: a worker edits the cached object it      *)
(* holds, which has the fields of a report only because a pointer whose    *)
(* object the watch has deleted is an orphan.  Pointers says so.           *)
(***************************************************************************)
EXTENDS NIRProperties, TLAPS, SequenceTheorems, WellFoundedInduction

LEMMA SmallestIndex ==
    ASSUME NEW S \in SUBSET Nat, S # {}
    PROVE  \E i \in S : \A j \in S : i <= j
<1> DEFINE R == {p \in Nat \X Nat : p[1] < p[2]}
<1>1. IsWellFoundedOn(R, Nat)
  BY NatLessThanWellFounded DEF OpToRel
<1> HIDE DEF R
<1>2. PICK i \in S : \A j \in S : ~(<<j, i>> \in R)
  BY <1>1, WFMin
<1>3. \A j, k \in Nat : j < k => <<j, k>> \in R
  BY DEF R
<1>4. ASSUME NEW j \in S PROVE i <= j
  <2>1. i \in Nat /\ j \in Nat
    OBVIOUS
  <2>2. ~(j < i)
    BY <1>2, <1>3, <2>1
  <2> QED BY <2>1, <2>2
<1> QED BY <1>4

LEMMA PolicyType ==
    ASSUME TypeOK, NEW n \in Node
    PROVE  Policy(n) \in Entry \cup {NoEntry}
<1>1. configs \in Seq(Entry)
  BY ControllerAssumption DEF TypeOK
<1>2. DOMAIN configs = 1 .. Len(configs) /\ \A i \in DOMAIN configs : configs[i] \in Entry
  BY <1>1, ElementOfSeq, LenProperties
<1>3. CASE Matching(n) # {}
  <2>1. Matching(n) \in SUBSET Nat
    BY <1>1, <1>2 DEF Matching
  <2>2. PICK i \in Matching(n) : \A j \in Matching(n) : i <= j
    BY <1>3, <2>1, SmallestIndex
  <2>3. (CHOOSE k \in Matching(n) : \A j \in Matching(n) : k <= j) \in Matching(n)
    BY <2>2
  <2> QED BY <1>2, <1>3, <2>3 DEF Policy, Matching
<1> QED BY <1>3 DEF Policy
-----------------------------------------------------------------------------
(* The strengthening.                                                      *)

Pointers ==
    /\ \A t \in Thread : pc[t] # "idle" => held[t].node \in Node
    /\ \A w \in Worker : pc[w] # "idle" =>
          held[w].ref = "orphan" \/ cache[held[w].node] # NoReport

TypeInv == TypeOK /\ Pointers

Stored == Report \cup {NoReport}
-----------------------------------------------------------------------------
(* What the helpers return.                                                *)

LEMMA ThreadKinds ==
    Worker \subseteq Thread /\ Writer \subseteq Thread /\ Cleaner \in Thread
BY ControllerAssumption

LEMMA ReportEdits ==
    ASSUME NEW r \in Report
    PROVE  /\ r # NoReport
           /\ Settled(r) \in Report
           /\ \A p \in Phase : InPhase(r, p) \in Report
           /\ \A s \in 0 .. ScoreCap : [r EXCEPT !.problems = TRUE, !.score = s] \in Report
<1>1. r # NoReport
  BY NoReportAssumption
<1>2. Settled(r) \in Report
  BY DEF Settled, Report, Phase, Action
<1>3. \A p \in Phase : InPhase(r, p) \in Report
  BY DEF InPhase, Report
<1>4. \A s \in 0 .. ScoreCap : [r EXCEPT !.problems = TRUE, !.score = s] \in Report
  BY DEF Report
<1> QED BY <1>1, <1>2, <1>3, <1>4

LEMMA OlderType ==
    \A t \in Stamp : Older(t) \in Stamp
BY StoreAssumption DEF Older, Stamp, Zero

LEMMA AgedType ==
    ASSUME NEW r \in Stored
    PROVE  Aged(r) \in Stored /\ (r # NoReport => Aged(r) # NoReport)
<1>1. CASE r = NoReport
  BY <1>1 DEF Aged
<1>2. CASE r # NoReport
  <2>1. r \in Report /\ r.lastAction \in Stamp
    BY <1>2 DEF Report, Stored
  <2>2. [r EXCEPT !.lastAction = Older(@)] \in Report
    BY <2>1, OlderType DEF Report
  <2> QED BY <1>2, <2>2, NoReportAssumption DEF Aged, Stored
<1> QED BY <1>1, <1>2

LEMMA LookupType ==
    ASSUME NEW n \in Node
    PROVE  Lookup(n) \in Hold /\ Lookup(n).node = n
BY DEF Lookup, Hold, Ref

LEMMA PersistType ==
    ASSUME StoreTypeOK, NEW n \in Node, NEW r \in Stored, NEW h \in [Thread -> Hold],
           Persist(n, r, h), cache' = cache
    PROVE  /\ StoreTypeOK'
           /\ \A t \in Thread : held'[t].node = h[t].node
           /\ \A t \in Thread : h[t].ref = "orphan" => held'[t].ref = "orphan"
<1>1. api' \in [Node -> Stored]
  BY DEF Persist, StoreTypeOK, Stored
<1>2. watch' \in [Node -> Seq(Stored)]
  <2>1. Append(watch[n], r) \in Seq(Stored)
    BY AppendProperties DEF StoreTypeOK, Stored
  <2> QED BY <2>1 DEF Persist, StoreTypeOK, Stored
<1>3. held' \in [Thread -> Hold]
  BY DEF Persist, Outdated, Hold, Ref
<1>4. \A t \in Thread : held'[t].node = h[t].node
  BY DEF Persist, Outdated
<1>5. \A t \in Thread : h[t].ref = "orphan" => held'[t].ref = "orphan"
  BY DEF Persist, Outdated
<1> QED BY <1>1, <1>2, <1>3, <1>4, <1>5 DEF StoreTypeOK, Stored
-----------------------------------------------------------------------------
(* One lemma for each shape of step.                                       *)

LEMMA TypeBegin ==
    ASSUME TypeInv, NEW w \in Worker, NEW n \in Node,
           NEW r \in Report, NEW l \in Label, Begin(w, n, r, l)
    PROVE  TypeInv'
<1> USE ThreadKinds DEF TypeInv, TypeOK, StoreTypeOK, Begin
<1>1. held' \in [Thread -> Hold]
  BY LookupType
<1>2. cache' \in [Node -> Report \cup {NoReport}]
  OBVIOUS
<1>3. pc' \in [Thread -> Label]
  OBVIOUS
<1>4. \A t \in Thread : pc'[t] # "idle" => held'[t].node \in Node
  BY LookupType DEF Pointers
<1>5. ASSUME NEW v \in Worker, pc'[v] # "idle"
      PROVE  held'[v].ref = "orphan" \/ cache'[held'[v].node] # NoReport
  <2>1. CASE v = w
    BY <2>1, LookupType, NoReportAssumption
  <2>2. CASE v # w
    BY <1>5, <2>2, NoReportAssumption DEF Pointers
  <2> QED BY <2>1, <2>2
<1>6. queue' \subseteq Node
  OBVIOUS
<1> QED BY <1>1, <1>2, <1>3, <1>4, <1>5, <1>6 DEF Pointers

LEMMA TypeDrop ==
    ASSUME TypeInv, NEW w \in Worker, NEW n \in Node, Drop(w, n)
    PROVE  TypeInv'
BY DEF TypeInv, TypeOK, StoreTypeOK, Pointers, Drop

(* A goroutine lets go of its report and changes none.                     *)
LEMMA TypeRelease ==
    ASSUME TypeInv, NEW t \in Thread,
           held' = Released(t), pc' = [pc EXCEPT ![t] = "idle"],
           queue' \subseteq Node, node' \in [Node -> NodeRecord],
           configs' \in ConfigChoices, budget' \in [Disturbance -> Nat],
           UNCHANGED <<api, cache, watch>>
    PROVE  TypeInv'
<1> USE ThreadKinds DEF TypeInv, TypeOK, StoreTypeOK, Released
<1>1. held' \in [Thread -> Hold]
  BY DEF Hold, Ref, Nothing
<1>2. pc' \in [Thread -> Label]
  BY DEF Label
<1>3. Pointers'
  BY DEF Pointers, Label
<1> QED BY <1>1, <1>2, <1>3

LEMMA TypeProceed ==
    ASSUME TypeInv, NEW w \in Worker, pc[w] # "idle",
           NEW m \in NodeRecord, NEW l \in Label, NEW r,
           held[w].ref # "orphan" => r \in Report,
           Proceed(w, m, r, l)
    PROVE  TypeInv'
<1> USE ThreadKinds DEF TypeInv, TypeOK, StoreTypeOK, Proceed
<1>1. held[w].node \in Node
  BY DEF Pointers
<1>2. cache' \in [Node -> Report \cup {NoReport}]
  BY <1>1 DEF Edited
<1>3. \A n \in Node : cache[n] # NoReport => cache'[n] # NoReport
  BY <1>1, NoReportAssumption DEF Edited
<1>4. pc' \in [Thread -> Label]
  OBVIOUS
<1>5. node' \in [Node -> NodeRecord]
  BY <1>1
<1>6. Pointers'
  BY <1>1, <1>3 DEF Pointers
<1> QED BY <1>2, <1>4, <1>5, <1>6

LEMMA TypePersist ==
    ASSUME TypeInv, NEW n \in Node, NEW r \in Stored, NEW h \in [Thread -> Hold],
           Persist(n, r, h), UNCHANGED <<cache, node, configs>>,
           pc' \in [Thread -> Label], queue' \subseteq Node,
           budget' \in [Disturbance -> Nat],
           \A t \in Thread : pc'[t] # "idle" => pc[t] # "idle" /\ h[t] = held[t]
    PROVE  TypeInv'
<1> USE ThreadKinds DEF TypeInv
<1>1. /\ StoreTypeOK'
      /\ \A t \in Thread : held'[t].node = h[t].node
      /\ \A t \in Thread : h[t].ref = "orphan" => held'[t].ref = "orphan"
  <2>1. StoreTypeOK /\ cache' = cache
    BY DEF TypeOK
  <2> QED BY <2>1, PersistType
<1>2. Pointers'
  BY <1>1 DEF Pointers
<1> QED BY <1>1, <1>2 DEF TypeOK

LEMMA TypeRemove ==
    ASSUME TypeInv, NEW n \in Node, NEW h \in [Thread -> Hold],
           Remove(n, h), UNCHANGED <<cache, node, configs, budget>>,
           pc' \in [Thread -> Label], queue' \subseteq Node,
           \A t \in Thread : pc'[t] # "idle" => pc[t] # "idle" /\ h[t] = held[t]
    PROVE  TypeInv'
<1>1. CASE api[n] = NoReport
  BY <1>1, ThreadKinds DEF TypeInv, TypeOK, StoreTypeOK, Pointers, Remove
<1>2. CASE api[n] # NoReport
  <2>1. budget' \in [Disturbance -> Nat]
    BY DEF TypeInv, TypeOK
  <2> QED BY <1>2, <2>1, TypePersist DEF Remove, Stored
<1> QED BY <1>1, <1>2

LEMMA SpendType ==
    ASSUME TypeOK, NEW what \in Disturbance, Spend(what)
    PROVE  budget' \in [Disturbance -> Nat]
BY DEF TypeOK, Spend

LEMMA TypeFinish ==
    ASSUME TypeInv, NEW w \in Worker, NEW again, Finish(w, again), pc[w] # "idle"
    PROVE  /\ pc' = [pc EXCEPT ![w] = "idle"]
           /\ pc' \in [Thread -> Label]
           /\ queue' \subseteq Node
BY ThreadKinds DEF TypeInv, TypeOK, Pointers, Finish, Label
-----------------------------------------------------------------------------
(* The actions.                                                            *)

LEMMA TypeTake ==
    ASSUME TypeInv, NEW w \in Worker, NEW n \in Node, Take(w, n)
    PROVE  TypeInv'
<1> USE DEF Label, Retried, Notifying, Draining, Saving
<1>1. CASE TakeMissing(w, n)
  BY <1>1, TypeDrop DEF TakeMissing
<1>2. ASSUME cache[n] # NoReport, TakeReport(w, n)
      PROVE  TypeInv'
  <2>1. cache[n] \in Report
    BY <1>2 DEF TypeInv, TypeOK, StoreTypeOK
  <2>2. CASE TakeDrained(w, n)
    BY <2>1, <2>2, TypeBegin DEF TakeDrained
  <2>3. CASE TakeNewJoined(w, n)
    BY <2>1, <2>3, TypeBegin DEF TakeNewJoined
  <2>4. CASE TakeDetached(w, n)
    <3>1. InPhase(cache[n], "newjoined") \in Report
      BY <2>1, ReportEdits DEF Phase
    <3> QED BY <2>4, <3>1, TypeBegin DEF TakeDetached
  <2>5. CASE TakeReplace(w, n)
    BY <2>1, <2>5, TypeBegin DEF TakeReplace
  <2>6. CASE TakeRebooted(w, n)
    BY <2>1, <2>6, TypeBegin DEF TakeRebooted
  <2>7. CASE TakeReboot(w, n)
    BY <2>1, <2>7, TypeBegin DEF TakeReboot
  <2>8. CASE TakeDenied(w, n)
    BY <2>1, <2>8, TypeBegin DEF TakeDenied
  <2>9. CASE TakeDryRun(w, n)
    BY <2>1, <2>9, TypeBegin, ReportEdits DEF TakeDryRun
  <2>10. CASE TakeStart(w, n)
    BY <2>1, <2>10, TypeBegin DEF TakeStart
  <2>11. CASE TakeUnknownAction(w, n)
    BY <2>11, TypeDrop DEF TakeUnknownAction
  <2>12. CASE TakeOverflow(w, n)
    <3> DEFINE r == [cache[n] EXCEPT !.score = 0, !.lastAction = 0]
               up == [r EXCEPT !.action = Policy(n).escalate, !.escalated = TRUE]
               act == [r EXCEPT !.action = Policy(n).action]
    <3>1. Policy(n).escalate \in Action /\ Policy(n).action \in Action
      <4>1. Policy(n) \in Entry
        BY <2>12, PolicyType DEF TypeInv, TakeOverflow, Overflow
      <4> QED BY <4>1 DEF Entry
    <3>2. r \in Report
      <4>1. 0 \in 0 .. ScoreCap /\ 0 \in Stamp
        BY StoreAssumption DEF Stamp
      <4> QED BY <2>1, <4>1 DEF Report
    <3>3. up \in Report /\ act \in Report
      <4> HIDE DEF r
      <4> QED BY <3>1, <3>2 DEF Report
    <3>4. Begin(w, n, IF WithinCooldown(n) THEN up ELSE act, "saveLog")
      BY <2>12 DEF TakeOverflow
    <3>5. (IF WithinCooldown(n) THEN up ELSE act) \in Report
      BY <3>3
    <3> HIDE DEF up, act
    <3> QED BY <3>4, <3>5, TypeBegin
  <2>13. CASE TakeQuiet(w, n)
    BY <2>13, TypeDrop DEF TakeQuiet
  <2> QED
    BY <1>2, <2>2, <2>3, <2>4, <2>5, <2>6, <2>7, <2>8, <2>9, <2>10, <2>11, <2>12, <2>13
       DEF TakeReport
<1> QED BY <1>1, <1>2 DEF Take, TakeReport

(* What a busy worker may use: its node, and its report if not orphaned.   *)
LEMMA Busy ==
    ASSUME TypeInv, NEW w \in Worker, pc[w] # "idle"
    PROVE  /\ held[w].node \in Node
           /\ Here(w) \in NodeRecord
           /\ held[w].ref # "orphan" => Mine(w) \in Report
           /\ Mine(w) \in Stored
BY ThreadKinds DEF TypeInv, TypeOK, StoreTypeOK, Pointers, Here, Mine, Stored

LEMMA TypeRetry ==
    ASSUME TypeInv, NEW w \in Worker, pc[w] # "idle", Retry(w),
           budget' \in [Disturbance -> Nat]
    PROVE  TypeInv'
<1>1. /\ pc' = [pc EXCEPT ![w] = "idle"] /\ queue' \subseteq Node
      /\ held' = Released(w)
      /\ UNCHANGED <<api, cache, watch, node, configs>>
  BY TypeFinish DEF Retry
<1>2. node' \in [Node -> NodeRecord] /\ configs' \in ConfigChoices
  BY <1>1 DEF TypeInv, TypeOK
<1> QED BY <1>1, <1>2, TypeRelease, ThreadKinds

LEMMA TypeSave ==
    ASSUME TypeInv, NEW w \in Worker, pc[w] # "idle", NEW again, Finish(w, again),
           Persist(held[w].node, Mine(w), Released(w)),
           UNCHANGED <<cache, node, configs>>, budget' \in [Disturbance -> Nat]
    PROVE  TypeInv'
<1>1. Released(w) \in [Thread -> Hold]
  BY DEF TypeInv, TypeOK, StoreTypeOK, Released, Hold, Ref, Nothing
<1>2. /\ pc' \in [Thread -> Label] /\ queue' \subseteq Node
      /\ \A t \in Thread : pc'[t] # "idle" => pc[t] # "idle" /\ Released(w)[t] = held[t]
  BY TypeFinish DEF Released, TypeInv, TypeOK, StoreTypeOK
<1> QED BY <1>1, <1>2, TypePersist, Busy

LEMMA TypeWork ==
    ASSUME TypeInv, NEW w \in Worker, Work(w)
    PROVE  TypeInv'
<1> USE DEF Label, Retried, Notifying, Draining, Saving, At
<1>0. pc[w] # "idle"
  BY DEF Work, Start, Reboot, Detach, DetachRefused, Cordon, EvictOld, EvictReboot,
         ForceCordon, ForceStale, ForceTaint, Uncordon, NodeGone, Notify,
         DeleteNode, DeleteReport, DeletePaged, SelfReport, SelfNodeGone, Save, SaveConflict
<1> DEFINE n == held[w].node
<1>a. /\ n \in Node /\ Here(w) \in NodeRecord
      /\ held[w].ref # "orphan" =>
           /\ Mine(w) \in Report /\ Settled(Mine(w)) \in Report
           /\ \A p \in Phase : InPhase(Mine(w), p) \in Report
  BY <1>0, Busy, ReportEdits
<1>b. ASSUME NEW m \in NodeRecord, NEW l \in Label, NEW r,
             held[w].ref # "orphan" => r \in Report, Proceed(w, m, r, l)
      PROVE  TypeInv'
  BY <1>0, <1>b, TypeProceed
<1>c. budget' = budget => budget' \in [Disturbance -> Nat]
  BY DEF TypeInv, TypeOK
<1>d. /\ Released(w) \in [Thread -> Hold] /\ held \in [Thread -> Hold]
      /\ \A t \in Thread : t # w => Released(w)[t] = held[t]
  BY DEF TypeInv, TypeOK, StoreTypeOK, Released, Hold, Ref, Nothing
<1> HIDE DEF n
<1>e. ASSUME NEW again, Finish(w, again), Remove(n, Released(w)),
             UNCHANGED <<cache, node, configs, budget>>
      PROVE  TypeInv'
  <2>1. /\ pc' \in [Thread -> Label] /\ queue' \subseteq Node
        /\ \A t \in Thread : pc'[t] # "idle" => pc[t] # "idle" /\ Released(w)[t] = held[t]
    BY <1>0, <1>d, <1>e, TypeFinish DEF TypeInv, TypeOK
  <2> QED BY <1>a, <1>d, <1>e, <2>1, TypeRemove
<1>1. CASE Start(w)
  BY <1>1, <1>a, <1>b DEF Start, Phase
<1>2. CASE Reboot(w)
  <2>1. [Here(w) EXCEPT !.boot = "requested", !.rebootAge = 0] \in NodeRecord
    <3>1. 0 \in Stamp
      BY StoreAssumption DEF Stamp
    <3> QED BY <1>a, <3>1 DEF NodeRecord
  <2> QED BY <1>2, <1>a, <1>b, <2>1 DEF Reboot, Phase
<1>3. CASE Detach(w)
  <2>1. [Here(w) EXCEPT !.inAsg = FALSE] \in NodeRecord
    BY <1>a DEF NodeRecord
  <2> QED BY <1>3, <1>a, <1>b, <2>1 DEF Detach, Phase
<1>4. CASE DetachRefused(w) \/ ForceStale(w) \/ NodeGone(w)
  BY <1>4, <1>0, <1>c, TypeRetry DEF DetachRefused, ForceStale, NodeGone
<1>5. CASE Cordon(w) \/ ForceCordon(w)
  <2>1. [Here(w) EXCEPT !.cordoned = TRUE] \in NodeRecord
    BY <1>a DEF NodeRecord
  <2> QED BY <1>5, <1>a, <1>b, <2>1 DEF Cordon, ForceCordon
<1>6. CASE EvictOld(w) \/ EvictReboot(w)
  <2>1. [Here(w) EXCEPT !.pods = FALSE] \in NodeRecord
    BY <1>a DEF NodeRecord
  <2> QED BY <1>6, <1>a, <1>b, <2>1 DEF EvictOld, EvictReboot, Phase
<1>7. CASE ForceTaint(w)
  <2>1. PICK left \in {Here(w).pods, FALSE} :
           Proceed(w, [Here(w) EXCEPT !.tainted = TRUE, !.pods = left],
                   InPhase(Mine(w), "drained"), "saveRetry")
    BY <1>7 DEF ForceTaint
  <2>2. [Here(w) EXCEPT !.tainted = TRUE, !.pods = left] \in NodeRecord
    <3>1. left \in BOOLEAN
      BY <1>a DEF NodeRecord
    <3> QED BY <1>a, <3>1 DEF NodeRecord
  <2> QED BY <1>a, <1>b, <2>1, <2>2 DEF Phase
<1>8. CASE Uncordon(w)
  <2>1. [Here(w) EXCEPT !.cordoned = FALSE] \in NodeRecord
    BY <1>a DEF NodeRecord
  <2> QED BY <1>8, <1>a, <1>b, <2>1 DEF Uncordon
<1>9. CASE Notify(w)
  BY <1>9, <1>a, <1>b DEF Notify
<1>10. CASE DeleteNode(w) \/ SelfNodeGone(w)
  <2>1. [Here(w) EXCEPT !.place = "gone"] \in NodeRecord
    BY <1>a DEF NodeRecord
  <2> QED BY <1>10, <1>a, <1>b, <2>1 DEF DeleteNode, SelfNodeGone
<1>11. CASE DeleteReport(w) \/ DeletePaged(w)
  BY <1>11, <1>e DEF DeleteReport, DeletePaged, n
<1>12. CASE SelfReport(w)
  <2>1. /\ pc' \in [Thread -> Label] /\ queue' \subseteq Node
        /\ \A t \in Thread : pc'[t] # "idle" => pc[t] # "idle" /\ held[t] = held[t]
    BY <1>12, <1>0, ThreadKinds DEF SelfReport, TypeInv, TypeOK
  <2> QED BY <1>12, <1>a, <1>d, <2>1, TypeRemove DEF SelfReport, n
<1>13. CASE Save(w)
  BY <1>13, <1>0, <1>c, TypeSave DEF Save
<1>14. CASE SaveConflict(w)
  <2>1. /\ pc' = [pc EXCEPT ![w] = "idle"] /\ queue' \subseteq Node
        /\ held' = Released(w)
        /\ UNCHANGED <<api, cache, watch, node, configs, budget>>
    BY <1>14, <1>0, TypeFinish DEF SaveConflict
  <2>2. /\ node' \in [Node -> NodeRecord] /\ configs' \in ConfigChoices
        /\ budget' \in [Disturbance -> Nat]
    BY <2>1 DEF TypeInv, TypeOK
  <2> QED BY <2>1, <2>2, TypeRelease, ThreadKinds
<1> QED
  BY <1>1, <1>2, <1>3, <1>4, <1>5, <1>6, <1>7, <1>8, <1>9, <1>10, <1>11, <1>12,
     <1>13, <1>14 DEF Work

LEMMA TypeFault ==
    ASSUME TypeInv, NEW w \in Worker, Fault(w)
    PROVE  TypeInv'
<1> USE DEF Label, Retried, Notifying, Draining, Saving, At
<1>0. pc[w] # "idle"
  BY DEF Fault, CallFails, CallLost, SaveFails, DeleteReportFails, SelfCallFails
<1>a. budget' \in [Disturbance -> Nat]
  BY SpendType DEF Fault, CallFails, CallLost, SaveFails, DeleteReportFails,
                   SelfCallFails, TypeInv, Disturbance
<1>b. held[w].node \in Node /\ Here(w) \in NodeRecord
  BY <1>0, Busy
<1>c. ASSUME NEW again, Finish(w, again), held' = Released(w),
             node' \in [Node -> NodeRecord], UNCHANGED <<api, cache, watch, configs>>
      PROVE  TypeInv'
  <2>1. /\ pc' = [pc EXCEPT ![w] = "idle"] /\ queue' \subseteq Node
        /\ configs' \in ConfigChoices
    BY <1>0, <1>c, TypeFinish DEF TypeInv, TypeOK
  <2> QED BY <1>a, <1>c, <2>1, TypeRelease, ThreadKinds
<1>d. node' = node => node' \in [Node -> NodeRecord]
  BY DEF TypeInv, TypeOK
<1>1. CASE CallFails(w)
  BY <1>1, <1>0, <1>a, TypeRetry DEF CallFails
<1>2. CASE CallLost(w)
  <2>1. /\ [Here(w) EXCEPT !.inAsg = FALSE] \in NodeRecord
        /\ [Here(w) EXCEPT !.place = "gone"] \in NodeRecord
    BY <1>b DEF NodeRecord
  <2>2. [Here(w) EXCEPT !.boot = "requested", !.rebootAge = 0] \in NodeRecord
    <3>1. 0 \in Stamp
      BY StoreAssumption DEF Stamp
    <3> QED BY <1>b, <3>1 DEF NodeRecord
  <2>3. \E m \in NodeRecord : node' = [node EXCEPT ![held[w].node] = m]
    BY <1>2, <2>1, <2>2 DEF CallLost, Here
  <2>4. node' \in [Node -> NodeRecord]
    BY <1>b, <2>3 DEF TypeInv, TypeOK
  <2> QED BY <1>2, <1>c, <2>4 DEF CallLost
<1>3. CASE SaveFails(w)
  <2>1. CASE held' = Released(w) /\ UNCHANGED <<api, watch>>
    BY <1>3, <1>c, <1>d, <2>1 DEF SaveFails
  <2>2. CASE Persist(held[w].node, Mine(w), Released(w))
    BY <1>3, <1>0, <1>a, <2>2, TypeSave DEF SaveFails
  <2> QED BY <1>3, <2>1, <2>2 DEF SaveFails
<1>4. CASE DeleteReportFails(w)
  BY <1>4, <1>c, <1>d DEF DeleteReportFails
<1>5. CASE SelfCallFails(w)
  <2>1. CASE held' = held
    BY <1>5, <1>0, <1>a, <2>1, ThreadKinds
       DEF SelfCallFails, TypeInv, TypeOK, StoreTypeOK, Pointers
  <2>2. CASE pc' = [pc EXCEPT ![w] = "idle"] /\ held' = Released(w)
    <3>1. /\ queue' \subseteq Node /\ node' \in [Node -> NodeRecord]
          /\ configs' \in ConfigChoices /\ UNCHANGED <<api, cache, watch>>
      BY <1>5 DEF SelfCallFails, TypeInv, TypeOK
    <3> QED BY <1>a, <2>2, <3>1, TypeRelease, ThreadKinds
  <2> QED BY <1>5, <2>1, <2>2 DEF SelfCallFails
<1> QED BY <1>1, <1>2, <1>3, <1>4, <1>5 DEF Fault

LEMMA TypeCleaner ==
    ASSUME TypeInv,
           (\E n \in Node : CleanerFinds(n)) \/ CleanerDeletes \/ CleanerFails
    PROVE  TypeInv'
<1> USE ThreadKinds DEF Label, At
<1>1. ASSUME NEW n \in Node, CleanerFinds(n)
      PROVE  TypeInv'
  <2>1. held' \in [Thread -> Hold]
    BY <1>1, LookupType DEF CleanerFinds, TypeInv, TypeOK, StoreTypeOK
  <2>2. Pointers'
    BY <1>1, LookupType, ControllerAssumption
       DEF CleanerFinds, TypeInv, TypeOK, StoreTypeOK, Pointers
  <2> QED BY <1>1, <2>1, <2>2 DEF CleanerFinds, TypeInv, TypeOK, StoreTypeOK
<1>2. CASE CleanerDeletes
  <2>1. held[Cleaner].node \in Node
    BY <1>2 DEF CleanerDeletes, TypeInv, Pointers
  <2>2. /\ Released(Cleaner) \in [Thread -> Hold]
        /\ \A t \in Thread : t # Cleaner => Released(Cleaner)[t] = held[t]
    BY DEF TypeInv, TypeOK, StoreTypeOK, Released, Hold, Ref, Nothing
  <2>3. /\ pc' \in [Thread -> Label] /\ queue' \subseteq Node
        /\ \A t \in Thread : pc'[t] # "idle" => pc[t] # "idle" /\ Released(Cleaner)[t] = held[t]
    BY <1>2, <2>2 DEF CleanerDeletes, TypeInv, TypeOK
  <2> QED BY <1>2, <2>1, <2>2, <2>3, TypeRemove DEF CleanerDeletes
<1>3. CASE CleanerFails
  <2>1. budget' \in [Disturbance -> Nat]
    BY <1>3, SpendType DEF CleanerFails, TypeInv, Disturbance
  <2>2. /\ queue' \subseteq Node /\ node' \in [Node -> NodeRecord]
        /\ configs' \in ConfigChoices
    BY <1>3 DEF CleanerFails, TypeInv, TypeOK
  <2> QED BY <1>3, <2>1, <2>2, TypeRelease DEF CleanerFails
<1> QED BY <1>1, <1>2, <1>3

LEMMA TypeCreate ==
    ASSUME TypeInv, NEW n \in Node, EventCreates(n) \/ NodeCreates(n)
    PROVE  TypeInv'
<1>1. PICK status \in NodeStatus, problems \in BOOLEAN, s \in 0 .. ScoreCap :
         Create(n, status, problems, s)
  <2>1. 0 \in 0 .. ScoreCap
    BY StoreAssumption
  <2> QED BY <2>1 DEF EventCreates, NodeCreates, NodeStatus
<1>2. Opened(status, problems, s) \in Stored
  BY DEF Opened, Stored, Report, Action, Phase, Stamp
<1>3. budget' \in [Disturbance -> Nat]
  BY <1>1, SpendType DEF Create, TypeInv, Disturbance
<1>4. /\ held \in [Thread -> Hold] /\ pc' \in [Thread -> Label] /\ queue' \subseteq Node
      /\ pc' = pc
  BY <1>1 DEF Create, TypeInv, TypeOK, StoreTypeOK
<1> QED BY <1>1, <1>2, <1>3, <1>4, TypePersist DEF Create

LEMMA TypeWrite ==
    ASSUME TypeInv, NEW f \in Writer, NEW n \in Node, Write(f, n)
    PROVE  TypeInv'
<1> USE ThreadKinds DEF Label
<1>1. ASSUME NEW r \in Stored, NEW l \in {"commit", "remove"},
             cache[n] # NoReport => r # NoReport, WriterBegins(f, n, r, l)
      PROVE  TypeInv'
  <2>1. budget' \in [Disturbance -> Nat]
    BY <1>1, SpendType DEF WriterBegins, TypeInv, Disturbance
  <2>2. held' \in [Thread -> Hold]
    BY <1>1, LookupType DEF WriterBegins, TypeInv, TypeOK, StoreTypeOK
  <2>3. cache' \in [Node -> Report \cup {NoReport}]
    BY <1>1 DEF WriterBegins, TypeInv, TypeOK, StoreTypeOK, Stored
  <2>4. Pointers'
    <3>1. \A t \in Thread : pc'[t] # "idle" => held'[t].node \in Node
      BY <1>1, LookupType DEF WriterBegins, TypeInv, TypeOK, StoreTypeOK, Pointers
    <3>2. \A w \in Worker : w # f
      BY ControllerAssumption
    <3>3. \A m \in Node : cache[m] # NoReport => cache'[m] # NoReport
      BY <1>1 DEF WriterBegins, TypeInv, TypeOK, StoreTypeOK
    <3>4. \A w \in Worker : pc'[w] # "idle" => pc[w] # "idle" /\ held'[w] = held[w]
      BY <1>1, <3>2 DEF WriterBegins, TypeInv, TypeOK, StoreTypeOK
    <3> QED BY <3>1, <3>3, <3>4 DEF TypeInv, Pointers
  <2> QED
    BY <1>1, <2>1, <2>2, <2>3, <2>4 DEF WriterBegins, TypeInv, TypeOK, StoreTypeOK
<1>2. ASSUME cache[n] # NoReport
      PROVE  cache[n] \in Report
  BY <1>2 DEF TypeInv, TypeOK, StoreTypeOK
<1>3. CASE EventRecorded(f, n)
  <2>1. PICK s \in 0 .. ScoreCap :
           WriterBegins(f, n, [cache[n] EXCEPT !.problems = TRUE, !.score = s], "commit")
    BY <1>3 DEF EventRecorded
  <2>2. [cache[n] EXCEPT !.problems = TRUE, !.score = s] \in Report
    BY <1>2, <1>3, ReportEdits DEF EventRecorded
  <2> HIDE DEF Label
  <2> QED BY <1>1, <2>1, <2>2, NoReportAssumption DEF Stored
<1>4. CASE StatusRecorded(f, n)
  <2>1. [cache[n] EXCEPT !.status = StatusOf(n)] \in Report
    BY <1>2, <1>4 DEF StatusRecorded, Report, StatusOf, NodeStatus
  <2> QED BY <1>1, <1>4, <2>1, NoReportAssumption DEF StatusRecorded, Stored
<1>5. CASE ReplaceRequested(f, n)
  <2>1. [cache[n] EXCEPT !.action = "replace",
                         !.status = IF node[n].ready = "Unknown" THEN "Unknown" ELSE @]
           \in Report
    BY <1>2, <1>5 DEF ReplaceRequested, Report, NodeStatus, Action
  <2> QED BY <1>1, <1>5, <2>1, NoReportAssumption DEF ReplaceRequested, Stored
<1>6. CASE ReportWithdrawn(f, n)
  <2>1. cache[n] \in Stored
    BY <1>2 DEF Stored
  <2> QED BY <1>1, <1>6, <2>1 DEF ReportWithdrawn
<1> QED BY <1>3, <1>4, <1>5, <1>6 DEF Write

LEMMA TypeWriterEnds ==
    ASSUME TypeInv, NEW f \in Writer, WriterSaves(f) \/ WriterDeletes(f)
    PROVE  TypeInv'
<1> USE ThreadKinds DEF Label, At
<1>1. held[f].node \in Node /\ Mine(f) \in Stored
  BY DEF WriterSaves, WriterDeletes, TypeInv, TypeOK, StoreTypeOK, Pointers, Mine, Stored
<1>2. /\ Released(f) \in [Thread -> Hold]
      /\ \A t \in Thread : t # f => Released(f)[t] = held[t]
  BY DEF TypeInv, TypeOK, StoreTypeOK, Released, Hold, Ref, Nothing
<1>3. /\ pc' \in [Thread -> Label] /\ queue' \subseteq Node
      /\ budget' \in [Disturbance -> Nat]
      /\ \A t \in Thread : pc'[t] # "idle" => pc[t] # "idle" /\ Released(f)[t] = held[t]
  BY <1>2 DEF WriterSaves, WriterDeletes, TypeInv, TypeOK
<1>4. CASE WriterSaves(f)
  <2>1. CASE Updatable(f)
    BY <1>1, <1>2, <1>3, <1>4, <2>1, TypePersist DEF WriterSaves
  <2>2. CASE ~Updatable(f)
    <3>1. /\ held' = Released(f) /\ pc' = [pc EXCEPT ![f] = "idle"]
          /\ node' \in [Node -> NodeRecord] /\ configs' \in ConfigChoices
          /\ UNCHANGED <<api, cache, watch>>
      BY <1>4, <2>2 DEF WriterSaves, TypeInv, TypeOK
    <3> QED BY <1>3, <3>1, TypeRelease
  <2> QED BY <2>1, <2>2
<1>5. CASE WriterDeletes(f)
  BY <1>1, <1>2, <1>3, <1>5, TypeRemove DEF WriterDeletes
<1> QED BY <1>4, <1>5

LEMMA TypeDeliver ==
    ASSUME TypeInv, NEW n \in Node, Deliver(n)
    PROVE  TypeInv'
<1>1. watch[n] \in Seq(Stored) /\ watch[n] # <<>>
  BY DEF Deliver, DeliverNext, TypeInv, TypeOK, StoreTypeOK, Stored
<1>2. Head(watch[n]) \in Stored /\ Tail(watch[n]) \in Seq(Stored)
  BY <1>1, HeadTailProperties
<1>3. held' \in [Thread -> Hold]
  BY DEF Deliver, DeliverNext, Replaced, Hold, Ref, TypeInv, TypeOK, StoreTypeOK
<1>4. Pointers'
  <2>1. \A t \in Thread :
           /\ held'[t].node = held[t].node
           /\ held[t].node = n \/ held[t].ref = "orphan" => held'[t].ref = "orphan"
    BY DEF Deliver, DeliverNext, Replaced
  <2>2. \A m \in Node : m # n => cache'[m] = cache[m]
    BY DEF Deliver, DeliverNext, TypeInv, TypeOK, StoreTypeOK
  <2>3. pc' = pc
    BY DEF Deliver
  <2> QED BY <2>1, <2>2, <2>3, ThreadKinds DEF TypeInv, Pointers
<1> QED
  BY <1>2, <1>3, <1>4 DEF Deliver, DeliverNext, TypeInv, TypeOK, StoreTypeOK, Stored

LEMMA TypeRestart ==
    ASSUME TypeInv, Restart, budget' \in [Disturbance -> Nat]
    PROVE  TypeInv'
<1>1. watch' \in [Node -> Seq(Stored)]
  <2>1. <<>> \in Seq(Stored)
    BY EmptySeq
  <2> QED BY <2>1 DEF Restart, Relist
<1>2. held' \in [Thread -> Hold]
  BY DEF Restart, Relist, Hold, Ref, Nothing
<1> QED
  BY <1>1, <1>2, ThreadKinds
     DEF Restart, Relist, TypeInv, TypeOK, StoreTypeOK, Stored, Pointers, Label

LEMMA TypeEnvironment ==
    ASSUME TypeInv, NEW n \in Node, Environment(n)
    PROVE  TypeInv'
<1>1. ASSUME NEW m \in NodeRecord, World(n, m), budget' \in [Disturbance -> Nat]
      PROVE  TypeInv'
  BY <1>1 DEF World, TypeInv, TypeOK, StoreTypeOK, Pointers
<1>2. budget' \in [Disturbance -> Nat]
  BY SpendType DEF Environment, Outage, Recover, GoesDown, ComesUp, Launch, ScaleOut,
     Vanish, PodsScheduled, TaintEvicts, Disturbance, TypeInv, TypeOK
<1>3. node[n] \in NodeRecord
  BY DEF TypeInv, TypeOK
<1>4. CASE Outage(n)
  <2>1. PICK s \in {"False", "Unknown"} : World(n, [node[n] EXCEPT !.ready = s])
    BY <1>4 DEF Outage
  <2>2. [node[n] EXCEPT !.ready = s] \in NodeRecord
    BY <1>3 DEF NodeRecord
  <2> QED BY <1>1, <1>2, <2>1, <2>2
<1>5. CASE Recover(n)
  <2>1. [node[n] EXCEPT !.ready = "True"] \in NodeRecord
    BY <1>3 DEF NodeRecord
  <2> QED BY <1>1, <1>2, <1>5, <2>1 DEF Recover
<1>6. CASE GoesDown(n)
  <2>1. [node[n] EXCEPT !.boot = "down", !.ready = "False"] \in NodeRecord
    BY <1>3 DEF NodeRecord
  <2> QED BY <1>1, <1>2, <1>6, <2>1 DEF GoesDown
<1>7. CASE ComesUp(n)
  <2>1. [node[n] EXCEPT !.boot = "steady", !.ready = "True"] \in NodeRecord
    BY <1>3 DEF NodeRecord
  <2> QED BY <1>1, <1>2, <1>7, <2>1 DEF ComesUp
<1>8. CASE Launch(n) \/ ScaleOut(n)
  <2>1. Fresh("present", 0) \in NodeRecord
    <3>1. 0 \in 0 .. AgeCap /\ Zero \in Stamp
      BY StoreAssumption DEF Stamp
    <3> QED BY <3>1 DEF Fresh, NodeRecord
  <2> QED BY <1>1, <1>2, <1>8, <2>1 DEF Launch, ScaleOut, Joined
<1>9. CASE Vanish(n)
  <2>1. [node[n] EXCEPT !.place = "gone"] \in NodeRecord
    BY <1>3 DEF NodeRecord
  <2> QED BY <1>1, <1>2, <1>9, <2>1 DEF Vanish
<1>10. CASE PodsScheduled(n) \/ TaintEvicts(n)
  <2>1. \A b \in BOOLEAN : [node[n] EXCEPT !.pods = b] \in NodeRecord
    BY <1>3 DEF NodeRecord
  <2> QED BY <1>1, <1>2, <1>10, <2>1 DEF PodsScheduled, TaintEvicts
<1> QED
  BY <1>4, <1>5, <1>6, <1>7, <1>8, <1>9, <1>10 DEF Environment

LEMMA TypeTick ==
    ASSUME TypeInv, Tick
    PROVE  TypeInv'
<1>1. /\ api' \in [Node -> Stored] /\ cache' \in [Node -> Stored]
      /\ \A n \in Node : cache[n] # NoReport => cache'[n] # NoReport
  BY AgedType DEF Tick, AgeReports, TypeInv, TypeOK, StoreTypeOK, Stored
<1>2. watch' \in [Node -> Seq(Stored)]
  <2>1. ASSUME NEW n \in Node
        PROVE  [i \in DOMAIN watch[n] |-> Aged(watch[n][i])] \in Seq(Stored)
    <3>1. watch[n] \in Seq(Stored)
      BY DEF TypeInv, TypeOK, StoreTypeOK, Stored
    <3>2. /\ Len(watch[n]) \in Nat /\ DOMAIN watch[n] = 1 .. Len(watch[n])
          /\ \A i \in 1 .. Len(watch[n]) : watch[n][i] \in Stored
      BY <3>1, LenProperties, ElementOfSeq
    <3>3. \A i \in 1 .. Len(watch[n]) : Aged(watch[n][i]) \in Stored
      BY <3>2, AgedType
    <3> QED BY <3>2, <3>3, IsASeq
  <2> QED BY <2>1 DEF Tick, AgeReports
<1>3. node' \in [Node -> NodeRecord]
  <2>1. ASSUME NEW m \in NodeRecord
        PROVE  AgeNode(m) \in NodeRecord
    <3>1. Older(m.rebootAge) \in Stamp
      BY OlderType DEF NodeRecord
    <3>2. (IF m.place = "present" THEN Older(m.age) ELSE m.age) \in 0 .. AgeCap
      <4>1. m.age \in 0 .. AgeCap
        BY DEF NodeRecord
      <4> QED BY <4>1, StoreAssumption DEF Older, Zero
    <3> QED BY <3>1, <3>2 DEF AgeNode, NodeRecord
  <2> QED BY <2>1 DEF Tick, TypeInv, TypeOK
<1>4. Pointers'
  BY <1>1, ThreadKinds DEF Tick, AgeReports, TypeInv, Pointers
<1> QED
  BY <1>1, <1>2, <1>3, <1>4 DEF Tick, AgeReports, TypeInv, TypeOK, StoreTypeOK, Stored
-----------------------------------------------------------------------------
LEMMA TypeInit == Init => TypeInv
<1> SUFFICES ASSUME Init PROVE TypeInv
  OBVIOUS
<1>1. StoreTypeOK
  <2>1. <<>> \in Seq(Stored)
    BY EmptySeq
  <2> QED BY <2>1 DEF Init, StoreInit, StoreTypeOK, Stored, Hold, Ref, Nothing
<1>2. \A n \in Node : node[n] \in NodeRecord
  <2>1. 0 \in 0 .. AgeCap /\ AgeCap \in 0 .. AgeCap /\ Zero \in Stamp
    BY StoreAssumption DEF Stamp
  <2>2. Fresh("absent", 0) \in NodeRecord /\ Fresh("present", AgeCap) \in NodeRecord
    BY <2>1 DEF Fresh, NodeRecord
  <2> QED BY <2>2 DEF Init
<1>3. node \in [Node -> NodeRecord]
  BY <1>2 DEF Init
<1> QED
  BY <1>1, <1>3, ThreadKinds, ControllerAssumption DEF Init, TypeInv, TypeOK, Pointers, Label

LEMMA TypeNext == TypeInv /\ [Next]_vars => TypeInv'
<1> SUFFICES ASSUME TypeInv, [Next]_vars PROVE TypeInv'
  OBVIOUS
<1>1. CASE \E w \in Worker, n \in Node : Take(w, n)
  BY <1>1, TypeTake
<1>2. CASE \E w \in Worker : Work(w)
  BY <1>2, TypeWork
<1>3. CASE \E w \in Worker : Fault(w)
  BY <1>3, TypeFault
<1>4. CASE (\E n \in Node : CleanerFinds(n)) \/ CleanerDeletes \/ CleanerFails
  BY <1>4, TypeCleaner
<1>5. CASE \E n \in Node : EventCreates(n) \/ NodeCreates(n)
  BY <1>5, TypeCreate
<1>6. CASE \E f \in Writer, n \in Node : Write(f, n)
  BY <1>6, TypeWrite
<1>7. CASE \E f \in Writer : WriterSaves(f) \/ WriterDeletes(f)
  BY <1>7, TypeWriterEnds
<1>8. CASE \E n \in Node : Deliver(n)
  BY <1>8, TypeDeliver
<1>9. CASE \E n \in Node : Environment(n)
  BY <1>9, TypeEnvironment
<1>10. CASE Crash \/ \E w \in Worker : SelfPod(w)
  <2>1. budget' \in [Disturbance -> Nat]
    BY <1>10, SpendType DEF Crash, SelfPod, TypeInv, TypeOK, Disturbance
  <2> QED BY <1>10, <2>1, TypeRestart DEF Crash, SelfPod
<1>11. CASE EditConfigs
  <2>1. budget' \in [Disturbance -> Nat]
    BY <1>11, SpendType DEF EditConfigs, TypeInv, Disturbance
  <2> QED BY <1>11, <2>1 DEF EditConfigs, TypeInv, TypeOK, StoreTypeOK, Pointers
<1>12. CASE Tick
  BY <1>12, TypeTick
<1>13. CASE UNCHANGED vars
  BY <1>13 DEF vars, TypeInv, TypeOK, StoreTypeOK, Pointers
<1> QED
  BY <1>1, <1>2, <1>3, <1>4, <1>5, <1>6, <1>7, <1>8, <1>9, <1>10, <1>11, <1>12, <1>13
     DEF Next

(* Every variable keeps its type: in particular no handler ever edits a    *)
(* report that is not there, whatever the watch deletes meanwhile.         *)
THEOREM TypeCorrect == Spec => []TypeOK
<1>1. Spec => []TypeInv
  BY TypeInit, TypeNext, PTL DEF Spec
<1>2. TypeInv => TypeOK
  BY DEF TypeInv
<1> QED BY <1>1, <1>2, PTL
=============================================================================
