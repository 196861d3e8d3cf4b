-------------------------- MODULE NIRSafetyProofs --------------------------
(***************************************************************************)
(* SafetyInv is inductive, and what follows from it: PhaseEffects,         *)
(* RebootTimed, DeletedNodeWasDrained and ReplaceOnlyForward hold for any  *)
(* number of nodes, workers, writers, faults, crashes and rule changes.    *)
(***************************************************************************)
EXTENDS NIRControllerProofs, NIRInvariant

(* A node that only gets further out of service.                           *)
Keeps(m, q) ==
    /\ q.place = "absent" => m.place = "absent"
    /\ ~m.inAsg => ~q.inAsg
    /\ m.cordoned => q.cordoned
    /\ m.cordoned /\ (m.tainted \/ ~m.pods) => q.tainted \/ ~q.pods
    /\ m.rebootAge # Zero => q.rebootAge # Zero

(* What SafetyInv says of one persisted, cached or delayed copy.           *)
CopyOK(r, leader, m) ==
    Rank(r.phase) <= RankOf(leader) /\ PhaseClaims(m, r) /\ Timed(r)

CopiesOK(n) == \A r \in Copies(n) : CopyOK(r, cache[n], node[n])
-----------------------------------------------------------------------------
LEMMA RankValues ==
    /\ Rank("none") = 0 /\ Rank("reboot") = 0 /\ Rank("rebooted") = 0
    /\ Rank("replace") = 1 /\ Rank("detached") = 2
    /\ Rank("newjoined") = 3 /\ Rank("drained") = 4
BY DEF Rank

LEMMA RankType ==
    /\ \A p \in Phase : Rank(p) \in 0 .. 4
    /\ \A r \in Stored : RankOf(r) \in 0 .. 4
<1>1. \A p \in Phase : Rank(p) \in 0 .. 4
  BY RankValues DEF Phase
<1>2. \A r \in Report : r.phase \in Phase
  BY DEF Report
<1> QED BY <1>1, <1>2 DEF RankOf, Stored

LEMMA KeepsClaims ==
    ASSUME NEW m, NEW q, Keeps(m, q)
    PROVE  /\ \A r : PhaseClaims(m, r) => PhaseClaims(q, r)
           /\ \A l, own, r : Relies(l, own, r, m) => Relies(l, own, r, q)
BY DEF Keeps, PhaseClaims, Relies, Emptied

LEMMA KeepsItself == \A m : Keeps(m, m)
BY DEF Keeps

(* The copies of a report, by where they are.                              *)
LEMMA CopiesAre ==
    ASSUME TypeInv, NEW n \in Node
    PROVE  /\ watch[n] \in Seq(Stored) /\ Len(watch[n]) \in Nat
           /\ \A r : r \in Copies(n) <=>
                /\ r # NoReport
                /\ \/ r = api[n] \/ r = cache[n]
                   \/ \E i \in 1 .. Len(watch[n]) : r = watch[n][i]
           /\ Copies(n) \subseteq Report
<1>1. watch[n] \in Seq(Stored) /\ api[n] \in Stored /\ cache[n] \in Stored
  BY DEF TypeInv, TypeOK, StoreTypeOK, Stored
<1>2. /\ Len(watch[n]) \in Nat /\ DOMAIN watch[n] = 1 .. Len(watch[n])
      /\ \A i \in 1 .. Len(watch[n]) : watch[n][i] \in Stored
  BY <1>1, LenProperties, ElementOfSeq
<1> QED BY <1>1, <1>2 DEF Copies, Stored

LEMMA CopiesWillBe ==
    ASSUME TypeInv', NEW n \in Node
    PROVE  /\ \A r : r \in Copies(n)' <=>
                /\ r # NoReport
                /\ \/ r = api'[n] \/ r = cache'[n]
                   \/ \E i \in 1 .. Len(watch'[n]) : r = watch'[n][i]
           /\ Copies(n)' \subseteq Report
<1>1. watch'[n] \in Seq(Stored) /\ api'[n] \in Stored /\ cache'[n] \in Stored
  BY DEF TypeInv, TypeOK, StoreTypeOK, Stored
<1>2. /\ Len(watch'[n]) \in Nat /\ DOMAIN watch'[n] = 1 .. Len(watch'[n])
      /\ \A i \in 1 .. Len(watch'[n]) : watch'[n][i] \in Stored
  BY <1>1, LenProperties, ElementOfSeq
<1> QED BY <1>1, <1>2 DEF Copies, Stored

LEMMA SafetySplit ==
    SafetyInv <=>
        /\ Exclusive
        /\ \A n \in Node : VersionsInOrder(n) /\ NotJoined(n) /\ CopiesOK(n)
        /\ \A w \in Worker : AtWork(w)
BY DEF SafetyInv, CopiesOK, CopyOK, CacheLeads, PhaseEffects, RebootTimed

LEMMA SafetyJoin ==
    ASSUME Exclusive',
           \A n \in Node : VersionsInOrder(n)' /\ NotJoined(n)' /\ CopiesOK(n)',
           \A w \in Worker : AtWork(w)'
    PROVE  SafetyInv'
BY DEF SafetyInv, CopiesOK, CopyOK, CacheLeads, PhaseEffects, RebootTimed

(* A report nobody touched keeps its part of the invariant, if its node    *)
(* was not brought back into service.                                      *)
LEMMA Frame ==
    ASSUME TypeInv, TypeInv', NEW n \in Node,
           VersionsInOrder(n), CopiesOK(n), NotJoined(n),
           api'[n] = api[n], cache'[n] = cache[n], watch'[n] = watch[n],
           Keeps(node[n], node'[n]),
           \A t \in Thread : held'[t] = [node |-> n, ref |-> "live"]
                                => held[t] = [node |-> n, ref |-> "live"],
           \A w \in Worker : held'[w].node = n => held[w].node = n
    PROVE  VersionsInOrder(n)' /\ CopiesOK(n)' /\ NotJoined(n)'
<1>1. Copies(n)' = Copies(n)
  BY DEF Copies
<1>2. VersionsInOrder(n)'
  BY DEF VersionsInOrder
<1>3. CopiesOK(n)'
  <2>1. SUFFICES ASSUME NEW r \in Copies(n) PROVE CopyOK(r, cache'[n], node'[n])
    BY <1>1 DEF CopiesOK
  <2>2. CopyOK(r, cache[n], node[n])
    BY DEF CopiesOK
  <2> QED BY <2>2, KeepsClaims DEF CopyOK
<1>4. NotJoined(n)'
  BY <1>1 DEF NotJoined, Keeps
<1> QED BY <1>2, <1>3, <1>4

(* The cached copy of n becomes r and its node m; nothing is persisted.    *)
LEMMA EditFrame ==
    ASSUME TypeInv, TypeInv', NEW n \in Node, NEW r \in Report, NEW m,
           VersionsInOrder(n), CopiesOK(n),
           api'[n] = api[n], watch'[n] = watch[n],
           cache'[n] = r, RankOf(cache[n]) <= Rank(r.phase),
           node'[n] = m, m.place # "absent",
           \A p \in Copies(n) : PhaseClaims(m, p),
           PhaseClaims(m, r), Timed(r),
           \A t \in Thread : held'[t] = [node |-> n, ref |-> "live"]
                                => watch[n] = <<>>
    PROVE  VersionsInOrder(n)' /\ CopiesOK(n)' /\ NotJoined(n)'
<1>1. VersionsInOrder(n)'
  BY DEF VersionsInOrder
<1>2. \A p \in Copies(n)' : p = r \/ p \in Copies(n)
  BY CopiesAre, NoReportAssumption DEF Copies
<1>3. RankOf(r) = Rank(r.phase) /\ RankOf(r) \in 0 .. 4 /\ RankOf(cache[n]) \in 0 .. 4
  BY RankType, NoReportAssumption DEF RankOf, Stored, TypeInv, TypeOK, StoreTypeOK
<1>4. \A p \in Copies(n) : Rank(p.phase) \in 0 .. 4
  BY CopiesAre, RankType DEF Report
<1>5. CopiesOK(n)'
  <2>1. SUFFICES ASSUME NEW p \in Copies(n)' PROVE CopyOK(p, r, m)
    BY DEF CopiesOK
  <2>2. CASE p = r
    BY <1>3, <2>2 DEF CopyOK
  <2>3. CASE p \in Copies(n)
    <3>1. CopyOK(p, cache[n], node[n])
      BY <2>3 DEF CopiesOK
    <3> QED BY <1>3, <1>4, <2>3, <3>1 DEF CopyOK
  <2> QED BY <1>2, <2>2, <2>3
<1> QED BY <1>1, <1>5 DEF NotJoined

(* Worker w, busy with n, does something to n; the others are elsewhere.   *)
LEMMA Elsewhere ==
    ASSUME TypeInv, Exclusive, NEW w \in Worker, NEW v \in Worker, v # w,
           AtWork(v), pc'[v] = pc[v], held'[v] = held[v],
           NEW n \in Node, held[w].node = n \/ held[v].node # n,
           \A k \in Node \ {n} : cache'[k] = cache[k] /\ node'[k] = node[k]
    PROVE  AtWork(v)'
<1>1. CASE pc[v] = "idle"
  BY <1>1 DEF AtWork, Relies, NotReplace, Rebooting, DrainsOld, Removes
<1>2. CASE pc[v] # "idle"
  <2>1. held[v].node \in Node /\ held[v].node # n
    BY <1>2, ThreadKinds DEF TypeInv, Pointers, Exclusive
  <2> QED BY <2>1 DEF AtWork
<1> QED BY <1>1, <1>2
-----------------------------------------------------------------------------
(* One lemma for each shape of step.                                       *)

LEMMA SafeBegin ==
    ASSUME TypeInv, TypeInv', SafetyInv, NEW w \in Worker, NEW n \in Node,
           NEW r \in Report, NEW l \in Label, Begin(w, n, r, l),
           Rank(cache[n].phase) <= Rank(r.phase),
           PhaseClaims(node[n], r), Timed(r), Relies(l, TRUE, r, node[n])
    PROVE  SafetyInv'
<1> USE ThreadKinds
<1>1. /\ Exclusive
      /\ \A k \in Node : VersionsInOrder(k) /\ NotJoined(k) /\ CopiesOK(k)
      /\ \A v \in Worker : AtWork(v)
  BY SafetySplit
<1>2. /\ held' = [held EXCEPT ![w] = Lookup(n)]
      /\ \A v \in Worker : held[v].node # n
      /\ pc' = [pc EXCEPT ![w] = l] /\ pc[w] = "idle"
      /\ cache' = [cache EXCEPT ![n] = r]
      /\ UNCHANGED <<api, watch, node>>
      /\ cache[n] # NoReport /\ node[n].place = "present"
  BY DEF Begin, Dequeue, Present
<1>3. /\ held \in [Thread -> Hold] /\ pc \in [Thread -> Label]
      /\ cache \in [Node -> Report \cup {NoReport}]
  BY DEF TypeInv, TypeOK, StoreTypeOK
<1>4. held'[w].node = n /\ (held'[w].ref = "live" => watch[n] = <<>>)
  BY <1>2, <1>3 DEF Lookup
<1>5. Exclusive'
  BY <1>1, <1>2, <1>3, <1>4 DEF Exclusive
<1>6. VersionsInOrder(n)' /\ CopiesOK(n)' /\ NotJoined(n)'
  <2>1. RankOf(cache[n]) <= Rank(r.phase)
    BY <1>2 DEF RankOf
  <2>2. \A p \in Copies(n) : PhaseClaims(node[n], p)
    BY <1>1 DEF CopiesOK, CopyOK
  <2>3. \A t \in Thread : held'[t] = [node |-> n, ref |-> "live"] => watch[n] = <<>>
    BY <1>1, <1>2, <1>3, <1>4 DEF VersionsInOrder
  <2>4. node'[n].place # "absent" /\ node'[n] = node[n] /\ cache'[n] = r
    BY <1>2, <1>3
  <2> QED BY <1>1, <1>2, <2>1, <2>2, <2>3, <2>4, EditFrame
<1>7. ASSUME NEW k \in Node, k # n
      PROVE  VersionsInOrder(k)' /\ CopiesOK(k)' /\ NotJoined(k)'
  <2>1. \A t \in Thread : held'[t].node = k => held'[t] = held[t]
    BY <1>2, <1>3, <1>4, <1>7
  <2>2. /\ api'[k] = api[k] /\ cache'[k] = cache[k] /\ watch'[k] = watch[k]
        /\ Keeps(node[k], node'[k])
    BY <1>2, <1>3, <1>7, KeepsItself
  <2>3. /\ \A t \in Thread : held'[t] = [node |-> k, ref |-> "live"]
                               => held[t] = [node |-> k, ref |-> "live"]
        /\ \A v \in Worker : held'[v].node = k => held[v].node = k
    BY <2>1
  <2> QED BY <1>1, <2>2, <2>3, Frame
<1>8. AtWork(w)'
  <2>1. cache'[n] = r /\ pc'[w] = l /\ node'[n] = node[n]
    BY <1>2, <1>3
  <2> QED BY <1>4, <2>1 DEF AtWork, Relies
<1>9. ASSUME NEW v \in Worker, v # w
      PROVE  AtWork(v)'
  BY <1>1, <1>2, <1>3, <1>9, Elsewhere
<1> QED BY <1>5, <1>6, <1>7, <1>8, <1>9, SafetyJoin

(* The node of n becomes m; no copy of its report changes.                 *)
LEMMA NodeFrame ==
    ASSUME TypeInv, NEW n \in Node, NEW m,
           VersionsInOrder(n), CopiesOK(n),
           api'[n] = api[n], cache'[n] = cache[n], watch'[n] = watch[n],
           node'[n] = m, m.place # "absent",
           \A p \in Copies(n) : PhaseClaims(m, p),
           \A t \in Thread : held'[t] = [node |-> n, ref |-> "live"]
                                => held[t] = [node |-> n, ref |-> "live"]
    PROVE  VersionsInOrder(n)' /\ CopiesOK(n)' /\ NotJoined(n)'
<1>1. Copies(n)' = Copies(n)
  BY DEF Copies
<1>2. VersionsInOrder(n)'
  BY DEF VersionsInOrder
<1>3. CopiesOK(n)'
  BY <1>1 DEF CopiesOK, CopyOK
<1> QED BY <1>2, <1>3 DEF NotJoined

LEMMA SafeProceed ==
    ASSUME TypeInv, TypeInv', SafetyInv, NEW w \in Worker, pc[w] # "idle",
           NEW m \in NodeRecord, NEW l \in Label, NEW r, Proceed(w, m, r, l),
           held[w].ref # "orphan" =>
              /\ r \in Report /\ RankOf(Mine(w)) <= Rank(r.phase)
              /\ PhaseClaims(m, r) /\ Timed(r) /\ Relies(l, TRUE, r, m),
           held[w].ref = "orphan" => Relies(l, FALSE, Mine(w), m),
           m.place # "absent",
           \A p \in Copies(held[w].node) : PhaseClaims(m, p)
    PROVE  SafetyInv'
<1> USE ThreadKinds
<1>0. PICK n \in Node : n = held[w].node
  BY Busy
<1>1. /\ Exclusive
      /\ \A k \in Node : VersionsInOrder(k) /\ NotJoined(k) /\ CopiesOK(k)
      /\ \A v \in Worker : AtWork(v)
  BY SafetySplit
<1>2. /\ n \in Node /\ held' = held
      /\ node' = [node EXCEPT ![n] = m] /\ pc' = [pc EXCEPT ![w] = l]
      /\ cache' = Edited(w, r) /\ UNCHANGED <<api, watch>>
  BY <1>0 DEF Proceed
<1>3. /\ pc \in [Thread -> Label] /\ node \in [Node -> NodeRecord]
      /\ cache \in [Node -> Report \cup {NoReport}]
  BY DEF TypeInv, TypeOK, StoreTypeOK
<1>4. /\ \A k \in Node \ {n} : cache'[k] = cache[k] /\ node'[k] = node[k]
      /\ held[w].ref # "orphan" => cache'[n] = r
      /\ held[w].ref = "orphan" => cache'[n] = cache[n]
      /\ node'[n] = m /\ pc'[w] = l
  BY <1>0, <1>2, <1>3 DEF Edited
<1>5. Exclusive'
  BY <1>1, <1>2 DEF Exclusive
<1>6. VersionsInOrder(n)' /\ CopiesOK(n)' /\ NotJoined(n)'
  <2>1. api'[n] = api[n] /\ watch'[n] = watch[n]
    BY <1>2
  <2>a. \A p \in Copies(n) : PhaseClaims(m, p)
    BY <1>0
  <2>b. \A t \in Thread : held'[t] = [node |-> n, ref |-> "live"] => watch[n] = <<>>
    BY <1>1, <1>2 DEF VersionsInOrder
  <2>c. /\ VersionsInOrder(n) /\ CopiesOK(n) /\ n \in Node
        /\ held' = held /\ node'[n] = m
    BY <1>1, <1>2, <1>4
  <2>2. CASE held[w].ref = "orphan"
    BY <1>4, <2>1, <2>2, <2>a, <2>c, NodeFrame
  <2>3. CASE held[w].ref # "orphan"
    <3>1. r \in Report /\ RankOf(cache[n]) <= Rank(r.phase) /\ PhaseClaims(m, r) /\ Timed(r)
      BY <1>0, <2>3 DEF Mine
    <3> QED BY <1>4, <2>1, <2>3, <2>a, <2>b, <2>c, <3>1, EditFrame
  <2> QED BY <2>2, <2>3
<1>7. ASSUME NEW k \in Node, k # n
      PROVE  VersionsInOrder(k)' /\ CopiesOK(k)' /\ NotJoined(k)'
  <2>1. /\ api'[k] = api[k] /\ cache'[k] = cache[k] /\ watch'[k] = watch[k]
        /\ Keeps(node[k], node'[k])
    BY <1>2, <1>4, <1>7, KeepsItself
  <2> QED BY <1>1, <1>2, <2>1, Frame
<1>8. AtWork(w)'
  <2>1. held'[w].node = n /\ held'[w].ref = held[w].ref
    BY <1>0, <1>2
  <2>2. CASE held[w].ref = "orphan"
    BY <1>0, <1>4, <2>1, <2>2 DEF AtWork, Relies, Mine
  <2>3. CASE held[w].ref # "orphan"
    BY <1>4, <2>1, <2>3 DEF AtWork, Relies
  <2> QED BY <2>2, <2>3
<1>9. ASSUME NEW v \in Worker, v # w
      PROVE  AtWork(v)'
  <2>1. held[w].node = n
    BY <1>0
  <2> QED BY <1>1, <1>2, <1>3, <1>4, <1>9, <2>1, Elsewhere
<1> QED BY <1>5, <1>6, <1>7, <1>8, <1>9, SafetyJoin

(* Version r of n is stored; h is what the goroutines hold before those    *)
(* who held the current version find it outdated.                          *)
LEMMA SafePersist ==
    ASSUME TypeInv, TypeInv', SafetyInv, NEW n \in Node, NEW r \in Stored,
           NEW h \in [Thread -> Hold],
           Persist(n, r, h), UNCHANGED <<cache, node>>,
           watch[n] = <<>> \/ r = NoReport \/ r.phase = "none",
           r # NoReport =>
              /\ Rank(r.phase) <= RankOf(cache[n]) /\ PhaseClaims(node[n], r)
              /\ Timed(r) /\ node[n].place # "absent",
           \A t \in Thread : h[t] = held[t] \/ h[t] = Nothing,
           \A v \in Worker :
              \/ pc'[v] = "idle"
              \/ /\ h[v] = held[v]
                 /\ pc'[v] = pc[v] \/ (pc[v] = "selfReport" /\ pc'[v] = "selfNode")
    PROVE  SafetyInv'
<1> USE ThreadKinds
<1>1. /\ Exclusive
      /\ \A k \in Node : VersionsInOrder(k) /\ NotJoined(k) /\ CopiesOK(k)
      /\ \A v \in Worker : AtWork(v)
  BY SafetySplit
<1>2. /\ api' = [api EXCEPT ![n] = r] /\ watch' = [watch EXCEPT ![n] = Append(@, r)]
      /\ held' = Outdated(h, n) /\ cache' = cache /\ node' = node
  BY DEF Persist
<1>3. /\ api \in [Node -> Stored] /\ watch \in [Node -> Seq(Stored)]
      /\ watch[n] \in Seq(Stored) /\ Len(watch[n]) \in Nat
  BY CopiesAre DEF TypeInv, TypeOK, StoreTypeOK, Stored
<1>4. /\ api'[n] = r /\ watch'[n] = Append(watch[n], r)
      /\ \A k \in Node \ {n} : api'[k] = api[k] /\ watch'[k] = watch[k]
  BY <1>2, <1>3
<1>5. /\ Len(watch'[n]) = Len(watch[n]) + 1
      /\ watch'[n][Len(watch'[n])] = r
      /\ \A i \in 1 .. Len(watch[n]) : watch'[n][i] = watch[n][i]
  BY <1>3, <1>4, AppendProperties
<1>6. \A t \in Thread :
         /\ held'[t].node = h[t].node
         /\ held'[t].ref = "orphan" <=> h[t].ref = "orphan"
         /\ held'[t] # [node |-> n, ref |-> "live"]
         /\ h[t].node # n => held'[t] = h[t]
  BY <1>2 DEF Outdated, Hold, Ref
<1>7. NoNode \notin Node /\ Nothing.node = NoNode /\ Nothing.ref = "none"
  BY StoreAssumption DEF Nothing
<1>8. Exclusive'
  BY <1>1, <1>6, <1>7 DEF Exclusive
<1>9. VersionsInOrder(n)'
  <2>1. \A i \in 2 .. Len(watch'[n]) : watch'[n][i] # NoReport => watch'[n][i].phase = "none"
    <3>1. ASSUME NEW i \in 2 .. Len(watch'[n]), watch'[n][i] # NoReport
          PROVE  watch'[n][i].phase = "none"
      <4>1. CASE i = Len(watch[n]) + 1
        <5>1. watch[n] # <<>>
          BY <1>3, <4>1
        <5> QED BY <1>5, <3>1, <4>1, <5>1
      <4>2. CASE i \in 2 .. Len(watch[n])
        <5>1. watch'[n][i] = watch[n][i]
          BY <1>3, <1>5, <4>2
        <5>2. watch[n][i] # NoReport => watch[n][i].phase = "none"
          BY <1>1, <4>2 DEF VersionsInOrder
        <5> QED BY <3>1, <5>1, <5>2
      <4> QED BY <1>3, <1>5, <4>1, <4>2
    <3> QED BY <3>1
  <2> QED BY <1>4, <1>5, <1>6, <2>1 DEF VersionsInOrder
<1>10. \A p \in Copies(n)' : p = r \/ p \in Copies(n)
  <2>1. ASSUME NEW p \in Copies(n)', p # r
        PROVE  p \in Copies(n)
    <3>1. /\ p # NoReport
          /\ \/ p = r \/ p = cache[n]
             \/ \E i \in 1 .. Len(watch'[n]) : p = watch'[n][i]
      BY <1>2, <1>4, CopiesWillBe
    <3>2. CASE p = cache[n]
      BY <3>1, <3>2, CopiesAre
    <3>3. CASE \E i \in 1 .. Len(watch'[n]) : p = watch'[n][i]
      <4>1. PICK i \in 1 .. Len(watch'[n]) : p = watch'[n][i]
        BY <3>3
      <4>2. i \in 1 .. Len(watch[n])
        BY <1>3, <1>5, <2>1, <4>1
      <4> QED BY <1>5, <3>1, <4>1, <4>2, CopiesAre
    <3> QED BY <2>1, <3>1, <3>2, <3>3
  <2> QED BY <2>1
<1>11. CopiesOK(n)' /\ NotJoined(n)'
  <2>1. \A p \in Copies(n)' : p # NoReport
    BY CopiesWillBe
  <2>2. CopiesOK(n)'
    BY <1>1, <1>2, <1>10, <2>1 DEF CopiesOK, CopyOK
  <2>3. NotJoined(n)'
    BY <1>1, <1>2, <1>6, <1>7, <1>10, <2>1 DEF NotJoined
  <2> QED BY <2>2, <2>3
<1>12. ASSUME NEW k \in Node, k # n
       PROVE  VersionsInOrder(k)' /\ CopiesOK(k)' /\ NotJoined(k)'
  <2>1. /\ api'[k] = api[k] /\ cache'[k] = cache[k] /\ watch'[k] = watch[k]
        /\ Keeps(node[k], node'[k])
    BY <1>2, <1>4, <1>12, KeepsItself
  <2>2. \A t \in Thread : held'[t].node = k => held'[t] = held[t]
    BY <1>6, <1>7, <1>12
  <2>3. /\ \A t \in Thread : held'[t] = [node |-> k, ref |-> "live"]
                               => held[t] = [node |-> k, ref |-> "live"]
        /\ \A v \in Worker : held'[v].node = k => held[v].node = k
    BY <2>2
  <2> QED BY <1>1, <2>1, <2>3, Frame
<1>13. ASSUME NEW v \in Worker
       PROVE  AtWork(v)'
  <2>1. CASE pc'[v] = "idle"
    BY <2>1 DEF AtWork, Relies, NotReplace, Rebooting, DrainsOld, Removes
  <2>2. CASE pc'[v] # "idle"
    <3>1. /\ held'[v].node = held[v].node
          /\ (held'[v].ref # "orphan") = (held[v].ref # "orphan")
          /\ pc'[v] = pc[v] \/ (pc[v] = "selfReport" /\ pc'[v] = "selfNode")
      BY <1>6, <2>2
    <3> QED
      BY <1>1, <1>2, <3>1
         DEF AtWork, Relies, NotReplace, Rebooting, DrainsOld, Removes
  <2> QED BY <2>1, <2>2
<1> QED BY <1>8, <1>9, <1>11, <1>12, <1>13, SafetyJoin

(* No copy changes; goroutines go on, stop, or begin to hold something,    *)
(* and nodes keep what they have lost, or join.                            *)
LEMMA SafeStill ==
    ASSUME TypeInv, TypeInv', SafetyInv, UNCHANGED <<api, cache, watch>>,
           \A n \in Node : node[n].place = "absent" \/ Keeps(node[n], node'[n]),
           \A t \in Thread, n \in Node :
              held'[t] = [node |-> n, ref |-> "live"] => held[t] = held'[t] \/ watch[n] = <<>>,
           \A v \in Worker :
              \/ held'[v] = Nothing /\ pc'[v] = "idle"
              \/ /\ held'[v] = held[v]
                 /\ \A own \in BOOLEAN : \A r, m :
                       Relies(pc[v], own, r, m) => Relies(pc'[v], own, r, m)
    PROVE  SafetyInv'
<1> USE ThreadKinds
<1>1. /\ Exclusive
      /\ \A k \in Node : VersionsInOrder(k) /\ NotJoined(k) /\ CopiesOK(k)
      /\ \A v \in Worker : AtWork(v)
  BY SafetySplit
<1>2. NoNode \notin Node /\ Nothing.node = NoNode
  BY StoreAssumption DEF Nothing
<1>3. Exclusive'
  BY <1>1, <1>2 DEF Exclusive
<1>4. ASSUME NEW n \in Node
      PROVE  VersionsInOrder(n)' /\ CopiesOK(n)' /\ NotJoined(n)'
  <2>1. VersionsInOrder(n)'
    BY <1>1 DEF VersionsInOrder
  <2>2. Copies(n)' = Copies(n)
    BY DEF Copies
  <2>3. CASE node[n].place = "absent"
    <3>1. Copies(n) = {} /\ \A w \in Worker : held[w].node # n
      BY <1>1, <2>3 DEF NotJoined
    <3>2. \A w \in Worker : held'[w].node # n
      BY <1>2, <3>1
    <3> QED BY <2>1, <2>2, <3>1, <3>2 DEF CopiesOK, NotJoined
  <2>4. CASE Keeps(node[n], node'[n])
    <3>1. CopiesOK(n)'
      BY <1>1, <2>2, <2>4, KeepsClaims DEF CopiesOK, CopyOK
    <3>2. NotJoined(n)'
      BY <1>1, <1>2, <2>2, <2>4 DEF NotJoined, Keeps
    <3> QED BY <2>1, <3>1, <3>2
  <2> QED BY <2>3, <2>4
<1>5. ASSUME NEW v \in Worker
      PROVE  AtWork(v)'
  <2>1. CASE pc'[v] = "idle"
    BY <2>1 DEF AtWork, Relies, NotReplace, Rebooting, DrainsOld, Removes
  <2>2. CASE pc[v] = "idle" /\ pc'[v] # "idle"
    <3>1. \A own, r, m : Relies("idle", own, r, m)
      BY DEF Relies, NotReplace, Rebooting, DrainsOld, Removes
    <3> QED BY <2>2, <3>1, ZenonT(60) DEF AtWork
  <2>3. CASE pc[v] # "idle" /\ pc'[v] # "idle"
    <3>1. held'[v] = held[v]
      BY <2>3
    <3>2. PICK n \in Node : n = held[v].node
      BY <2>3, Busy
    <3>3. Keeps(node[n], node'[n])
      BY <1>1, <3>2 DEF NotJoined
    <3>4. Relies(pc[v], held[v].ref # "orphan", cache[n], node[n])
      BY <1>1, <3>2 DEF AtWork
    <3>5. Relies(pc[v], held[v].ref # "orphan", cache[n], node'[n])
      BY <3>3, <3>4, KeepsClaims
    <3>6. Relies(pc'[v], held[v].ref # "orphan", cache[n], node'[n])
      BY <2>3, <3>5
    <3> QED BY <3>1, <3>2, <3>6 DEF AtWork
  <2> QED BY <2>1, <2>2, <2>3
<1> QED BY <1>3, <1>4, <1>5, SafetyJoin

LEMMA SafeRemove ==
    ASSUME TypeInv, TypeInv', SafetyInv, NEW n \in Node, NEW h \in [Thread -> Hold],
           Remove(n, h), UNCHANGED <<cache, node>>,
           \A t \in Thread : h[t] = held[t] \/ h[t] = Nothing,
           \A v \in Worker :
              \/ pc'[v] = "idle" /\ h[v] = Nothing
              \/ /\ h[v] = held[v]
                 /\ pc'[v] = pc[v] \/ (pc[v] = "selfReport" /\ pc'[v] = "selfNode")
    PROVE  SafetyInv'
<1>1. CASE api[n] = NoReport
  <2>1. held' = h /\ UNCHANGED <<api, watch>>
    BY <1>1 DEF Remove
  <2>2. \A k \in Node : Keeps(node[k], node'[k])
    BY KeepsItself
  <2>3. \A t \in Thread, k \in Node :
           held'[t] = [node |-> k, ref |-> "live"] => held[t] = held'[t]
    BY <2>1 DEF Nothing
  <2>4. \A own \in BOOLEAN : \A r, m :
           Relies("selfReport", own, r, m) => Relies("selfNode", own, r, m)
    BY DEF Relies, NotReplace, Rebooting, DrainsOld, Removes
  <2>5. \A v \in Worker :
           \/ held'[v] = Nothing /\ pc'[v] = "idle"
           \/ /\ held'[v] = held[v]
              /\ \A own \in BOOLEAN : \A r, m :
                    Relies(pc[v], own, r, m) => Relies(pc'[v], own, r, m)
    BY <2>1, <2>4
  <2> QED BY <2>1, <2>2, <2>3, <2>5, SafeStill
<1>2. CASE api[n] # NoReport
  BY <1>2, SafePersist DEF Remove, Stored
<1> QED BY <1>1, <1>2
-----------------------------------------------------------------------------
(* The informer, the process, time and the other controllers.              *)

LEMMA SafeDeliver ==
    ASSUME TypeInv, TypeInv', SafetyInv, NEW n \in Node, Deliver(n)
    PROVE  SafetyInv'
<1> USE ThreadKinds
<1>1. /\ Exclusive
      /\ \A k \in Node : VersionsInOrder(k) /\ NotJoined(k) /\ CopiesOK(k)
      /\ \A v \in Worker : AtWork(v)
  BY SafetySplit
<1>2. /\ watch[n] # <<>> /\ api' = api /\ node' = node /\ pc' = pc
      /\ cache' = [cache EXCEPT ![n] = Head(watch[n])]
      /\ watch' = [watch EXCEPT ![n] = Tail(@)] /\ held' = Replaced(n)
  BY DEF Deliver, DeliverNext
<1>3. /\ cache \in [Node -> Stored] /\ watch \in [Node -> Seq(Stored)]
      /\ watch[n] \in Seq(Stored) /\ Len(watch[n]) \in Nat
  BY CopiesAre DEF TypeInv, TypeOK, StoreTypeOK, Stored
<1>4. /\ cache'[n] = watch[n][1] /\ Len(watch[n]) >= 1
      /\ Len(watch'[n]) = Len(watch[n]) - 1
      /\ \A i \in 1 .. Len(watch'[n]) : watch'[n][i] = watch[n][i + 1]
  BY <1>2, <1>3, HeadTailProperties
<1>5. \A k \in Node \ {n} : cache'[k] = cache[k] /\ watch'[k] = watch[k]
  BY <1>2, <1>3
<1>6. \A t \in Thread :
         /\ held'[t].node = held[t].node
         /\ held[t].node # n => held'[t] = held[t]
         /\ held[t].node = n => held'[t].ref = "orphan"
  BY <1>2 DEF Replaced
<1>7. Exclusive'
  BY <1>1, <1>6 DEF Exclusive
<1>8. watch[n][Len(watch[n])] = api[n]
  BY <1>1, <1>2 DEF VersionsInOrder
<1>9. \A i \in 2 .. Len(watch[n]) : watch[n][i] # NoReport => watch[n][i].phase = "none"
  BY <1>1 DEF VersionsInOrder
<1>10. VersionsInOrder(n)'
  <2>1. \A t \in Thread : held'[t] # [node |-> n, ref |-> "live"]
    BY <1>6
  <2>2. watch'[n] # <<>> => watch'[n][Len(watch'[n])] = api'[n]
    <3>1. SUFFICES ASSUME watch'[n] # <<>> PROVE watch'[n][Len(watch'[n])] = api'[n]
      OBVIOUS
    <3>2. watch'[n] \in Seq(Stored)
      BY DEF TypeInv, TypeOK, StoreTypeOK, Stored
    <3>3. Len(watch'[n]) \in Nat /\ Len(watch'[n]) >= 1
      BY <3>1, <3>2
    <3> QED BY <1>2, <1>3, <1>4, <1>8, <3>3
  <2>3. \A i \in 2 .. Len(watch'[n]) : watch'[n][i] # NoReport => watch'[n][i].phase = "none"
    <3>1. ASSUME NEW i \in 2 .. Len(watch'[n])
          PROVE  watch'[n][i] = watch[n][i + 1] /\ i + 1 \in 2 .. Len(watch[n])
      BY <1>3, <1>4
    <3> QED BY <1>9, <3>1
  <2> QED BY <2>1, <2>2, <2>3 DEF VersionsInOrder
<1>11. \A p \in Copies(n)' :
          /\ p \in Copies(n)
          /\ p = cache'[n] \/ Rank(p.phase) = 0
  <2>1. SUFFICES ASSUME NEW p \in Copies(n)'
                 PROVE  p \in Copies(n) /\ (p = cache'[n] \/ Rank(p.phase) = 0)
    OBVIOUS
  <2>2. PICK i \in 1 .. Len(watch[n]) : p = watch[n][i] /\ p # NoReport
    <3>1. CASE p = api'[n]
      <4>1. p = watch[n][Len(watch[n])] /\ Len(watch[n]) \in 1 .. Len(watch[n])
        BY <1>2, <1>3, <1>4, <1>8, <3>1
      <4> QED BY <2>1, <4>1, CopiesWillBe
    <3>2. CASE p = cache'[n]
      BY <1>3, <1>4, <2>1, <3>2, CopiesWillBe
    <3>3. CASE \E i \in 1 .. Len(watch'[n]) : p = watch'[n][i]
      <4>1. PICK i \in 1 .. Len(watch'[n]) : p = watch'[n][i]
        BY <3>3
      <4>2. i + 1 \in 1 .. Len(watch[n]) /\ p = watch[n][i + 1]
        BY <1>3, <1>4, <4>1
      <4> QED BY <2>1, <4>2, CopiesWillBe
    <3> QED BY <2>1, <3>1, <3>2, <3>3, CopiesWillBe
  <2>3. p \in Copies(n)
    BY <2>2, CopiesAre
  <2>4. CASE i = 1
    BY <1>4, <2>2, <2>3, <2>4
  <2>5. CASE i # 1
    <3>1. i \in 2 .. Len(watch[n])
      BY <1>3, <2>5
    <3>2. p.phase = "none"
      BY <1>9, <2>2, <3>1
    <3> QED BY <2>3, <3>2, RankValues
  <2> QED BY <2>4, <2>5
<1>12. CopiesOK(n)' /\ NotJoined(n)'
  <2>1. RankOf(cache'[n]) \in 0 .. 4
    BY RankType DEF TypeInv, TypeOK, StoreTypeOK, Stored
  <2>2. ASSUME NEW p \in Copies(n)'
        PROVE  CopyOK(p, cache'[n], node'[n])
    <3>1. PhaseClaims(node[n], p) /\ Timed(p)
      BY <1>1, <1>11 DEF CopiesOK, CopyOK
    <3>2. Rank(p.phase) <= RankOf(cache'[n])
      <4>1. CASE p = cache'[n]
        <5>1. p # NoReport
          BY CopiesWillBe
        <5>2. RankOf(cache'[n]) = Rank(p.phase)
          BY <4>1, <5>1 DEF RankOf
        <5> QED BY <2>1, <5>2
      <4>2. CASE Rank(p.phase) = 0
        BY <2>1, <4>2
      <4> QED BY <1>11, <4>1, <4>2
    <3> QED BY <1>2, <3>1, <3>2 DEF CopyOK
  <2>3. CopiesOK(n)'
    BY <2>2 DEF CopiesOK
  <2>4. NotJoined(n)'
    BY <1>1, <1>2, <1>6, <1>11 DEF NotJoined
  <2> QED BY <2>3, <2>4
<1>13. ASSUME NEW k \in Node, k # n
       PROVE  VersionsInOrder(k)' /\ CopiesOK(k)' /\ NotJoined(k)'
  <2>1. /\ api'[k] = api[k] /\ cache'[k] = cache[k] /\ watch'[k] = watch[k]
        /\ Keeps(node[k], node'[k])
    BY <1>2, <1>5, <1>13, KeepsItself
  <2>2. /\ \A t \in Thread : held'[t] = [node |-> k, ref |-> "live"]
                               => held[t] = [node |-> k, ref |-> "live"]
        /\ \A v \in Worker : held'[v].node = k => held[v].node = k
    BY <1>6, <1>13
  <2> QED BY <1>1, <2>1, <2>2, Frame
<1>14. ASSUME NEW v \in Worker
       PROVE  AtWork(v)'
  <2>1. CASE held[v].node = n
    <3>1. AtWork(v) /\ held'[v].ref = "orphan" /\ held'[v].node = n
      BY <1>1, <1>6, <2>1
    <3>2. RankOf(cache[n]) = 0 => RankOf(cache'[n]) = 0
      <4>1. CASE cache'[n] = NoReport
        BY <4>1 DEF RankOf
      <4>2. CASE cache'[n] # NoReport
        <5>1. cache'[n] \in Copies(n)
          BY <1>11, <4>2, CopiesWillBe
        <5>2. Rank(cache'[n].phase) <= RankOf(cache[n])
          BY <1>1, <5>1 DEF CopiesOK, CopyOK
        <5>3. RankOf(cache'[n]) = Rank(cache'[n].phase) /\ RankOf(cache'[n]) \in 0 .. 4
          BY <4>2, RankType DEF RankOf, TypeInv, TypeOK, StoreTypeOK, Stored
        <5> QED BY <5>2, <5>3
      <4> QED BY <4>1, <4>2
    <3> QED BY <1>2, <2>1, <3>1, <3>2 DEF AtWork, Relies
  <2>2. CASE held[v].node # n
    <3>1. CASE pc[v] = "idle"
      BY <1>2, <3>1 DEF AtWork, Relies, NotReplace, Rebooting, DrainsOld, Removes
    <3>2. CASE pc[v] # "idle"
      <4>1. held[v].node \in Node \ {n}
        BY <2>2, <3>2, Busy
      <4> QED BY <1>1, <1>2, <1>5, <1>6, <2>2, <4>1 DEF AtWork
    <3> QED BY <3>1, <3>2
  <2> QED BY <2>1, <2>2
<1> QED BY <1>7, <1>10, <1>12, <1>13, <1>14, SafetyJoin

LEMMA SafeRestart ==
    ASSUME TypeInv, TypeInv', SafetyInv, Restart
    PROVE  SafetyInv'
<1>1. \A k \in Node : NotJoined(k) /\ CopiesOK(k)
  BY SafetySplit
<1>2. /\ \A n \in Node : api'[n] = api[n] /\ cache'[n] = api[n] /\ watch'[n] = <<>>
      /\ \A t \in Thread : held'[t] = Nothing /\ pc'[t] = "idle"
      /\ node' = node
  BY DEF Restart, Relist
<1>3. NoNode \notin Node /\ Nothing.node = NoNode /\ Nothing.ref = "none"
  BY StoreAssumption DEF Nothing
<1>4. Exclusive'
  BY <1>2, <1>3, ThreadKinds DEF Exclusive
<1>5. ASSUME NEW n \in Node
      PROVE  VersionsInOrder(n)' /\ CopiesOK(n)' /\ NotJoined(n)'
  <2>1. VersionsInOrder(n)'
    <3>1. watch'[n] = <<>> /\ Len(watch'[n]) = 0
      BY <1>2, EmptySeq
    <3> QED BY <1>2, <1>3, <3>1 DEF VersionsInOrder
  <2>2. \A p \in Copies(n)' : p = api[n] /\ p # NoReport /\ p \in Copies(n)
    <3>1. Len(watch'[n]) = 0
      BY <1>2, EmptySeq
    <3> QED BY <1>2, <3>1, CopiesAre, CopiesWillBe
  <2>3. CopiesOK(n)'
    <3>1. ASSUME NEW p \in Copies(n)'
          PROVE  CopyOK(p, cache'[n], node'[n])
      <4>1. RankOf(cache'[n]) = Rank(p.phase) /\ RankOf(cache'[n]) \in 0 .. 4
        BY <1>2, <2>2, RankType DEF RankOf, TypeInv, TypeOK, StoreTypeOK, Stored
      <4>2. PhaseClaims(node[n], p) /\ Timed(p)
        BY <1>1, <2>2 DEF CopiesOK, CopyOK
      <4> QED BY <1>2, <4>1, <4>2 DEF CopyOK
    <3> QED BY <3>1 DEF CopiesOK
  <2>4. NotJoined(n)'
    BY <1>1, <1>2, <1>3, <2>2, ThreadKinds DEF NotJoined
  <2> QED BY <2>1, <2>3, <2>4
<1>6. ASSUME NEW v \in Worker
      PROVE  AtWork(v)'
  BY <1>2, ThreadKinds DEF AtWork, Relies, NotReplace, Rebooting, DrainsOld, Removes
<1> QED BY <1>4, <1>5, <1>6, SafetyJoin

LEMMA AgedKeeps ==
    ASSUME NEW r \in Stored
    PROVE  /\ RankOf(Aged(r)) = RankOf(r)
           /\ Aged(r) = NoReport <=> r = NoReport
           /\ r # NoReport =>
                /\ Aged(r).phase = r.phase
                /\ r.lastAction # Zero => Aged(r).lastAction # Zero
                /\ Timed(r) => Timed(Aged(r))
                /\ \A m : PhaseClaims(m, r) => PhaseClaims(m, Aged(r))
<1>1. CASE r = NoReport
  BY <1>1 DEF Aged
<1>2. CASE r # NoReport
  <2>1. r \in Report /\ r.lastAction \in Stamp
    BY <1>2 DEF Stored, Report
  <2>2. Aged(r) = [r EXCEPT !.lastAction = Older(r.lastAction)]
    BY <1>2 DEF Aged
  <2>3. /\ Aged(r).phase = r.phase /\ Aged(r).action = r.action
        /\ Aged(r).escalated = r.escalated /\ Aged(r).lastAction = Older(r.lastAction)
    BY <2>1, <2>2 DEF Report
  <2>4. r.lastAction # Zero => Older(r.lastAction) # Zero
    BY <2>1, StoreAssumption DEF Older, Stamp, Zero
  <2>5. Aged(r) # NoReport
    BY <1>2, AgedType
  <2> QED BY <1>2, <2>3, <2>4, <2>5 DEF RankOf, Timed, PhaseClaims
<1> QED BY <1>1, <1>2

LEMMA SafeTick ==
    ASSUME TypeInv, TypeInv', SafetyInv, Tick
    PROVE  SafetyInv'
<1> USE ThreadKinds
<1>1. /\ Exclusive
      /\ \A k \in Node : VersionsInOrder(k) /\ NotJoined(k) /\ CopiesOK(k)
      /\ \A v \in Worker : AtWork(v)
  BY SafetySplit
<1>2. /\ held' = held /\ pc' = pc
      /\ \A n \in Node :
           /\ api'[n] = Aged(api[n]) /\ cache'[n] = Aged(cache[n])
           /\ watch'[n] = [i \in DOMAIN watch[n] |-> Aged(watch[n][i])]
           /\ node'[n] = AgeNode(node[n])
  BY DEF Tick, AgeReports
<1>3. Exclusive'
  BY <1>1, <1>2 DEF Exclusive
<1>4. ASSUME NEW n \in Node
      PROVE  Keeps(node[n], node'[n])
  <2>1. node[n] \in NodeRecord /\ node[n].rebootAge \in Stamp
    BY DEF TypeInv, TypeOK, NodeRecord
  <2>2. node[n].rebootAge # Zero => Older(node[n].rebootAge) # Zero
    BY <2>1, StoreAssumption DEF Older, Stamp, Zero
  <2>3. LET q == AgeNode(node[n])
        IN  /\ q.place = node[n].place /\ q.inAsg = node[n].inAsg
            /\ q.cordoned = node[n].cordoned /\ q.tainted = node[n].tainted
            /\ q.pods = node[n].pods /\ q.rebootAge = Older(node[n].rebootAge)
    BY <2>1 DEF AgeNode, NodeRecord
  <2> QED BY <1>2, <2>2, <2>3 DEF Keeps
<1>5. ASSUME NEW n \in Node
      PROVE  VersionsInOrder(n)' /\ CopiesOK(n)' /\ NotJoined(n)'
  <2>1. /\ watch[n] \in Seq(Stored) /\ Len(watch[n]) \in Nat
        /\ DOMAIN watch[n] = 1 .. Len(watch[n])
        /\ \A i \in 1 .. Len(watch[n]) : watch[n][i] \in Stored
    <3>1. watch[n] \in Seq(Stored)
      BY DEF TypeInv, TypeOK, StoreTypeOK, Stored
    <3> QED BY <3>1, LenProperties, ElementOfSeq
  <2>2. api[n] \in Stored /\ cache[n] \in Stored
    BY DEF TypeInv, TypeOK, StoreTypeOK, Stored
  <2>3. /\ watch'[n] \in Seq(Stored) /\ DOMAIN watch'[n] = 1 .. Len(watch[n])
        /\ Len(watch'[n]) = Len(watch[n])
        /\ \A i \in 1 .. Len(watch[n]) : watch'[n][i] = Aged(watch[n][i])
    <3>1. watch'[n] \in Seq(Stored)
      BY DEF TypeInv, TypeOK, StoreTypeOK, Stored
    <3>2. DOMAIN watch'[n] = 1 .. Len(watch[n])
      BY <1>2, <2>1
    <3>3. DOMAIN watch'[n] = 1 .. Len(watch'[n]) /\ Len(watch'[n]) \in Nat
      BY <3>1, LenProperties
    <3>4. 1 .. Len(watch[n]) = 1 .. Len(watch'[n])
      BY <3>2, <3>3
    <3>5. Len(watch'[n]) = Len(watch[n])
      BY <2>1, <3>3, <3>4
    <3>6. \A i \in 1 .. Len(watch[n]) : watch'[n][i] = Aged(watch[n][i])
      BY <1>2, <2>1
    <3> QED BY <3>1, <3>2, <3>5, <3>6
  <2>4. VersionsInOrder(n)'
    <3>1. watch'[n] = <<>> <=> watch[n] = <<>>
      BY <2>1, <2>3, EmptySeq
    <3>2. watch'[n] # <<>> => watch'[n][Len(watch'[n])] = api'[n]
      <4>1. SUFFICES ASSUME watch'[n] # <<>> PROVE watch'[n][Len(watch[n])] = api'[n]
        BY <2>3
      <4>2. watch[n][Len(watch[n])] = api[n]
        BY <1>1, <3>1, <4>1 DEF VersionsInOrder
      <4>3. Len(watch[n]) \in 1 .. Len(watch[n])
        BY <2>1, <3>1, <4>1
      <4> QED BY <1>2, <2>3, <4>2, <4>3
    <3>3. ASSUME NEW i \in 2 .. Len(watch'[n]), watch'[n][i] # NoReport
          PROVE  watch'[n][i].phase = "none"
      <4>1. i \in 2 .. Len(watch[n]) /\ i \in 1 .. Len(watch[n])
        BY <2>1, <2>3
      <4>2. watch'[n][i] = Aged(watch[n][i]) /\ watch[n][i] \in Stored
        BY <2>1, <2>3, <4>1
      <4>3. watch[n][i] # NoReport => watch[n][i].phase = "none"
        BY <1>1, <4>1 DEF VersionsInOrder
      <4> QED BY <3>3, <4>2, <4>3, AgedKeeps
    <3>4. \A t \in Thread : held'[t] = [node |-> n, ref |-> "live"] => watch'[n] = <<>>
      BY <1>1, <1>2, <3>1 DEF VersionsInOrder
    <3> QED BY <3>2, <3>3, <3>4 DEF VersionsInOrder
  <2>5. \A p \in Copies(n)' : \E r \in Copies(n) : p = Aged(r)
    <3>1. ASSUME NEW p \in Copies(n)'
          PROVE  \E r \in Stored : p = Aged(r) /\ (r = NoReport \/ r \in Copies(n))
      <4>1. CASE p = api'[n]
        BY <1>2, <2>2, <4>1, CopiesAre
      <4>2. CASE p = cache'[n]
        BY <1>2, <2>2, <4>2, CopiesAre
      <4>3. CASE \E i \in 1 .. Len(watch'[n]) : p = watch'[n][i]
        <5>1. PICK i \in 1 .. Len(watch[n]) : p = Aged(watch[n][i])
          BY <2>3, <4>3
        <5> QED BY <2>1, <5>1, CopiesAre
      <4> QED BY <3>1, <4>1, <4>2, <4>3, CopiesWillBe
    <3>2. \A p \in Copies(n)' : p # NoReport
      BY CopiesWillBe
    <3> QED BY <3>1, <3>2, AgedKeeps
  <2>6. CopiesOK(n)'
    <3>1. ASSUME NEW p \in Copies(n)'
          PROVE  CopyOK(p, cache'[n], node'[n])
      <4>1. PICK r \in Copies(n) : p = Aged(r)
        BY <2>5
      <4>2. r \in Stored /\ r # NoReport
        BY CopiesAre, NoReportAssumption DEF Stored
      <4>3. CopyOK(r, cache[n], node[n])
        BY <1>1 DEF CopiesOK
      <4>4. PhaseClaims(node'[n], r)
        BY <1>4, <4>3, KeepsClaims DEF CopyOK
      <4>5. RankOf(cache'[n]) = RankOf(cache[n])
        BY <1>2, <2>2, AgedKeeps
      <4> QED BY <4>1, <4>2, <4>3, <4>4, <4>5, AgedKeeps DEF CopyOK
    <3> QED BY <3>1 DEF CopiesOK
  <2>7. NotJoined(n)'
    BY <1>1, <1>2, <1>4, <2>5 DEF NotJoined, Keeps
  <2> QED BY <2>4, <2>6, <2>7
<1>6. ASSUME NEW v \in Worker
      PROVE  AtWork(v)'
  <2>1. CASE pc[v] = "idle"
    BY <1>2, <2>1 DEF AtWork, Relies, NotReplace, Rebooting, DrainsOld, Removes
  <2>2. CASE pc[v] # "idle"
    <3>1. PICK n \in Node : n = held[v].node
      BY <2>2, Busy
    <3>2. Relies(pc[v], held[v].ref # "orphan", cache[n], node'[n])
      BY <1>1, <1>4, <3>1, KeepsClaims DEF AtWork
    <3>3. cache[n] \in Stored /\ (held[v].ref # "orphan" => cache[n] # NoReport)
      BY <2>2, <3>1 DEF TypeInv, TypeOK, StoreTypeOK, Stored, Pointers
    <3>4. Relies(pc[v], held[v].ref # "orphan", cache'[n], node'[n])
      BY <1>2, <3>2, <3>3, AgedKeeps DEF Relies
    <3> QED BY <1>2, <3>1, <3>4 DEF AtWork
  <2> QED BY <2>1, <2>2
<1> QED BY <1>3, <1>5, <1>6, SafetyJoin

LEMMA SafeCreate ==
    ASSUME TypeInv, TypeInv', SafetyInv, NEW n \in Node, EventCreates(n) \/ NodeCreates(n)
    PROVE  SafetyInv'
<1>1. PICK status \in NodeStatus, problems \in BOOLEAN, s \in 0 .. ScoreCap :
         Create(n, status, problems, s)
  <2>1. 0 \in 0 .. ScoreCap
    BY StoreAssumption
  <2> QED BY <2>1 DEF EventCreates, NodeCreates, NodeStatus
<1>2. PICK r \in Report : r = Opened(status, problems, s)
  BY DEF Opened, Report, Action, Phase, Stamp
<1>3. r.phase = "none" /\ r.action = "none" /\ ~r.escalated
  BY <1>2 DEF Opened
<1>4. /\ Persist(n, r, held) /\ UNCHANGED <<cache, node, pc>> /\ cache[n] = NoReport
      /\ node[n].place # "absent"
  BY <1>1, <1>2 DEF Create, Present
<1>5. Rank(r.phase) <= RankOf(cache[n]) /\ PhaseClaims(node[n], r) /\ Timed(r)
  BY <1>3, <1>4, RankValues DEF RankOf, PhaseClaims, Timed
<1>6. r \in Stored /\ held \in [Thread -> Hold]
  BY DEF Stored, TypeInv, TypeOK, StoreTypeOK
<1> QED BY <1>3, <1>4, <1>5, <1>6, ThreadKinds, SafePersist

(* A writer edits what no worker relies on.                                *)
LEMMA SafeEdit ==
    ASSUME TypeInv, TypeInv', SafetyInv, NEW f \in Writer, NEW n \in Node,
           NEW l \in {"commit", "remove"}, NEW r \in Report,
           cache[n] # NoReport, WriterBegins(f, n, r, l),
           r.phase = cache[n].phase, r.lastAction = cache[n].lastAction,
           r.escalated = cache[n].escalated, r.action \in {cache[n].action, "replace"}
    PROVE  SafetyInv'
<1> USE ThreadKinds
<1>1. /\ Exclusive
      /\ \A k \in Node : VersionsInOrder(k) /\ NotJoined(k) /\ CopiesOK(k)
      /\ \A v \in Worker : AtWork(v)
  BY SafetySplit
<1>2. /\ held' = [held EXCEPT ![f] = Lookup(n)] /\ pc' = [pc EXCEPT ![f] = l]
      /\ cache' = [cache EXCEPT ![n] = r] /\ UNCHANGED <<api, watch, node>>
  BY DEF WriterBegins
<1>3. held \in [Thread -> Hold] /\ cache \in [Node -> Stored] /\ cache[n] \in Report
  BY DEF TypeInv, TypeOK, StoreTypeOK, Stored
<1>4. /\ \A w \in Worker : held'[w] = held[w] /\ pc'[w] = pc[w]
      /\ \A t \in Thread : held'[t] # held[t] =>
            held'[t].node = n /\ (held'[t].ref = "live" => watch[n] = <<>>)
  BY <1>2, <1>3, ControllerAssumption DEF Lookup
<1>5. cache'[n] = r /\ \A k \in Node \ {n} : cache'[k] = cache[k]
  BY <1>2, <1>3
<1>6. Exclusive'
  BY <1>1, <1>4 DEF Exclusive
<1>7. RankOf(r) = RankOf(cache[n]) /\ RankOf(r) = Rank(r.phase) /\ RankOf(r) \in 0 .. 4
  BY <1>3, RankType, NoReportAssumption DEF RankOf, Stored
<1>8. cache[n] \in Copies(n) /\ node[n].place # "absent"
  BY <1>1 DEF Copies, NotJoined
<1>9. VersionsInOrder(n)' /\ CopiesOK(n)' /\ NotJoined(n)'
  <2>1. CopyOK(cache[n], cache[n], node[n]) /\ \A p \in Copies(n) : PhaseClaims(node[n], p)
    BY <1>1, <1>8 DEF CopiesOK, CopyOK
  <2>2. PhaseClaims(node[n], r) /\ Timed(r)
    BY <2>1 DEF CopyOK, PhaseClaims, Timed
  <2>3. \A t \in Thread : held'[t] = [node |-> n, ref |-> "live"] => watch[n] = <<>>
    BY <1>1, <1>4 DEF VersionsInOrder
  <2>4. RankOf(cache[n]) <= Rank(r.phase) /\ node'[n] = node[n]
    BY <1>2, <1>7
  <2> QED BY <1>1, <1>2, <1>5, <1>8, <2>1, <2>2, <2>3, <2>4, EditFrame
<1>10. ASSUME NEW k \in Node, k # n
       PROVE  VersionsInOrder(k)' /\ CopiesOK(k)' /\ NotJoined(k)'
  <2>1. /\ api'[k] = api[k] /\ cache'[k] = cache[k] /\ watch'[k] = watch[k]
        /\ Keeps(node[k], node'[k])
    BY <1>2, <1>5, <1>10, KeepsItself
  <2>2. /\ \A t \in Thread : held'[t] = [node |-> k, ref |-> "live"]
                               => held[t] = [node |-> k, ref |-> "live"]
        /\ \A v \in Worker : held'[v].node = k => held[v].node = k
    BY <1>4, <1>10
  <2> QED BY <1>1, <2>1, <2>2, Frame
<1>11. ASSUME NEW v \in Worker
       PROVE  AtWork(v)'
  <2>1. CASE pc[v] = "idle"
    BY <1>4, <2>1 DEF AtWork, Relies, NotReplace, Rebooting, DrainsOld, Removes
  <2>2. CASE pc[v] # "idle"
    <3>1. PICK k \in Node : k = held[v].node
      BY <2>2, Busy
    <3>2. Relies(pc[v], held[v].ref # "orphan", cache[k], node[k])
      BY <1>1, <3>1 DEF AtWork
    <3>3. Relies(pc[v], held[v].ref # "orphan", cache'[k], node[k])
      BY <1>5, <1>7, <3>2 DEF Relies
    <3> QED BY <1>2, <1>4, <3>1, <3>3 DEF AtWork
  <2> QED BY <2>1, <2>2
<1> QED BY <1>6, <1>9, <1>10, <1>11, SafetyJoin

LEMMA SafeWrite ==
    ASSUME TypeInv, TypeInv', SafetyInv, NEW f \in Writer, NEW n \in Node, Write(f, n)
    PROVE  SafetyInv'
<1> USE ThreadKinds
<1>1. cache[n] # NoReport => cache[n] \in Report
  BY DEF TypeInv, TypeOK, StoreTypeOK
<1>2. CASE EventRecorded(f, n)
  <2>1. PICK s \in 0 .. ScoreCap :
           /\ cache[n] # NoReport
           /\ WriterBegins(f, n, [cache[n] EXCEPT !.problems = TRUE, !.score = s], "commit")
    BY <1>2 DEF EventRecorded
  <2>2. PICK r \in Report : r = [cache[n] EXCEPT !.problems = TRUE, !.score = s]
    BY <1>1, <2>1, ReportEdits
  <2>3. /\ r.phase = cache[n].phase /\ r.lastAction = cache[n].lastAction
        /\ r.escalated = cache[n].escalated /\ r.action = cache[n].action
    BY <1>1, <2>1, <2>2 DEF Report
  <2> QED BY <2>1, <2>2, <2>3, SafeEdit
<1>3. CASE StatusRecorded(f, n)
  <2>1. cache[n] # NoReport
    BY <1>3 DEF StatusRecorded
  <2>2. PICK r \in Report : r = [cache[n] EXCEPT !.status = StatusOf(n)]
    BY <1>1, <2>1 DEF Report, StatusOf, NodeStatus
  <2>3. /\ r.phase = cache[n].phase /\ r.lastAction = cache[n].lastAction
        /\ r.escalated = cache[n].escalated /\ r.action = cache[n].action
    BY <1>1, <2>1, <2>2 DEF Report
  <2> QED BY <1>3, <2>1, <2>2, <2>3, SafeEdit DEF StatusRecorded
<1>4. CASE ReplaceRequested(f, n)
  <2>1. cache[n] # NoReport
    BY <1>4 DEF ReplaceRequested
  <2>2. PICK r \in Report :
           r = [cache[n] EXCEPT !.action = "replace",
                  !.status = IF node[n].ready = "Unknown" THEN "Unknown" ELSE @]
    BY <1>1, <2>1 DEF Report, NodeStatus, Action
  <2>3. /\ r.phase = cache[n].phase /\ r.lastAction = cache[n].lastAction
        /\ r.escalated = cache[n].escalated /\ r.action = "replace"
    BY <1>1, <2>1, <2>2 DEF Report
  <2> QED BY <1>4, <2>1, <2>2, <2>3, SafeEdit DEF ReplaceRequested
<1>5. CASE ReportWithdrawn(f, n)
  <2>1. /\ held' = [held EXCEPT ![f] = Lookup(n)] /\ pc' = [pc EXCEPT ![f] = "remove"]
        /\ cache' = cache /\ UNCHANGED <<api, watch, node>>
    BY <1>5 DEF ReportWithdrawn, WriterBegins, TypeInv, TypeOK, StoreTypeOK
  <2>2. \A w \in Worker : held'[w] = held[w] /\ pc'[w] = pc[w]
    BY <2>1, ControllerAssumption
  <2>3. \A t \in Thread, k \in Node :
           held'[t] = [node |-> k, ref |-> "live"] => held[t] = held'[t] \/ watch[k] = <<>>
    BY <2>1 DEF Lookup, TypeInv, TypeOK, StoreTypeOK
  <2>4. \A k \in Node : Keeps(node[k], node'[k])
    BY <2>1, KeepsItself
  <2> QED BY <2>1, <2>2, <2>3, <2>4, SafeStill
<1> QED BY <1>2, <1>3, <1>4, <1>5 DEF Write

(* A goroutine that ends its work and lets go.                             *)
LEMMA SafeRelease ==
    ASSUME TypeInv, TypeInv', SafetyInv, NEW t \in Thread,
           held' = Released(t), pc' = [pc EXCEPT ![t] = "idle"],
           UNCHANGED <<api, cache, watch>>,
           \A n \in Node : Keeps(node[n], node'[n])
    PROVE  SafetyInv'
<1>1. /\ held \in [Thread -> Hold] /\ pc \in [Thread -> Label]
      /\ Nothing.ref = "none"
  BY DEF TypeInv, TypeOK, StoreTypeOK, Nothing
<1>2. \A s \in Thread : s # t => held'[s] = held[s] /\ pc'[s] = pc[s]
  BY <1>1 DEF Released
<1>3. held'[t] = Nothing /\ pc'[t] = "idle"
  BY <1>1 DEF Released
<1> QED BY <1>1, <1>2, <1>3, ThreadKinds, SafeStill

(* Mine(t) goes to the API server at the version t holds.                  *)
LEMMA SafeSave ==
    ASSUME TypeInv, TypeInv', SafetyInv, NEW t \in Worker \cup Writer,
           held[t].node \in Node, Mine(t) # NoReport, Updatable(t),
           Persist(held[t].node, Mine(t), Released(t)),
           UNCHANGED <<cache, node>>, pc' = [pc EXCEPT ![t] = "idle"]
    PROVE  SafetyInv'
<1> USE ThreadKinds
<1>1. PICK n \in Node : n = held[t].node
  OBVIOUS
<1>2. VersionsInOrder(n) /\ NotJoined(n) /\ CopiesOK(n)
  BY SafetySplit
<1>3. /\ held \in [Thread -> Hold] /\ pc \in [Thread -> Label] /\ cache[n] \in Stored
      /\ Released(t) \in [Thread -> Hold]
  BY DEF TypeInv, TypeOK, StoreTypeOK, Stored, Released, Hold, Ref, Nothing
<1>4. watch[n] = <<>>
  <2>1. held[t] = [node |-> n, ref |-> "live"]
    BY <1>1, <1>3 DEF Updatable, Hold
  <2> QED BY <1>2, <2>1 DEF VersionsInOrder
<1>5. cache[n] = Mine(t) /\ cache[n] \in Copies(n)
  BY <1>1 DEF Mine, Copies
<1>6. /\ CopyOK(cache[n], cache[n], node[n]) /\ node[n].place # "absent"
  BY <1>2, <1>5 DEF CopiesOK, NotJoined
<1>7. Persist(n, cache[n], Released(t))
  BY <1>1, <1>5
<1>8. \A s \in Thread : Released(t)[s] = held[s] \/ Released(t)[s] = Nothing
  BY <1>3 DEF Released
<1>9. \A v \in Worker :
         pc'[v] = "idle" \/ (Released(t)[v] = held[v] /\ pc'[v] = pc[v])
  BY <1>3 DEF Released
<1> QED BY <1>3, <1>4, <1>6, <1>7, <1>8, <1>9, SafePersist DEF CopyOK

LEMMA SafeWriterEnds ==
    ASSUME TypeInv, TypeInv', SafetyInv, NEW f \in Writer,
           WriterSaves(f) \/ WriterDeletes(f)
    PROVE  SafetyInv'
<1> USE ThreadKinds
<1>1. held[f].node \in Node /\ pc[f] # "idle"
  BY DEF WriterSaves, WriterDeletes, TypeInv, Pointers, At
<1>2. UNCHANGED <<cache, node>> /\ pc' = [pc EXCEPT ![f] = "idle"]
  BY DEF WriterSaves, WriterDeletes
<1>3. \A n \in Node : Keeps(node[n], node'[n])
  BY <1>2, KeepsItself
<1>4. CASE WriterSaves(f) /\ Updatable(f)
  <2>1. Persist(held[f].node, Mine(f), Released(f))
    BY <1>4 DEF WriterSaves
  <2>2. CASE Mine(f) # NoReport
    BY <1>1, <1>2, <1>4, <2>1, <2>2, SafeSave
  <2>3. CASE Mine(f) = NoReport
    <3>1. /\ Released(f) \in [Thread -> Hold] /\ pc \in [Thread -> Label]
          /\ \A t \in Thread : Released(f)[t] = held[t] \/ Released(f)[t] = Nothing
          /\ \A v \in Worker : pc'[v] = "idle" \/ (Released(f)[v] = held[v] /\ pc'[v] = pc[v])
      BY <1>2 DEF TypeInv, TypeOK, StoreTypeOK, Released, Hold, Ref, Nothing
    <3> QED BY <1>1, <1>2, <2>1, <2>3, <3>1, SafePersist DEF Stored
  <2> QED BY <2>2, <2>3
<1>5. CASE WriterSaves(f) /\ ~Updatable(f)
  BY <1>2, <1>3, <1>5, SafeRelease DEF WriterSaves
<1>6. CASE WriterDeletes(f)
  <2>1. /\ Released(f) \in [Thread -> Hold] /\ pc \in [Thread -> Label]
        /\ \A t \in Thread : Released(f)[t] = held[t] \/ Released(f)[t] = Nothing
        /\ \A v \in Worker : v # f /\ Released(f)[v] = held[v] /\ pc'[v] = pc[v]
    BY <1>2, ControllerAssumption
       DEF TypeInv, TypeOK, StoreTypeOK, Released, Hold, Ref, Nothing
  <2> QED BY <1>1, <1>2, <1>6, <2>1, SafeRemove DEF WriterDeletes
<1> QED BY <1>4, <1>5, <1>6

LEMMA SafeCleaner ==
    ASSUME TypeInv, TypeInv', SafetyInv,
           (\E n \in Node : CleanerFinds(n)) \/ CleanerDeletes \/ CleanerFails
    PROVE  SafetyInv'
<1> USE ThreadKinds
<1>1. UNCHANGED <<cache, node>> /\ \A n \in Node : Keeps(node[n], node'[n])
  BY KeepsItself DEF CleanerFinds, CleanerDeletes, CleanerFails
<1>2. ASSUME NEW n \in Node, CleanerFinds(n)
      PROVE  SafetyInv'
  <2>1. /\ held' = [held EXCEPT ![Cleaner] = Lookup(n)]
        /\ pc' = [pc EXCEPT ![Cleaner] = "expire"]
        /\ UNCHANGED <<api, cache, watch>>
    BY <1>2 DEF CleanerFinds
  <2>2. \A w \in Worker : held'[w] = held[w] /\ pc'[w] = pc[w]
    BY <2>1, ControllerAssumption
  <2>3. \A t \in Thread, k \in Node :
           held'[t] = [node |-> k, ref |-> "live"] => held[t] = held'[t] \/ watch[k] = <<>>
    BY <2>1 DEF Lookup, TypeInv, TypeOK, StoreTypeOK
  <2> QED BY <1>1, <2>1, <2>2, <2>3, SafeStill
<1>3. CASE CleanerDeletes
  <2>1. held[Cleaner].node \in Node
    BY <1>3 DEF CleanerDeletes, TypeInv, Pointers, At
  <2>2. /\ Released(Cleaner) \in [Thread -> Hold]
        /\ \A t \in Thread : Released(Cleaner)[t] = held[t] \/ Released(Cleaner)[t] = Nothing
        /\ \A v \in Worker : Released(Cleaner)[v] = held[v] /\ pc'[v] = pc[v]
    BY <1>3, ControllerAssumption
       DEF CleanerDeletes, TypeInv, TypeOK, StoreTypeOK, Released, Hold, Ref, Nothing
  <2> QED BY <1>1, <1>3, <2>1, <2>2, SafeRemove DEF CleanerDeletes
<1>4. CASE CleanerFails
  BY <1>1, <1>4, SafeRelease DEF CleanerFails
<1> QED BY <1>2, <1>3, <1>4
-----------------------------------------------------------------------------
(* The workers.                                                            *)

(* What is known of a cached report of n.                                  *)
LEMMA CachedFacts ==
    ASSUME TypeInv, SafetyInv, NEW n \in Node, cache[n] # NoReport
    PROVE  /\ cache[n] \in Report /\ cache[n] \in Copies(n)
           /\ PhaseClaims(node[n], cache[n]) /\ Timed(cache[n])
           /\ RankOf(cache[n]) = Rank(cache[n].phase)
           /\ Rank(cache[n].phase) \in 0 .. 4 /\ node[n].place # "absent"
<1>1. CopiesOK(n) /\ NotJoined(n)
  BY SafetySplit
<1>2. cache[n] \in Report /\ cache[n] \in Copies(n)
  BY DEF TypeInv, TypeOK, StoreTypeOK, Copies
<1>3. RankOf(cache[n]) = Rank(cache[n].phase) /\ RankOf(cache[n]) \in 0 .. 4
  BY <1>2, RankType DEF RankOf, Stored
<1> QED BY <1>1, <1>2, <1>3 DEF CopiesOK, CopyOK, NotJoined

LEMMA SafeTake ==
    ASSUME TypeInv, TypeInv', SafetyInv, NEW w \in Worker, NEW n \in Node, Take(w, n)
    PROVE  SafetyInv'
<1> USE DEF NotReplace, Rebooting, DrainsOld, Removes
<1> DEFINE r == cache[n]
           m == node[n]
<1>a. ASSUME Drop(w, n)
      PROVE  SafetyInv'
  <2>1. \A k \in Node : Keeps(node[k], node'[k])
    BY <1>a, KeepsItself DEF Drop
  <2> QED BY <1>a, <2>1, SafeStill DEF Drop
<1>1. CASE TakeMissing(w, n)
  BY <1>1, <1>a DEF TakeMissing
<1>2. ASSUME r # NoReport, TakeReport(w, n)
      PROVE  SafetyInv'
  <2>1. /\ r \in Report /\ PhaseClaims(m, r) /\ Timed(r)
        /\ RankOf(r) = Rank(r.phase) /\ Rank(r.phase) \in 0 .. 4
    BY <1>2, CachedFacts
  <2>2. /\ Settled(r) \in Report /\ \A p \in Phase : InPhase(r, p) \in Report
        /\ Settled(r).phase = "none" /\ Settled(r).action = "none"
        /\ Settled(r).escalated = r.escalated /\ Settled(r).lastAction = r.lastAction
    BY <2>1, ReportEdits DEF Settled, Report
  <2>3. Timed(Settled(r)) /\ PhaseClaims(m, Settled(r))
    BY <2>1, <2>2 DEF Timed, PhaseClaims
  <2>4. r.phase = "none" => Rank(r.phase) = 0 /\ RankOf(r) = 0
    BY <2>1, RankValues
  <2> HIDE DEF r, m
  <2>b. ASSUME NEW l \in Label, Begin(w, n, r, l), Relies(l, TRUE, r, m)
        PROVE  SafetyInv'
    <3>1. Rank(r.phase) <= Rank(r.phase) /\ r \in Report
      BY <2>1
    <3>2. PICK q \in Report : q = r
      BY <3>1
    <3>3. /\ Begin(w, n, q, l) /\ Rank(cache[n].phase) <= Rank(q.phase)
          /\ PhaseClaims(node[n], q) /\ Timed(q) /\ Relies(l, TRUE, q, node[n])
      BY <2>1, <2>b, <3>1, <3>2 DEF r, m
    <3> QED BY <3>3, SafeBegin
  <2>l. {"notifyReplaced", "forceCordon", "cordonOld", "saveRetry", "saveLog", "detach",
         "uncordon", "cordonReboot", "notifyDenied", "startReboot", "startReplace",
         "page", "pageEscalated"} \subseteq Label
    BY DEF Label, Retried, Notifying, Draining, Saving
  <2>5. CASE TakeDrained(w, n)
    <3>1. r.phase = "drained" /\ Begin(w, n, r, "notifyReplaced")
      BY <2>5 DEF TakeDrained, r
    <3>2. Relies("notifyReplaced", TRUE, r, m)
      BY <2>1, <3>1 DEF Relies, Emptied, PhaseClaims
    <3> QED BY <2>b, <2>l, <3>1, <3>2
  <2>6. CASE TakeNewJoined(w, n)
    <3>1. PICK l \in {"forceCordon", "cordonOld"} : r.phase = "newjoined" /\ Begin(w, n, r, l)
      BY <2>6 DEF TakeNewJoined, r
    <3>2. Relies(l, TRUE, r, m)
      BY <2>1, <3>1 DEF Relies, PhaseClaims
    <3> QED BY <2>b, <2>l, <3>1, <3>2
  <2>7. CASE TakeDetached(w, n)
    <3>1. r.phase = "detached" /\ Begin(w, n, InPhase(r, "newjoined"), "saveRetry")
      BY <2>7 DEF TakeDetached, r
    <3>2. PICK q \in Report : q = InPhase(r, "newjoined")
      BY <2>2 DEF Phase
    <3>3. /\ q.phase = "newjoined" /\ q.action = r.action
          /\ q.escalated = r.escalated /\ q.lastAction = r.lastAction
      BY <2>1, <3>2 DEF InPhase, Report
    <3>4. PhaseClaims(m, q) /\ Timed(q) /\ Relies("saveRetry", TRUE, q, m)
      BY <2>1, <3>1, <3>3 DEF PhaseClaims, Timed, Relies
    <3>5. Rank(r.phase) <= Rank(q.phase)
      BY <3>1, <3>3, RankValues
    <3> QED BY <2>l, <3>1, <3>2, <3>4, <3>5, SafeBegin DEF r, m
  <2>8. CASE TakeReplace(w, n)
    <3>1. r.phase = "replace" /\ Begin(w, n, r, "detach")
      BY <2>8 DEF TakeReplace, r
    <3> QED BY <2>b, <2>l, <3>1 DEF Relies
  <2>9. CASE TakeRebooted(w, n)
    <3>1. r.phase = "rebooted" /\ Begin(w, n, r, "uncordon")
      BY <2>9 DEF TakeRebooted, r
    <3>2. Relies("uncordon", TRUE, r, m)
      BY <2>1, <3>1, RankValues DEF Relies
    <3> QED BY <2>b, <2>l, <3>1, <3>2
  <2>10. CASE TakeReboot(w, n)
    <3>1. r.phase = "reboot" /\ Begin(w, n, r, "cordonReboot")
      BY <2>10 DEF TakeReboot, r
    <3>2. Relies("cordonReboot", TRUE, r, m)
      BY <2>1, <3>1, RankValues DEF Relies, Timed
    <3> QED BY <2>b, <2>l, <3>1, <3>2
  <2>11. CASE TakeDenied(w, n)
    <3>1. r.phase = "none" /\ Begin(w, n, r, "notifyDenied")
      BY <2>11 DEF TakeDenied, Pending, r
    <3>2. Relies("notifyDenied", TRUE, r, m)
      BY <2>4, <3>1 DEF Relies
    <3> QED BY <2>b, <2>l, <3>1, <3>2
  <2>12. CASE TakeDryRun(w, n)
    <3>1. r.phase = "none" /\ Begin(w, n, Settled(r), "saveLog")
      BY <2>12 DEF TakeDryRun, Pending, r
    <3>2. Relies("saveLog", TRUE, Settled(r), m)
      BY DEF Relies
    <3>3. Rank(r.phase) <= Rank(Settled(r).phase)
      BY <2>1, <2>2, <3>1
    <3> QED BY <2>2, <2>3, <2>l, <3>1, <3>2, <3>3, SafeBegin DEF r, m
  <2>13. CASE TakeStart(w, n)
    <3>1. r.phase = "none"
      BY <2>13 DEF TakeStart, Pending, r
    <3>2. PICK l \in {"startReboot", "startReplace", "page", "pageEscalated"} :
             /\ Begin(w, n, r, l)
             /\ l = "startReboot" => Dispatched(n) = "reboot"
      BY <2>13 DEF TakeStart, r
    <3>3. Dispatched(n) = "reboot" => r.action = "reboot" \/ r.escalated = TRUE
      BY <2>1 DEF Dispatched, r, Report
    <3>4. Relies(l, TRUE, r, m)
      BY <2>1, <2>4, <3>1, <3>2, <3>3 DEF Relies, Timed
    <3> QED BY <2>b, <2>l, <3>2, <3>4
  <2>14. CASE TakeUnknownAction(w, n) \/ TakeQuiet(w, n)
    BY <2>14, <1>a DEF TakeUnknownAction, TakeQuiet
  <2>15. CASE TakeOverflow(w, n)
    <3>1. r.phase = "none"
      BY <2>15 DEF TakeOverflow, Waiting, r
    <3>2. PICK a \in Action, e \in BOOLEAN :
             Begin(w, n, [r EXCEPT !.score = 0, !.lastAction = 0, !.action = a,
                                   !.escalated = e], "saveLog")
      <4>1. Policy(n).escalate \in Action /\ Policy(n).action \in Action
        <5>1. Policy(n) \in Entry
          BY <2>15, PolicyType DEF TypeInv, TakeOverflow, Overflow
        <5> QED BY <5>1 DEF Entry
      <4>2. [r EXCEPT !.score = 0, !.lastAction = 0, !.action = Policy(n).action,
                      !.escalated = r.escalated]
              = [[r EXCEPT !.score = 0, !.lastAction = 0] EXCEPT !.action = Policy(n).action]
        BY <2>1 DEF Report
      <4>3. [r EXCEPT !.score = 0, !.lastAction = 0, !.action = Policy(n).escalate,
                      !.escalated = TRUE]
              = [[r EXCEPT !.score = 0, !.lastAction = 0]
                   EXCEPT !.action = Policy(n).escalate, !.escalated = TRUE]
        BY <2>1 DEF Report
      <4>4. r.escalated \in BOOLEAN
        BY <2>1 DEF Report
      <4>5. Begin(w, n,
                  IF WithinCooldown(n)
                    THEN [[r EXCEPT !.score = 0, !.lastAction = 0]
                            EXCEPT !.action = Policy(n).escalate, !.escalated = TRUE]
                    ELSE [[r EXCEPT !.score = 0, !.lastAction = 0]
                            EXCEPT !.action = Policy(n).action],
                  "saveLog")
        BY <2>15 DEF TakeOverflow, r
      <4> QED BY <4>1, <4>2, <4>3, <4>4, <4>5
    <3>3. PICK q \in Report : q = [r EXCEPT !.score = 0, !.lastAction = 0, !.action = a,
                                            !.escalated = e]
      <4>1. 0 \in 0 .. ScoreCap /\ 0 \in Stamp
        BY StoreAssumption DEF Stamp
      <4> QED BY <2>1, <4>1 DEF Report
    <3>4. q.phase = "none" /\ q.lastAction = 0
      BY <2>1, <3>1, <3>3 DEF Report
    <3>5. PhaseClaims(m, q) /\ Timed(q) /\ Relies("saveLog", TRUE, q, m)
      BY <3>4 DEF PhaseClaims, Timed, Relies, Zero
    <3>6. Rank(r.phase) <= Rank(q.phase)
      BY <2>1, <3>1, <3>4
    <3> QED BY <2>l, <3>2, <3>3, <3>5, <3>6, SafeBegin DEF r, m
  <2> QED
    BY <1>2, <2>5, <2>6, <2>7, <2>8, <2>9, <2>10, <2>11, <2>12, <2>13, <2>14, <2>15
       DEF TakeReport
<1> QED BY <1>1, <1>2 DEF Take, TakeReport

(* What a worker in the middle of its work knows.                          *)
LEMMA BusyFacts ==
    ASSUME TypeInv, SafetyInv, NEW w \in Worker, pc[w] # "idle"
    PROVE  /\ held[w].node \in Node /\ Here(w) \in NodeRecord /\ Here(w).place # "absent"
           /\ \A p \in Copies(held[w].node) :
                 PhaseClaims(Here(w), p) /\ Rank(p.phase) <= RankOf(Mine(w))
           /\ Relies(pc[w], held[w].ref # "orphan", Mine(w), Here(w))
           /\ held[w].ref # "orphan" =>
                /\ Mine(w) \in Report
                /\ PhaseClaims(Here(w), Mine(w)) /\ Timed(Mine(w))
                /\ RankOf(Mine(w)) = Rank(Mine(w).phase)
                /\ Rank(Mine(w).phase) \in 0 .. 4
<1>1. PICK n \in Node : n = held[w].node
  BY Busy
<1>2. CopiesOK(n) /\ NotJoined(n) /\ AtWork(w)
  BY SafetySplit
<1>3. Here(w) = node[n] /\ Mine(w) = cache[n] /\ Here(w) \in NodeRecord
  BY <1>1, Busy DEF Here, Mine
<1>4. node[n].place # "absent"
  BY <1>1, <1>2 DEF NotJoined
<1>5. held[w].ref # "orphan" => cache[n] # NoReport
  BY <1>1, ThreadKinds DEF TypeInv, Pointers
<1>6. \A p \in Copies(n) : PhaseClaims(node[n], p) /\ Rank(p.phase) <= RankOf(cache[n])
  BY <1>2 DEF CopiesOK, CopyOK
<1>7. Relies(pc[w], held[w].ref # "orphan", cache[n], node[n])
  BY <1>1, <1>2 DEF AtWork
<1> QED BY <1>1, <1>3, <1>4, <1>5, <1>6, <1>7, CachedFacts

(* A call that leaves the report alone.                                    *)
LEMMA SafeCall ==
    ASSUME TypeInv, TypeInv', SafetyInv, NEW w \in Worker, pc[w] # "idle",
           NEW m \in NodeRecord, NEW l \in Label, Proceed(w, m, Mine(w), l),
           Keeps(Here(w), m), m.place # "absent",
           \A own : Relies(pc[w], own, Mine(w), Here(w)) => Relies(l, own, Mine(w), m)
    PROVE  SafetyInv'
<1>1. \A p \in Copies(held[w].node) : PhaseClaims(m, p)
  BY BusyFacts, KeepsClaims
<1>2. Relies(l, held[w].ref # "orphan", Mine(w), m)
  BY BusyFacts
<1>3. held[w].ref # "orphan" =>
        /\ Mine(w) \in Report /\ RankOf(Mine(w)) <= Rank(Mine(w).phase)
        /\ PhaseClaims(m, Mine(w)) /\ Timed(Mine(w))
  BY BusyFacts, KeepsClaims
<1>4. /\ held[w].ref # "orphan" => Relies(l, TRUE, Mine(w), m)
      /\ held[w].ref = "orphan" => Relies(l, FALSE, Mine(w), m)
  BY <1>2
<1>5. PICK r : r = Mine(w)
  OBVIOUS
<1>6. /\ Proceed(w, m, r, l)
      /\ held[w].ref # "orphan" =>
           /\ r \in Report /\ RankOf(Mine(w)) <= Rank(r.phase)
           /\ PhaseClaims(m, r) /\ Timed(r) /\ Relies(l, TRUE, r, m)
  BY <1>3, <1>4, <1>5
<1> QED BY <1>1, <1>4, <1>6, SafeProceed

(* The last call: its success is noted in the report.                      *)
LEMMA SafeMark ==
    ASSUME TypeInv, TypeInv', SafetyInv, NEW w \in Worker, pc[w] # "idle",
           NEW m \in NodeRecord, NEW l \in Saving, NEW r, Proceed(w, m, r, l),
           m.place # "absent", \A p \in Copies(held[w].node) : PhaseClaims(m, p),
           held[w].ref # "orphan" =>
              /\ r \in Report /\ Rank(Mine(w).phase) <= Rank(r.phase)
              /\ PhaseClaims(m, r) /\ Timed(r)
    PROVE  SafetyInv'
<1>1. l \in Label
  BY DEF Label
<1>2. \A own, q : Relies(l, own, q, m)
  BY DEF Relies, Saving, NotReplace, Rebooting, DrainsOld, Removes
<1>3. held[w].ref # "orphan" => RankOf(Mine(w)) = Rank(Mine(w).phase)
  BY BusyFacts
<1> QED BY <1>1, <1>2, <1>3, SafeProceed

LEMMA MarkedReport ==
    ASSUME NEW r \in Report, NEW p \in Phase
    PROVE  /\ InPhase(r, p) \in Report /\ InPhase(r, p).phase = p
           /\ InPhase(r, p).action = r.action /\ InPhase(r, p).escalated = r.escalated
           /\ InPhase(r, p).lastAction = r.lastAction
           /\ Settled(r) \in Report /\ Settled(r).phase = "none"
           /\ Settled(r).action = "none" /\ Settled(r).escalated = r.escalated
           /\ Settled(r).lastAction = r.lastAction
           /\ Timed(r) => Timed(Settled(r))
<1>1. InPhase(r, p) \in Report /\ Settled(r) \in Report
  BY ReportEdits
<1>2. /\ InPhase(r, p).phase = p /\ InPhase(r, p).action = r.action
      /\ InPhase(r, p).escalated = r.escalated /\ InPhase(r, p).lastAction = r.lastAction
  BY DEF InPhase, Report
<1>3. /\ Settled(r).phase = "none" /\ Settled(r).action = "none"
      /\ Settled(r).escalated = r.escalated /\ Settled(r).lastAction = r.lastAction
  BY DEF Settled, Report
<1> QED BY <1>1, <1>2, <1>3 DEF Timed

LEMMA NodeEdits ==
    ASSUME NEW m \in NodeRecord, m.place # "absent"
    PROVE  /\ LET q == [m EXCEPT !.boot = "requested", !.rebootAge = 0]
              IN  /\ q \in NodeRecord /\ Keeps(m, q) /\ q.place = m.place
                  /\ q.rebootAge # Zero
           /\ LET q == [m EXCEPT !.inAsg = FALSE]
              IN  q \in NodeRecord /\ Keeps(m, q) /\ q.place = m.place /\ ~q.inAsg
           /\ LET q == [m EXCEPT !.cordoned = TRUE]
              IN  /\ q \in NodeRecord /\ Keeps(m, q) /\ q.place = m.place
                  /\ q.cordoned /\ q.inAsg = m.inAsg
           /\ LET q == [m EXCEPT !.pods = FALSE]
              IN  /\ q \in NodeRecord /\ Keeps(m, q) /\ q.place = m.place
                  /\ ~q.pods /\ q.inAsg = m.inAsg /\ q.cordoned = m.cordoned
           /\ \A left \in {m.pods, FALSE} :
              LET q == [m EXCEPT !.tainted = TRUE, !.pods = left]
              IN  /\ q \in NodeRecord /\ Keeps(m, q) /\ q.place = m.place
                  /\ q.tainted /\ q.inAsg = m.inAsg /\ q.cordoned = m.cordoned
           /\ LET q == [m EXCEPT !.place = "gone"]
              IN  q \in NodeRecord /\ Keeps(m, q) /\ q.place = "gone"
<1>1. LET q == [m EXCEPT !.boot = "requested", !.rebootAge = 0]
      IN  q \in NodeRecord /\ Keeps(m, q) /\ q.place = m.place /\ q.rebootAge # Zero
  <2>1. 0 \in Stamp /\ 0 # Zero
    BY StoreAssumption DEF Stamp, Zero
  <2> QED BY <2>1 DEF NodeRecord, Keeps
<1>2. LET q == [m EXCEPT !.inAsg = FALSE]
      IN  q \in NodeRecord /\ Keeps(m, q) /\ q.place = m.place /\ ~q.inAsg
  BY DEF NodeRecord, Keeps
<1>3. LET q == [m EXCEPT !.cordoned = TRUE]
      IN  /\ q \in NodeRecord /\ Keeps(m, q) /\ q.place = m.place
          /\ q.cordoned /\ q.inAsg = m.inAsg
  BY DEF NodeRecord, Keeps
<1>4. LET q == [m EXCEPT !.pods = FALSE]
      IN  /\ q \in NodeRecord /\ Keeps(m, q) /\ q.place = m.place
          /\ ~q.pods /\ q.inAsg = m.inAsg /\ q.cordoned = m.cordoned
  BY DEF NodeRecord, Keeps
<1>5. ASSUME NEW left \in {m.pods, FALSE}
      PROVE  LET q == [m EXCEPT !.tainted = TRUE, !.pods = left]
             IN  /\ q \in NodeRecord /\ Keeps(m, q) /\ q.place = m.place
                 /\ q.tainted /\ q.inAsg = m.inAsg /\ q.cordoned = m.cordoned
  <2>1. left \in BOOLEAN
    BY DEF NodeRecord
  <2> QED BY <2>1 DEF NodeRecord, Keeps
<1>6. LET q == [m EXCEPT !.place = "gone"]
      IN  q \in NodeRecord /\ Keeps(m, q) /\ q.place = "gone"
  BY DEF NodeRecord, Keeps
<1> QED BY <1>1, <1>2, <1>3, <1>4, <1>5, <1>6

LEMMA SafeWork ==
    ASSUME TypeInv, TypeInv', SafetyInv, NEW w \in Worker, Work(w)
    PROVE  SafetyInv'
<1> USE DEF At
<1>0. pc[w] # "idle"
  BY DEF Work, Start, Reboot, Detach, DetachRefused, Cordon, EvictOld, EvictReboot,
         ForceCordon, ForceStale, ForceTaint, Uncordon, NodeGone, Notify,
         DeleteNode, DeleteReport, DeletePaged, SelfReport, SelfNodeGone, Save, SaveConflict,
         Retried, Notifying, Draining, Saving
<1>z. PICK m \in NodeRecord : m = Here(w)
  BY <1>0, BusyFacts
<1>a. PICK r, own : m = Here(w) /\ r = Mine(w) /\ own = (held[w].ref # "orphan")
  BY <1>z
<1>b. /\ m.place # "absent"
      /\ \A p \in Copies(held[w].node) : PhaseClaims(m, p) /\ Rank(p.phase) <= RankOf(r)
      /\ Relies(pc[w], own, r, m)
      /\ own => /\ r \in Report /\ PhaseClaims(m, r) /\ Timed(r)
                /\ RankOf(r) = Rank(r.phase) /\ Rank(r.phase) \in 0 .. 4
  BY <1>0, <1>a, BusyFacts
<1>c. own => /\ \A p \in Phase :
                  /\ InPhase(r, p) \in Report /\ InPhase(r, p).phase = p
                  /\ InPhase(r, p).action = r.action
                  /\ InPhase(r, p).escalated = r.escalated
                  /\ InPhase(r, p).lastAction = r.lastAction
             /\ Settled(r) \in Report /\ Settled(r).phase = "none" /\ Timed(Settled(r))
  <2>1. "none" \in Phase
    BY DEF Phase
  <2> QED BY <1>b, <2>1, MarkedReport
<1>d. ASSUME NEW q \in NodeRecord, NEW l \in Label, Proceed(w, q, r, l), Keeps(m, q),
             q.place # "absent", \A o : Relies(pc[w], o, r, m) => Relies(l, o, r, q)
      PROVE  SafetyInv'
  BY <1>0, <1>a, <1>d, SafeCall
<1>e. ASSUME NEW q \in NodeRecord, NEW l \in Saving, NEW s, Proceed(w, q, s, l),
             Keeps(m, q), q.place # "absent",
             own => /\ s \in Report /\ Rank(r.phase) <= Rank(s.phase)
                    /\ PhaseClaims(q, s) /\ Timed(s)
      PROVE  SafetyInv'
  <2>1. \A p \in Copies(held[w].node) : PhaseClaims(q, p)
    BY <1>b, <1>e, KeepsClaims
  <2> QED BY <1>0, <1>a, <1>e, <2>1, SafeMark
<1>f. ASSUME NEW again, Finish(w, again), held' = Released(w),
             UNCHANGED <<api, cache, watch, node>>
      PROVE  SafetyInv'
  <2>1. pc' = [pc EXCEPT ![w] = "idle"] /\ \A n \in Node : Keeps(node[n], node'[n])
    BY <1>f, KeepsItself DEF Finish
  <2> QED BY <1>f, <2>1, SafeRelease, ThreadKinds
<1>g. /\ {"saveLog", "saveRetry"} = Saving
      /\ {"evictOld", "evictReboot", "reboot", "forceTaint", "forceStale", "deleteNode",
          "selfReport", "selfPod", "deleteReport", "deletePaged"} \subseteq Label
  BY DEF Saving, Label, Retried, Notifying, Draining
<1>h. Keeps(m, m)
  BY KeepsItself
<1> USE DEF NotReplace, Rebooting, DrainsOld, Removes
<1>1. CASE Start(w)
  <2>1. CASE pc[w] = "startReboot"
    <3>1. Proceed(w, m, InPhase(r, "reboot"), "saveLog")
      BY <1>1, <1>a, <2>1 DEF Start
    <3>2. PICK s : s = InPhase(r, "reboot")
      OBVIOUS
    <3>3. own => s \in Report /\ s.phase = "reboot" /\ s.lastAction = r.lastAction
      BY <1>c, <3>2 DEF Phase
    <3>4. own => Rank(r.phase) = 0 /\ r.lastAction # Zero
      BY <1>b, <2>1 DEF Relies
    <3>5. own => PhaseClaims(m, s) /\ Timed(s) /\ Rank(r.phase) <= Rank(s.phase)
      BY <3>3, <3>4, RankValues DEF PhaseClaims, Timed
    <3> QED BY <1>b, <1>e, <1>g, <1>h, <3>1, <3>2, <3>3, <3>5
  <2>2. CASE pc[w] = "startReplace"
    <3>1. Proceed(w, m, InPhase(r, "replace"), "saveLog")
      BY <1>1, <1>a, <2>2 DEF Start
    <3>2. PICK s : s = InPhase(r, "replace")
      OBVIOUS
    <3>3. own => /\ s \in Report /\ s.phase = "replace" /\ s.lastAction = r.lastAction
                 /\ s.action = r.action /\ s.escalated = r.escalated
      BY <1>c, <3>2 DEF Phase
    <3>4. own => Rank(r.phase) = 0 /\ Timed(r)
      BY <1>b, <2>2 DEF Relies
    <3>5. own => PhaseClaims(m, s) /\ Timed(s) /\ Rank(r.phase) <= Rank(s.phase)
      BY <3>3, <3>4, RankValues DEF PhaseClaims, Timed
    <3> QED BY <1>b, <1>e, <1>g, <1>h, <3>1, <3>2, <3>3, <3>5
  <2> QED BY <1>1, <2>1, <2>2 DEF Start
<1>2. CASE Reboot(w)
  <2>1. PICK q \in NodeRecord :
           /\ Proceed(w, q, InPhase(r, "rebooted"), "saveLog")
           /\ Keeps(m, q) /\ q.place = m.place /\ q.rebootAge # Zero
    <3>1. PICK q : q = [m EXCEPT !.boot = "requested", !.rebootAge = 0]
      OBVIOUS
    <3>2. q \in NodeRecord /\ Keeps(m, q) /\ q.place = m.place /\ q.rebootAge # Zero
      BY <1>b, <3>1, NodeEdits
    <3> QED BY <1>2, <1>a, <3>1, <3>2 DEF Reboot
  <2>2. PICK s : s = InPhase(r, "rebooted")
    OBVIOUS
  <2>3. own => s \in Report /\ s.phase = "rebooted" /\ s.lastAction = r.lastAction
    BY <1>c, <2>2 DEF Phase
  <2>4. own => Rank(r.phase) = 0 /\ r.lastAction # Zero
    BY <1>2, <1>b DEF Reboot, Relies
  <2>5. own => PhaseClaims(q, s) /\ Timed(s) /\ Rank(r.phase) <= Rank(s.phase)
    BY <2>1, <2>3, <2>4, RankValues DEF PhaseClaims, Timed
  <2> QED BY <1>b, <1>e, <1>g, <2>1, <2>2, <2>3, <2>5
<1>3. CASE Detach(w)
  <2>1. PICK q \in NodeRecord :
           /\ Proceed(w, q, InPhase(r, "detached"), "saveRetry")
           /\ Keeps(m, q) /\ q.place = m.place /\ ~q.inAsg
    BY <1>3, <1>a, <1>b, NodeEdits DEF Detach
  <2>2. PICK s : s = InPhase(r, "detached")
    OBVIOUS
  <2>3. own => /\ s \in Report /\ s.phase = "detached" /\ s.lastAction = r.lastAction
               /\ s.action = r.action /\ s.escalated = r.escalated
    BY <1>c, <2>2 DEF Phase
  <2>4. own => r.phase = "replace" /\ Timed(r)
    BY <1>3, <1>b DEF Detach, Relies
  <2>5. own => PhaseClaims(q, s) /\ Timed(s) /\ Rank(r.phase) <= Rank(s.phase)
    BY <2>1, <2>3, <2>4, RankValues DEF PhaseClaims, Timed
  <2> QED BY <1>b, <1>e, <1>g, <2>1, <2>2, <2>3, <2>5
<1>4. CASE DetachRefused(w) \/ ForceStale(w) \/ NodeGone(w)
  BY <1>4, <1>f DEF DetachRefused, ForceStale, NodeGone, Retry
<1>5. CASE Cordon(w) \/ ForceCordon(w)
  <2>1. PICK q \in NodeRecord, l \in {"evictOld", "evictReboot", "forceTaint", "forceStale"} :
           /\ Proceed(w, q, r, l)
           /\ Keeps(m, q) /\ q.place = m.place /\ q.cordoned /\ q.inAsg = m.inAsg
           /\ \/ pc[w] = "cordonOld" /\ l = "evictOld"
              \/ pc[w] = "cordonReboot" /\ l = "evictReboot"
              \/ pc[w] = "forceCordon" /\ l \in {"forceTaint", "forceStale"}
    BY <1>5, <1>a, <1>b, NodeEdits DEF Cordon, ForceCordon
  <2>2. \A o : Relies(pc[w], o, r, m) => Relies(l, o, r, q)
    BY <2>1 DEF Relies
  <2> QED BY <1>b, <1>d, <1>g, <2>1, <2>2
<1>6. CASE EvictReboot(w)
  <2>1. PICK q \in NodeRecord :
           Proceed(w, q, r, "reboot") /\ Keeps(m, q) /\ q.place = m.place
    <3>1. PICK q : q = [m EXCEPT !.pods = FALSE]
      OBVIOUS
    <3>2. q \in NodeRecord /\ Keeps(m, q) /\ q.place = m.place
      BY <1>b, <3>1, NodeEdits
    <3> QED BY <1>6, <1>a, <3>1, <3>2 DEF EvictReboot
  <2>2. \A o : Relies(pc[w], o, r, m) => Relies("reboot", o, r, q)
    BY <1>6 DEF EvictReboot, Relies
  <2> QED BY <1>b, <1>d, <1>g, <2>1, <2>2
<1>7. CASE EvictOld(w) \/ ForceTaint(w)
  <2>1. PICK q \in NodeRecord :
           /\ Proceed(w, q, InPhase(r, "drained"), "saveRetry")
           /\ Keeps(m, q) /\ q.place = m.place
           /\ q.inAsg = m.inAsg /\ q.cordoned = m.cordoned /\ (q.tainted \/ ~q.pods)
    BY <1>7, <1>a, <1>b, NodeEdits DEF EvictOld, ForceTaint
  <2>2. PICK s : s = InPhase(r, "drained")
    OBVIOUS
  <2>3. own => /\ s \in Report /\ s.phase = "drained" /\ s.lastAction = r.lastAction
               /\ s.action = r.action /\ s.escalated = r.escalated
    BY <1>c, <2>2 DEF Phase
  <2>4. ~m.inAsg /\ m.cordoned
    BY <1>7, <1>b DEF EvictOld, ForceTaint, Relies
  <2>5. own => Rank(r.phase) <= Rank(s.phase)
    BY <1>b, <2>3, RankValues
  <2>6. own => PhaseClaims(q, s) /\ Timed(s)
    BY <1>b, <2>1, <2>3, <2>4 DEF PhaseClaims, Timed
  <2> QED BY <1>b, <1>e, <1>g, <2>1, <2>2, <2>3, <2>5, <2>6
<1>8. CASE Uncordon(w)
  <2>1. PICK q \in NodeRecord :
           /\ Proceed(w, q, Settled(r), "saveRetry")
           /\ q.place = m.place /\ q.inAsg = m.inAsg /\ q.rebootAge = m.rebootAge
    <3>1. LET q == [m EXCEPT !.cordoned = FALSE]
          IN  /\ q \in NodeRecord /\ q.place = m.place /\ q.inAsg = m.inAsg
              /\ q.rebootAge = m.rebootAge
      BY DEF NodeRecord
    <3> QED BY <1>8, <1>a, <3>1 DEF Uncordon
  <2>2. RankOf(r) = 0
    BY <1>8, <1>b DEF Uncordon, Relies
  <2>3. ASSUME NEW p \in Copies(held[w].node)
        PROVE  PhaseClaims(q, p)
    <3>1. PhaseClaims(m, p) /\ Rank(p.phase) <= 0
      BY <1>b, <2>2
    <3>2. p.phase \notin {"detached", "newjoined", "drained"}
      BY <3>1, RankValues
    <3> QED BY <2>1, <3>1, <3>2 DEF PhaseClaims
  <2>4. PICK s : s = Settled(r)
    OBVIOUS
  <2>5. own => /\ s \in Report /\ s.phase = "none" /\ Timed(s)
               /\ Rank(r.phase) <= Rank(s.phase)
    BY <1>b, <1>c, <2>2, <2>4, RankValues
  <2>6. own => PhaseClaims(q, s)
    BY <2>5 DEF PhaseClaims
  <2>7. "saveRetry" \in Saving
    BY <1>g
  <2> QED BY <1>0, <1>a, <1>b, <2>1, <2>3, <2>4, <2>5, <2>6, <2>7, SafeMark
<1>9. CASE Notify(w)
  <2>1. CASE pc[w] \in {"notifyDenied", "page"}
    <3>1. PICK l \in Saving : Proceed(w, m, Settled(r), l)
      BY <1>9, <1>a, <1>g, <2>1 DEF Notify
    <3>2. PICK s : s = Settled(r)
      OBVIOUS
    <3>3. own => s \in Report /\ s.phase = "none" /\ Timed(s) /\ Rank(r.phase) = 0
      BY <1>b, <1>c, <2>1, <3>2 DEF Relies
    <3>4. own => PhaseClaims(m, s) /\ Rank(r.phase) <= Rank(s.phase)
      BY <3>3, RankValues DEF PhaseClaims
    <3> QED BY <1>b, <1>e, <1>h, <3>1, <3>2, <3>3, <3>4
  <2>2. CASE pc[w] = "notifyReplaced"
    <3>1. PICK l \in {"selfReport", "deleteNode"} : Proceed(w, m, r, l)
      BY <1>9, <1>a, <2>2 DEF Notify
    <3>2. \A o : Relies(pc[w], o, r, m) => Relies(l, o, r, m)
      BY <2>2 DEF Relies
    <3> QED BY <1>b, <1>d, <1>g, <1>h, <3>1, <3>2
  <2>3. CASE pc[w] = "pageEscalated"
    <3>1. Proceed(w, m, r, "deletePaged")
      BY <1>9, <1>a, <2>3 DEF Notify
    <3>2. \A o : Relies(pc[w], o, r, m) => Relies("deletePaged", o, r, m)
      BY <2>3 DEF Relies
    <3> QED BY <1>b, <1>d, <1>g, <1>h, <3>1, <3>2
  <2> QED BY <1>9, <2>1, <2>2, <2>3 DEF Notify
<1>10. CASE DeleteNode(w) \/ SelfNodeGone(w)
  <2>1. PICK q \in NodeRecord, l \in {"deleteReport", "selfPod"} :
           Proceed(w, q, r, l) /\ Keeps(m, q) /\ q.place = "gone"
    <3>1. PICK q : q = [m EXCEPT !.place = "gone"]
      OBVIOUS
    <3>2. q \in NodeRecord /\ Keeps(m, q) /\ q.place = "gone"
      BY <1>b, <3>1, NodeEdits
    <3> QED BY <1>10, <1>a, <3>1, <3>2 DEF DeleteNode, SelfNodeGone
  <2>2. \A o : Relies(l, o, r, q)
    BY <2>1 DEF Relies
  <2> QED BY <1>d, <1>g, <2>1, <2>2
<1>11. CASE DeleteReport(w) \/ DeletePaged(w) \/ SelfReport(w)
  <2>1. PICK n \in Node : n = held[w].node
    BY <1>0, Busy
  <2>2. /\ held \in [Thread -> Hold] /\ pc \in [Thread -> Label]
        /\ Released(w) \in [Thread -> Hold]
    BY DEF TypeInv, TypeOK, StoreTypeOK, Released, Hold, Ref, Nothing
  <2>3. CASE DeleteReport(w) \/ DeletePaged(w)
    <3>1. /\ Remove(n, Released(w)) /\ pc' = [pc EXCEPT ![w] = "idle"]
          /\ UNCHANGED <<cache, node>>
      BY <2>1, <2>3 DEF DeleteReport, DeletePaged, Finish
    <3>2. \A t \in Thread : Released(w)[t] = held[t] \/ Released(w)[t] = Nothing
      BY <2>2 DEF Released
    <3>3. \A v \in Worker :
             \/ pc'[v] = "idle" /\ Released(w)[v] = Nothing
             \/ Released(w)[v] = held[v] /\ pc'[v] = pc[v]
      BY <2>2, <3>1, ThreadKinds DEF Released
    <3> QED BY <2>2, <3>1, <3>2, <3>3, SafeRemove
  <2>4. CASE SelfReport(w)
    <3>1. /\ Remove(n, held) /\ pc' = [pc EXCEPT ![w] = "selfNode"]
          /\ pc[w] = "selfReport" /\ UNCHANGED <<cache, node>>
      BY <2>1, <2>4 DEF SelfReport
    <3>2. \A v \in Worker :
             pc'[v] = pc[v] \/ (pc[v] = "selfReport" /\ pc'[v] = "selfNode")
      BY <2>2, <3>1, ThreadKinds
    <3> QED BY <2>2, <3>1, <3>2, SafeRemove
  <2> QED BY <1>11, <2>3, <2>4
<1>12. CASE Save(w)
  <2>1. Mine(w) # NoReport
    BY <1>12, <1>a, <1>b, NoReportAssumption DEF Save, Updatable
  <2> QED BY <1>0, <1>12, <2>1, BusyFacts, SafeSave DEF Save, Finish
<1>13. CASE SaveConflict(w)
  BY <1>13, <1>f DEF SaveConflict
<1> QED
  BY <1>1, <1>2, <1>3, <1>4, <1>5, <1>6, <1>7, <1>8, <1>9, <1>10, <1>11, <1>12,
     <1>13 DEF Work

LEMMA SafeFault ==
    ASSUME TypeInv, TypeInv', SafetyInv, NEW w \in Worker, Fault(w)
    PROVE  SafetyInv'
<1> USE DEF At
<1>0. pc[w] # "idle"
  BY DEF Fault, CallFails, CallLost, SaveFails, DeleteReportFails, SelfCallFails,
         Retried, Notifying, Draining, Saving
<1>a. ASSUME NEW again, Finish(w, again), held' = Released(w),
             UNCHANGED <<api, cache, watch>>, \A n \in Node : Keeps(node[n], node'[n])
      PROVE  SafetyInv'
  BY <1>a, SafeRelease, ThreadKinds DEF Finish
<1>b. node' = node => \A n \in Node : Keeps(node[n], node'[n])
  BY KeepsItself
<1>1. CASE CallFails(w)
  BY <1>1, <1>a, <1>b DEF CallFails, Retry
<1>2. CASE CallLost(w)
  <2>1. PICK n \in Node : n = held[w].node
    BY <1>0, Busy
  <2>2. node \in [Node -> NodeRecord] /\ node[n].place # "absent" /\ Here(w) = node[n]
    BY <1>0, <2>1, BusyFacts DEF Here, TypeInv, TypeOK
  <2>3. PICK q : node' = [node EXCEPT ![n] = q] /\ Keeps(node[n], q)
    <3>1. CASE pc[w] = "detach"
      <4>1. PICK q : q = [node[n] EXCEPT !.inAsg = FALSE]
        OBVIOUS
      <4>2. Keeps(node[n], q)
        BY <2>2, <4>1, NodeEdits
      <4> QED BY <1>2, <2>1, <3>1, <4>1, <4>2 DEF CallLost
    <3>2. CASE pc[w] = "reboot"
      <4>1. PICK q : q = [node[n] EXCEPT !.boot = "requested", !.rebootAge = 0]
        OBVIOUS
      <4>2. Keeps(node[n], q)
        BY <2>2, <4>1, NodeEdits
      <4> QED BY <1>2, <2>1, <3>2, <4>1, <4>2 DEF CallLost
    <3>3. CASE pc[w] = "deleteNode"
      <4>1. PICK q : q = [node[n] EXCEPT !.place = "gone"]
        OBVIOUS
      <4>2. Keeps(node[n], q)
        BY <2>2, <4>1, NodeEdits
      <4> QED BY <1>2, <2>1, <3>3, <4>1, <4>2 DEF CallLost
    <3> QED BY <1>2, <3>1, <3>2, <3>3 DEF CallLost
  <2>4. \A k \in Node : Keeps(node[k], node'[k])
    BY <2>2, <2>3, KeepsItself
  <2> QED BY <1>2, <1>a, <2>4 DEF CallLost
<1>3. CASE SaveFails(w)
  <2>1. CASE held' = Released(w) /\ UNCHANGED <<api, watch>>
    BY <1>3, <1>a, <1>b, <2>1 DEF SaveFails
  <2>2. CASE Updatable(w) /\ Persist(held[w].node, Mine(w), Released(w))
    <3>1. Mine(w) # NoReport
      BY <1>0, <2>2, BusyFacts, NoReportAssumption DEF Updatable
    <3> QED BY <1>0, <1>3, <2>2, <3>1, BusyFacts, SafeSave DEF SaveFails, Finish
  <2> QED BY <1>3, <2>1, <2>2 DEF SaveFails
<1>4. CASE DeleteReportFails(w)
  BY <1>4, <1>a, <1>b DEF DeleteReportFails
<1>5. CASE SelfCallFails(w)
  <2>1. /\ UNCHANGED <<api, cache, watch, node>> /\ pc \in [Thread -> Label]
        /\ \A n \in Node : Keeps(node[n], node'[n])
    BY <1>5, <1>b DEF SelfCallFails, TypeInv, TypeOK
  <2>2. CASE held' = held
    <3>1. \A own \in BOOLEAN : \A r, m :
             /\ Relies("selfReport", own, r, m) => Relies("selfNode", own, r, m)
             /\ Relies("selfNode", own, r, m) => Relies("selfPod", own, r, m)
             /\ Relies("selfPod", own, r, m) => Relies("idle", own, r, m)
      BY DEF Relies, NotReplace, Rebooting, DrainsOld, Removes
    <3>2. \A v \in Worker : pc'[v] = pc[v] \/
             (v = w /\ <<pc[v], pc'[v]>> \in {<<"selfReport", "selfNode">>,
                          <<"selfNode", "selfPod">>, <<"selfPod", "idle">>})
      BY <1>5, <2>1, ThreadKinds DEF SelfCallFails
    <3>3. \A v \in Worker : \A own \in BOOLEAN : \A r, m :
             Relies(pc[v], own, r, m) => Relies(pc'[v], own, r, m)
      BY <3>1, <3>2
    <3> QED BY <2>1, <2>2, <3>3, SafeStill
  <2>3. CASE pc' = [pc EXCEPT ![w] = "idle"] /\ held' = Released(w)
    BY <2>1, <2>3, SafeRelease, ThreadKinds
  <2> QED BY <1>5, <2>2, <2>3 DEF SelfCallFails
<1> QED BY <1>1, <1>2, <1>3, <1>4, <1>5 DEF Fault

(* No event outside brings a node back into the group, uncordons it, or    *)
(* puts pods on a node that is cordoned.                                   *)
LEMMA SafeEnvironment ==
    ASSUME TypeInv, TypeInv', SafetyInv, NEW n \in Node, Environment(n)
    PROVE  SafetyInv'
<1>1. node[n] \in NodeRecord /\ node \in [Node -> NodeRecord]
  BY DEF TypeInv, TypeOK
<1>2. PICK m : World(n, m) /\ (node[n].place = "absent" \/ Keeps(node[n], m))
  <2>1. CASE Outage(n)
    <3>1. PICK s \in {"False", "Unknown"} : World(n, [node[n] EXCEPT !.ready = s])
      BY <2>1 DEF Outage
    <3>2. Keeps(node[n], [node[n] EXCEPT !.ready = s])
      BY <1>1 DEF NodeRecord, Keeps
    <3> QED BY <3>1, <3>2
  <2>2. CASE Recover(n)
    <3>1. Keeps(node[n], [node[n] EXCEPT !.ready = "True"])
      BY <1>1 DEF NodeRecord, Keeps
    <3> QED BY <2>2, <3>1 DEF Recover
  <2>3. CASE GoesDown(n)
    <3>1. Keeps(node[n], [node[n] EXCEPT !.boot = "down", !.ready = "False"])
      BY <1>1 DEF NodeRecord, Keeps
    <3> QED BY <2>3, <3>1 DEF GoesDown
  <2>4. CASE ComesUp(n)
    <3>1. Keeps(node[n], [node[n] EXCEPT !.boot = "steady", !.ready = "True"])
      BY <1>1 DEF NodeRecord, Keeps
    <3> QED BY <2>4, <3>1 DEF ComesUp
  <2>5. CASE Launch(n) \/ ScaleOut(n)
    BY <2>5 DEF Launch, ScaleOut, Joined
  <2>6. CASE Vanish(n)
    <3>1. Keeps(node[n], [node[n] EXCEPT !.place = "gone"])
      BY <1>1 DEF NodeRecord, Keeps
    <3> QED BY <2>6, <3>1 DEF Vanish
  <2>7. CASE PodsScheduled(n)
    <3>1. ~node[n].cordoned /\ World(n, [node[n] EXCEPT !.pods = TRUE])
      BY <2>7 DEF PodsScheduled
    <3>2. Keeps(node[n], [node[n] EXCEPT !.pods = TRUE])
      BY <1>1, <3>1 DEF NodeRecord, Keeps
    <3> QED BY <3>1, <3>2
  <2>8. CASE TaintEvicts(n)
    <3>1. Keeps(node[n], [node[n] EXCEPT !.pods = FALSE])
      BY <1>1 DEF NodeRecord, Keeps
    <3> QED BY <2>8, <3>1 DEF TaintEvicts
  <2> QED
    BY <2>1, <2>2, <2>3, <2>4, <2>5, <2>6, <2>7, <2>8 DEF Environment
<1>3. /\ UNCHANGED <<api, cache, watch, held, pc>>
      /\ \A k \in Node : node[k].place = "absent" \/ Keeps(node[k], node'[k])
  BY <1>1, <1>2, KeepsItself DEF World
<1> QED BY <1>3, SafeStill
-----------------------------------------------------------------------------
LEMMA SafeInit == Init => SafetyInv
<1> SUFFICES ASSUME Init PROVE SafetyInv
  OBVIOUS
<1> USE ThreadKinds
<1>1. NoNode \notin Node /\ Nothing.node = NoNode /\ Nothing.ref = "none"
  BY StoreAssumption DEF Nothing
<1>2. \A n \in Node : api[n] = NoReport /\ cache[n] = NoReport /\ watch[n] = <<>>
  BY DEF Init, StoreInit
<1>3. \A t \in Thread : held[t] = Nothing /\ pc[t] = "idle"
  BY DEF Init, StoreInit
<1>4. Exclusive
  BY <1>1, <1>3 DEF Exclusive
<1>5. ASSUME NEW n \in Node
      PROVE  VersionsInOrder(n) /\ NotJoined(n) /\ CopiesOK(n)
  <2>1. Len(watch[n]) = 0 /\ DOMAIN watch[n] = {}
    BY <1>2, EmptySeq
  <2>2. Copies(n) = {}
    BY <1>2, <2>1 DEF Copies
  <2> QED BY <1>1, <1>2, <1>3, <2>1, <2>2 DEF VersionsInOrder, NotJoined, CopiesOK
<1>6. \A w \in Worker : AtWork(w)
  BY <1>3 DEF AtWork, Relies, NotReplace, Rebooting, DrainsOld, Removes
<1> QED BY <1>4, <1>5, <1>6, SafetySplit

LEMMA SafeNext == TypeInv /\ SafetyInv /\ [Next]_vars => SafetyInv'
<1> SUFFICES ASSUME TypeInv, SafetyInv, [Next]_vars PROVE SafetyInv'
  OBVIOUS
<1>0. TypeInv'
  BY TypeNext
<1>1. CASE \E w \in Worker, n \in Node : Take(w, n)
  BY <1>0, <1>1, SafeTake
<1>2. CASE \E w \in Worker : Work(w)
  BY <1>0, <1>2, SafeWork
<1>3. CASE \E w \in Worker : Fault(w)
  BY <1>0, <1>3, SafeFault
<1>4. CASE (\E n \in Node : CleanerFinds(n)) \/ CleanerDeletes \/ CleanerFails
  BY <1>0, <1>4, SafeCleaner
<1>5. CASE \E n \in Node : EventCreates(n) \/ NodeCreates(n)
  BY <1>0, <1>5, SafeCreate
<1>6. CASE \E f \in Writer, n \in Node : Write(f, n)
  BY <1>0, <1>6, SafeWrite
<1>7. CASE \E f \in Writer : WriterSaves(f) \/ WriterDeletes(f)
  BY <1>0, <1>7, SafeWriterEnds
<1>8. CASE \E n \in Node : Deliver(n)
  BY <1>0, <1>8, SafeDeliver
<1>9. CASE \E n \in Node : Environment(n)
  BY <1>0, <1>9, SafeEnvironment
<1>10. CASE Crash \/ \E w \in Worker : SelfPod(w)
  BY <1>0, <1>10, SafeRestart DEF Crash, SelfPod
<1>11. CASE EditConfigs \/ UNCHANGED vars
  <2>1. UNCHANGED <<api, cache, watch, held, pc, node>>
    BY <1>11 DEF EditConfigs, vars
  <2>2. \A n \in Node : Keeps(node[n], node'[n])
    BY <2>1, KeepsItself
  <2> QED BY <1>0, <2>1, <2>2, SafeStill
<1>12. CASE Tick
  BY <1>0, <1>12, SafeTick
<1> QED
  BY <1>1, <1>2, <1>3, <1>4, <1>5, <1>6, <1>7, <1>8, <1>9, <1>10, <1>11, <1>12
     DEF Next

THEOREM SafetyHolds == Spec => [](TypeInv /\ SafetyInv)
<1>1. Init => TypeInv /\ SafetyInv
  BY TypeInit, SafeInit
<1>2. TypeInv /\ SafetyInv /\ [Next]_vars => TypeInv' /\ SafetyInv'
  BY TypeNext, SafeNext
<1> QED BY <1>1, <1>2, PTL DEF Spec
-----------------------------------------------------------------------------
(* Wherever a report says detached, drained or rebooted, on the API        *)
(* server, in the cache or on its way there, it is so.                     *)
THEOREM PhasesAreTrue == Spec => []PhaseEffects
<1>1. SafetyInv => PhaseEffects
  BY DEF SafetyInv
<1> QED BY <1>1, SafetyHolds, PTL

(* Every reboot and every escalation is timed by LastActionTime.           *)
THEOREM RebootsAreTimed == Spec => []RebootTimed
<1>1. SafetyInv => RebootTimed
  BY DEF SafetyInv
<1> QED BY <1>1, SafetyHolds, PTL

(* A worker about to delete a Node object relies on its being emptied.     *)
THEOREM DeletionsFollowDrains == Spec => DeletedNodeWasDrained
<1>1. TypeInv /\ SafetyInv =>
         \A w \in Worker, n \in Node :
            held[w].node = n /\ pc[w] \in {"deleteNode", "selfNode"} => Emptied(node[n])
  BY DEF SafetyInv, AtWork, Relies, Removes
<1>2. TypeInv /\ SafetyInv /\ [Next]_vars =>
         [\A w \in Worker, n \in Node :
            /\ held[w].node = n /\ pc[w] \in {"deleteNode", "selfNode"}
            /\ pc'[w] # pc[w] /\ node[n].place = "present" /\ node'[n].place = "gone"
            => ~node[n].inAsg /\ node[n].cordoned /\ (node[n].tainted \/ ~node[n].pods)
         ]_vars
  BY <1>1 DEF Emptied
<1> QED BY <1>2, SafetyHolds, PTL DEF Spec, DeletedNodeWasDrained

(* What a step may do to a persisted report.                               *)
Stepped(n) ==
    \/ api[n] = NoReport \/ api'[n] = NoReport
    \/ api'[n] = api[n] \/ api'[n] = Aged(api[n]) \/ api'[n] = cache[n]

LEMMA PersistSteps ==
    ASSUME TypeInv, NEW n \in Node
    PROVE  /\ \A k \in Node : \A h : Remove(k, h) => Stepped(n)
           /\ \A t \in Worker \cup Writer : \A h :
                 held[t].node \in Node /\ Persist(held[t].node, Mine(t), h) => Stepped(n)
           /\ UNCHANGED api => Stepped(n)
BY DEF TypeInv, TypeOK, StoreTypeOK, Remove, Persist, Mine, Stepped

LEMMA ApiSteps ==
    ASSUME TypeInv, [Next]_vars, NEW n \in Node
    PROVE  Stepped(n)
<1>1. CASE \E w \in Worker, k \in Node : Take(w, k)
  BY <1>1, PersistSteps
     DEF Take, TakeMissing, TakeReport, TakeDrained, TakeNewJoined, TakeDetached,
         TakeReplace, TakeRebooted, TakeReboot, TakeDenied, TakeDryRun, TakeStart,
         TakeUnknownAction, TakeOverflow, TakeQuiet, Begin, Drop
<1>2. ASSUME NEW w \in Worker, Work(w)
      PROVE  Stepped(n)
  <2>1. CASE Save(w) \/ DeleteReport(w) \/ DeletePaged(w) \/ SelfReport(w)
    <3>1. pc[w] # "idle"
      BY <2>1 DEF Save, DeleteReport, DeletePaged, SelfReport, Saving, At
    <3> QED
      BY <2>1, <3>1, Busy, PersistSteps DEF Save, DeleteReport, DeletePaged, SelfReport
  <2>2. CASE Start(w) \/ Reboot(w) \/ Detach(w) \/ Cordon(w) \/ EvictOld(w)
               \/ EvictReboot(w) \/ ForceCordon(w) \/ ForceTaint(w) \/ Uncordon(w)
               \/ Notify(w) \/ DeleteNode(w) \/ SelfNodeGone(w)
    BY <2>2, PersistSteps
       DEF Start, Reboot, Detach, Cordon, EvictOld, EvictReboot, ForceCordon, ForceTaint,
           Uncordon, Notify, DeleteNode, SelfNodeGone, Proceed
  <2>3. CASE DetachRefused(w) \/ ForceStale(w) \/ NodeGone(w)
               \/ SaveConflict(w)
    BY <2>3, PersistSteps
       DEF DetachRefused, ForceStale, NodeGone, SaveConflict, Retry
  <2> QED BY <1>2, <2>1, <2>2, <2>3 DEF Work
<1>3. ASSUME NEW w \in Worker, Fault(w)
      PROVE  Stepped(n)
  <2>1. CASE SaveFails(w)
    <3>1. pc[w] # "idle"
      BY <2>1 DEF SaveFails, Saving
    <3> QED BY <2>1, <3>1, Busy, PersistSteps DEF SaveFails
  <2>2. CASE CallFails(w) \/ CallLost(w) \/ DeleteReportFails(w) \/ SelfCallFails(w)
    BY <2>2, PersistSteps DEF CallFails, CallLost, DeleteReportFails, SelfCallFails, Retry
  <2> QED BY <1>3, <2>1, <2>2 DEF Fault
<1>4. CASE (\E k \in Node : CleanerFinds(k)) \/ CleanerDeletes \/ CleanerFails
  <2>1. CASE CleanerDeletes
    <3>1. held[Cleaner].node \in Node
      BY <2>1, ThreadKinds DEF CleanerDeletes, TypeInv, Pointers, At
    <3> QED BY <2>1, <3>1, PersistSteps DEF CleanerDeletes
  <2> QED BY <1>4, <2>1, PersistSteps DEF CleanerFinds, CleanerFails
<1>5. ASSUME NEW k \in Node, EventCreates(k) \/ NodeCreates(k)
      PROVE  Stepped(n)
  <2>1. PICK r : api[k] = NoReport /\ api' = [api EXCEPT ![k] = r]
    BY <1>5 DEF EventCreates, NodeCreates, Create, Persist
  <2> QED BY <2>1 DEF Stepped, TypeInv, TypeOK, StoreTypeOK
<1>6. CASE \E f \in Writer, k \in Node : Write(f, k)
  BY <1>6, PersistSteps
     DEF Write, EventRecorded, StatusRecorded, ReplaceRequested, ReportWithdrawn, WriterBegins
<1>7. ASSUME NEW f \in Writer, WriterSaves(f) \/ WriterDeletes(f)
      PROVE  Stepped(n)
  <2>1. held[f].node \in Node
    BY <1>7, ThreadKinds DEF WriterSaves, WriterDeletes, TypeInv, Pointers, At
  <2> QED BY <1>7, <2>1, PersistSteps DEF WriterSaves, WriterDeletes
<1>8. CASE \E k \in Node : Deliver(k)
  BY <1>8, PersistSteps DEF Deliver, DeliverNext
<1>9. CASE \E k \in Node : Environment(k)
  BY <1>9, PersistSteps
     DEF Environment, Outage, Recover, GoesDown, ComesUp, Launch, ScaleOut, Joined,
         Vanish, PodsScheduled, TaintEvicts, World
<1>10. CASE Crash \/ (\E w \in Worker : SelfPod(w)) \/ EditConfigs \/ UNCHANGED vars
  BY <1>10, PersistSteps DEF Crash, SelfPod, Restart, Relist, EditConfigs, vars
<1>11. CASE Tick
  BY <1>11 DEF Tick, AgeReports, Stepped
<1> QED
  BY <1>1, <1>2, <1>3, <1>4, <1>5, <1>6, <1>7, <1>8, <1>9, <1>10, <1>11 DEF Next

(* A replacement never goes back: what is persisted next is the cached     *)
(* object, and nothing persisted is ahead of that.                         *)
THEOREM ReplacementsGoForward == Spec => ReplaceOnlyForward
<1>1. TypeInv /\ SafetyInv /\ [Next]_vars =>
         [\A n \in Node :
            api[n] # NoReport /\ api'[n] # NoReport
               => Rank(api'[n].phase) >= Rank(api[n].phase)]_vars
  <2>1. SUFFICES ASSUME TypeInv, SafetyInv, [Next]_vars, NEW n \in Node,
                        api[n] # NoReport, api'[n] # NoReport
                 PROVE  Rank(api'[n].phase) >= Rank(api[n].phase)
    OBVIOUS
  <2>2. api[n] \in Stored /\ api[n] \in Report /\ Rank(api[n].phase) \in 0 .. 4
    <3>1. api[n] \in Report
      BY <2>1 DEF TypeInv, TypeOK, StoreTypeOK
    <3>2. api[n].phase \in Phase
      BY <3>1 DEF Report
    <3> QED BY <3>1, <3>2, RankType DEF Stored
  <2>3. CASE api'[n] = api[n]
    BY <2>2, <2>3
  <2>4. CASE api'[n] = Aged(api[n])
    <3>1. Aged(api[n]).phase = api[n].phase
      BY <2>1, <2>2, AgedKeeps
    <3> QED BY <2>2, <2>4, <3>1
  <2>5. CASE api'[n] = cache[n]
    <3>1. CacheLeads(n) /\ api[n] \in Copies(n)
      BY <2>1 DEF SafetyInv, Copies
    <3>2. RankOf(cache[n]) = Rank(cache[n].phase) /\ Rank(cache[n].phase) \in 0 .. 4
      BY <2>1, <2>5, CachedFacts
    <3> QED BY <2>2, <2>5, <3>1, <3>2 DEF CacheLeads
  <2> QED BY <2>1, <2>3, <2>4, <2>5, ApiSteps DEF Stepped
<1> QED BY <1>1, SafetyHolds, PTL DEF Spec, ReplaceOnlyForward
=============================================================================
