--------------------------- MODULE NIRLimitProofs ---------------------------
(***************************************************************************)
(* As long as nobody deletes the report of a node that is being operated   *)
(* on, a cordoned node is on record, however calls fail and whenever the   *)
(* process dies; and if no rule changes either, the nodes out of service   *)
(* exceed the limit of their rule by one per further worker at most.       *)
(*                                                                         *)
(* Both follow the same steps: what is done to a node is preceded by a     *)
(* report that says so, and only a worker that passes the check of the     *)
(* limit makes a node count.                                               *)
(***************************************************************************)
EXTENDS NIRLifecycleProofs, FiniteSetTheorems

Recorded(n) == Present(n) => OnRecord(n)

(* What a step does for n, unless it is the one that passes the check.     *)
Steadied(n) == Recorded(n)' /\ (Occupied(n)' => Occupied(n))

Orderly == (\A n \in Node : Steadied(n)) /\ \A v \in Worker : InHand(v)'

(* Two reports, or absences of one, that this invariant cannot tell apart. *)
Alike(q, r) == (q = NoReport <=> r = NoReport) /\ (r # NoReport => q.phase = r.phase)

(* From call l a worker may go on to call k without anything being decided.*)
Moves(l, k) ==
    \/ k = l
    \/ /\ k \in Acting => l \in Acting
       /\ k \notin Starts \cup {"uncordon"}
       /\ l \in {"saveLog", "idle"} => k \in {"saveLog", "idle"}

LEMMA AlikeItself == \A r : Alike(r, r)
BY DEF Alike

LEMMA AlikeStates ==
    ASSUME NEW q, NEW r, Alike(q, r)
    PROVE  /\ UnderWay(q) <=> UnderWay(r)
           /\ Early(q) <=> Early(r)
           /\ UnderWay(r) => q.phase = r.phase
BY DEF Alike, UnderWay, Early

(* Labels that are neither or both.                                        *)
LEMMA ActingLabels ==
    /\ Acting \cap (Starts \cup Saving \cup {"idle", "uncordon"}) = {}
    /\ Starts \cap (Saving \cup {"idle", "uncordon"}) = {}
    /\ Saving = {"saveLog", "saveRetry"}
    /\ "saveLog" # "saveRetry" /\ "idle" \notin Saving
BY DEF Acting, DrainsOld, Starts, Saving

LEMMA CordonIs ==
    CordonInv <=> (\A n \in Node : Recorded(n)) /\ \A w \in Worker : InHand(w)
BY DEF CordonInv, Recorded

LEMMA OrderlyMeans ==
    ASSUME Orderly
    PROVE  CordonInv' /\ \A n \in Node : Occupied(n)' => Occupied(n)
BY DEF Orderly, Steadied, CordonInv, Recorded
-----------------------------------------------------------------------------
(* One lemma for each way a node and its report may be left.               *)

(* Nothing that counts happens to it.                                      *)
LEMMA NodeAside ==
    ASSUME NEW n \in Node, Recorded(n), Present(n)' => Present(n),
           node'[n].cordoned =>
              node[n].cordoned \/ \E w \in Worker : held[w].node = n /\ pc[w] \in Acting,
           Alike(api'[n], api[n]), Alike(cache'[n], cache[n]),
           watch'[n] = <<>> <=> watch[n] = <<>>, Len(watch'[n]) = Len(watch[n]),
           watch[n] # <<>> => Alike(watch'[n][1], watch[n][1]),
           n \in queue' => n \in queue \/ ~Unsaved(n),
           \A w \in Worker : held'[w].node = n => held[w].node = n /\ Moves(pc[w], pc'[w])
    PROVE  Steadied(n)
<1>1. /\ UnderWay(api'[n]) <=> UnderWay(api[n])
      /\ Early(api'[n]) <=> Early(api[n])
      /\ UnderWay(api[n]) => api'[n].phase = api[n].phase
      /\ UnderWay(cache'[n]) <=> UnderWay(cache[n])
      /\ Early(cache'[n]) <=> Early(cache[n])
      /\ UnderWay(cache[n]) => cache'[n].phase = cache[n].phase
      /\ watch[n] # <<>> => (UnderWay(watch'[n][1]) <=> UnderWay(watch[n][1]))
  BY AlikeStates
<1>2. Unsaved(n)' <=> Unsaved(n)
  BY <1>1 DEF Unsaved
<1>3. \A w \in Worker : held'[w].node = n =>
         /\ held[w].node = n
         /\ pc'[w] \in Acting => pc[w] \in Acting
         /\ pc'[w] \in Starts => pc[w] \in Starts
         /\ pc'[w] = "uncordon" => pc[w] = "uncordon"
         /\ pc[w] \in {"saveLog", "idle"} => pc'[w] \in {"saveLog", "idle"}
  BY ActingLabels DEF Moves
<1>4. Occupied(n)' => Occupied(n)
  BY <1>1, <1>3 DEF Occupied, Engaged
<1>5. ASSUME Present(n)'
      PROVE  OnRecord(n)'
  <2>1. OnRecord(n)
    BY <1>5 DEF Recorded
  <2>2. node'[n].cordoned => (UnderWay(api'[n]) /\ UnderWay(cache'[n])) \/ node[n].cordoned
    BY <1>1, <2>1 DEF OnRecord
  <2>3. node'[n].cordoned => UnderWay(api'[n])
    BY <1>1, <2>1, <2>2 DEF OnRecord
  <2>4. watch'[n] # <<>> /\ UnderWay(watch'[n][1]) => Len(watch'[n]) = 1
    BY <1>1, <2>1 DEF OnRecord
  <2>5. UnderWay(api'[n]) =>
          UnderWay(cache'[n]) \/ (~node'[n].cordoned /\ api'[n].phase = "rebooted")
    BY <1>1, <2>1, <2>2 DEF OnRecord
  <2>6. Unsaved(n)' => n \notin queue'
    BY <1>2, <2>1 DEF OnRecord
  <2>7. ASSUME NEW w \in Worker, held'[w].node = n
        PROVE  /\ Unsaved(n)' => pc'[w] \in {"saveLog", "idle"}
               /\ pc'[w] \in Acting => UnderWay(api'[n]) /\ UnderWay(cache'[n])
               /\ pc'[w] = "uncordon" => \A r \in {api'[n], cache'[n]} :
                                           r # NoReport /\ r.phase = "rebooted"
    <3>1. held[w].node = n
      BY <1>3, <2>7
    <3>2. Unsaved(n)' => pc'[w] \in {"saveLog", "idle"}
      BY <1>2, <1>3, <2>1, <2>7 DEF OnRecord
    <3>3. pc'[w] \in Acting => UnderWay(api'[n]) /\ UnderWay(cache'[n])
      BY <1>1, <1>3, <2>1, <2>7 DEF OnRecord
    <3>4. pc'[w] = "uncordon" => \A r \in {api'[n], cache'[n]} :
                                   r # NoReport /\ r.phase = "rebooted"
      BY <1>3, <2>1, <2>7 DEF OnRecord, Alike
    <3> QED BY <3>2, <3>3, <3>4
  <2> QED BY <2>3, <2>4, <2>5, <2>6, <2>7 DEF OnRecord
<1> QED BY <1>4, <1>5 DEF Steadied, Recorded

(* It is not there afterwards.                                             *)
LEMMA NodeAbsent ==
    ASSUME NEW n \in Node, ~Present(n)',
           \A w \in Worker : held'[w].node = n /\ pc'[w] \in Starts =>
              held[w].node = n /\ pc[w] \in Starts
    PROVE  Steadied(n)
BY DEF Steadied, Recorded, Occupied, Engaged

(* The cached object is stored.                                            *)
LEMMA NodeStore ==
    ASSUME NEW n \in Node, Recorded(n), node'[n] = node[n], cache'[n] = cache[n],
           api'[n] = cache[n], Len(watch'[n]) = 1,
           \A w \in Worker : held'[w].node = n => held[w].node = n /\ pc'[w] = pc[w]
    PROVE  Steadied(n)
<1>1. ~Unsaved(n)'
  BY DEF Unsaved
<1>2. Occupied(n)' => Occupied(n)
  BY DEF Occupied, Engaged, Present
<1>3. ASSUME Present(n)'
      PROVE  OnRecord(n)'
  <2>1. OnRecord(n)
    BY <1>3 DEF Recorded, Present
  <2> QED BY <1>1, <2>1 DEF OnRecord
<1> QED BY <1>2, <1>3 DEF Steadied, Recorded

(* A deletion, or a new report, is stored.                                 *)
LEMMA NodeIdle ==
    ASSUME TypeInv, NEW n \in Node, Recorded(n), VersionsInOrder(n),
           ~(Present(n) /\ UnderWay(api[n])),
           NEW r \in Stored, ~UnderWay(r), api'[n] = r, watch'[n] = Append(watch[n], r),
           node'[n] = node[n], cache'[n] = cache[n],
           n \in queue' => n \in queue \/ ~Unsaved(n),
           \A w \in Worker : held'[w].node = n => held[w].node = n /\ Moves(pc[w], pc'[w])
    PROVE  Steadied(n)
<1>0. Present(n)' <=> Present(n)
  BY DEF Present
<1>1. ~Early(r)
  BY DEF Early, UnderWay
<1>2. \A w \in Worker : held'[w].node = n =>
         /\ held[w].node = n
         /\ pc'[w] \in Acting => pc[w] \in Acting
         /\ pc'[w] \in Starts => pc[w] \in Starts
         /\ pc'[w] = "uncordon" => pc[w] = "uncordon"
         /\ pc[w] \in {"saveLog", "idle"} => pc'[w] \in {"saveLog", "idle"}
  BY ActingLabels DEF Moves
<1>3. Occupied(n)' => Occupied(n)
  BY <1>0, <1>1, <1>2 DEF Occupied, Engaged
<1>4. ASSUME Present(n)'
      PROVE  OnRecord(n)'
  <2>1. OnRecord(n) /\ ~UnderWay(api[n])
    BY <1>0, <1>4 DEF Recorded
  <2>2. Unsaved(n)' <=> Unsaved(n)
    BY <2>1 DEF Unsaved
  <2>3. ~node'[n].cordoned /\ ~UnderWay(api'[n])
    BY <2>1 DEF OnRecord
  <2>4. ~UnderWay(watch'[n][1])
    <3>1. watch[n] \in Seq(Stored) /\ Len(watch[n]) \in Nat
      BY LenProperties DEF TypeInv, TypeOK, StoreTypeOK, Stored
    <3>2. CASE watch[n] = <<>>
      <4>1. watch'[n][1] = r
        BY <3>1, <3>2, AppendProperties, EmptySeq
      <4> QED BY <4>1
    <3>3. CASE watch[n] # <<>>
      <4>1. Len(watch[n]) >= 1
        BY <3>1, <3>3, EmptySeq
      <4>2. watch'[n][1] = watch[n][1]
        BY <3>1, <4>1, AppendProperties
      <4>3. UnderWay(watch[n][1]) => watch[n][1] = api[n]
        BY <2>1, <3>3 DEF OnRecord, VersionsInOrder
      <4> QED BY <2>1, <4>2, <4>3
    <3> QED BY <3>2, <3>3
  <2>5. Unsaved(n)' => n \notin queue'
    BY <2>1, <2>2 DEF OnRecord
  <2>6. ASSUME NEW w \in Worker, held'[w].node = n
        PROVE  /\ Unsaved(n)' => pc'[w] \in {"saveLog", "idle"}
               /\ pc'[w] \notin Acting /\ pc'[w] # "uncordon"
    BY <1>2, <2>1, <2>2, <2>6 DEF OnRecord, UnderWay
  <2> QED BY <2>3, <2>4, <2>5, <2>6 DEF OnRecord
<1> QED BY <1>3, <1>4 DEF Steadied, Recorded

(* The watch replaces the cached object.                                   *)
LEMMA NodeDeliver ==
    ASSUME TypeInv, NEW n \in Node, Recorded(n), VersionsInOrder(n), watch[n] # <<>>,
           cache'[n] = Head(watch[n]), watch'[n] = Tail(watch[n]),
           api'[n] = api[n], node'[n] = node[n],
           \A w \in Worker : held'[w].node = held[w].node /\ pc'[w] = pc[w]
    PROVE  Steadied(n)
<1>0. Present(n)' <=> Present(n)
  BY DEF Present
<1>1. /\ watch[n] \in Seq(Stored) /\ Len(watch[n]) \in Nat /\ Len(watch[n]) >= 1
      /\ Head(watch[n]) = watch[n][1]
  BY HeadTailProperties, EmptySeq, LenProperties DEF TypeInv, TypeOK, StoreTypeOK, Stored
<1>2. ~UnderWay(watch'[n][1]) \/ watch'[n] = <<>>
  <2>1. ASSUME watch'[n] # <<>>
        PROVE  ~UnderWay(watch'[n][1])
    <3>1. PICK rest \in Seq(Stored) : rest = Tail(watch[n])
      BY <1>1, HeadTailProperties
    <3>2. Len(rest) = Len(watch[n]) - 1 /\ Len(rest) \in Nat
      BY <1>1, <3>1, HeadTailProperties, LenProperties
    <3>3. Len(rest) >= 1
      BY <2>1, <3>1, <3>2, EmptySeq
    <3>4. rest[1] = watch[n][2] /\ 2 \in 2 .. Len(watch[n])
      BY <1>1, <3>1, <3>2, <3>3, HeadTailProperties
    <3> QED BY <3>1, <3>4 DEF VersionsInOrder, UnderWay
  <2> QED BY <2>1
<1>3. ASSUME Present(n)
      PROVE  /\ UnderWay(cache'[n]) => cache'[n] = api[n]
             /\ UnderWay(api[n]) => cache'[n] = api[n]
  <2>1. CASE Len(watch[n]) = 1
    BY <1>1, <2>1 DEF VersionsInOrder
  <2>2. CASE Len(watch[n]) # 1
    <3>1. ~UnderWay(cache'[n])
      BY <1>1, <1>3, <2>2 DEF Recorded, OnRecord
    <3>2. ~UnderWay(api[n])
      <4>0. \A k \in Nat : k >= 1 /\ k # 1 => k \in 2 .. k
        OBVIOUS
      <4>1. Len(watch[n]) \in 2 .. Len(watch[n])
        BY <1>1, <2>2, <4>0, Zenon
      <4>2. watch[n][Len(watch[n])] = api[n]
        BY DEF VersionsInOrder
      <4>3. \A i \in 2 .. Len(watch[n]) : ~UnderWay(watch[n][i])
        BY DEF VersionsInOrder, UnderWay
      <4>4. ~UnderWay(watch[n][Len(watch[n])])
        BY <4>1, <4>3
      <4> QED BY <4>2, <4>4
    <3> QED BY <3>1, <3>2
  <2> QED BY <2>1, <2>2
<1>4. Occupied(n)' => Occupied(n)
  <2>1. Present(n) /\ Early(cache'[n]) => Early(api[n])
    BY <1>3 DEF Early, UnderWay
  <2> QED BY <1>0, <2>1 DEF Occupied, Engaged
<1>5. ASSUME Present(n)'
      PROVE  OnRecord(n)'
  <2>1. OnRecord(n)
    BY <1>0, <1>5 DEF Recorded
  <2>2. ~Unsaved(n)'
    BY <1>0, <1>3, <1>5 DEF Unsaved
  <2>3. UnderWay(api'[n]) => UnderWay(cache'[n])
    BY <1>0, <1>3, <1>5
  <2>4. ASSUME NEW w \in Worker, held'[w].node = n
        PROVE  /\ pc'[w] \in Acting => UnderWay(api'[n]) /\ UnderWay(cache'[n])
               /\ pc'[w] = "uncordon" => \A r \in {api'[n], cache'[n]} :
                                           r # NoReport /\ r.phase = "rebooted"
    <3>1. pc'[w] \in Acting => UnderWay(api'[n]) /\ UnderWay(cache'[n])
      BY <2>1, <2>3, <2>4 DEF OnRecord
    <3>2. ASSUME pc'[w] = "uncordon"
          PROVE  api[n] # NoReport /\ api[n].phase = "rebooted" /\ cache'[n] = api[n]
      <4>1. api[n] # NoReport /\ api[n].phase = "rebooted"
        BY <2>1, <2>4, <3>2 DEF OnRecord
      <4> QED BY <1>0, <1>3, <1>5, <4>1 DEF UnderWay
    <3> QED BY <3>1, <3>2
  <2> QED BY <1>2, <2>1, <2>2, <2>3, <2>4 DEF OnRecord
<1> QED BY <1>4, <1>5 DEF Steadied, Recorded

(* A worker starts on it.                                                  *)
LEMMA NodeBegin ==
    ASSUME TypeInv, NEW w \in Worker, NEW n \in Node, Recorded(n),
           NEW r \in Report, NEW l, Begin(w, n, r, l),
           r.phase = cache[n].phase \/ {r.phase, cache[n].phase} = {"detached", "newjoined"},
           l \in Acting => cache[n].phase \notin {"none", "rebooted"},
           l = "uncordon" => cache[n].phase = "rebooted" /\ r.phase = "rebooted"
    PROVE  Recorded(n)' /\ (l \notin Starts => (Occupied(n)' => Occupied(n)))
<1> USE ThreadKinds
<1>1. /\ held' = [held EXCEPT ![w] = Lookup(n)] /\ cache' = [cache EXCEPT ![n] = r]
      /\ pc' = [pc EXCEPT ![w] = l] /\ UNCHANGED <<api, watch, node>>
      /\ queue' = queue \ {n} /\ n \in queue /\ cache[n] # NoReport /\ Present(n)
      /\ \A v \in Worker : held[v].node # n
  BY DEF Begin, Dequeue
<1>2. /\ cache'[n] = r /\ r # NoReport /\ pc'[w] = l
      /\ \A v \in Worker : held'[v].node = n => v = w
  BY <1>1, NoReportAssumption DEF TypeInv, TypeOK, StoreTypeOK
<1>3. OnRecord(n) /\ ~Unsaved(n)
  BY <1>1 DEF Recorded, OnRecord
<1>4. UnderWay(cache[n]) => /\ UnderWay(api[n])
                            /\ cache[n].phase = "rebooted" => api[n].phase = "rebooted"
  BY <1>3 DEF Unsaved
<1>5. /\ UnderWay(cache[n]) <=> UnderWay(r)
      /\ UnderWay(r) /\ r.phase = "rebooted" => cache[n].phase = "rebooted"
      /\ Early(r) => Early(cache[n])
  BY <1>1, <1>2 DEF UnderWay, Early
<1>6. ~Unsaved(n)'
  BY <1>1, <1>2, <1>4, <1>5 DEF Unsaved
<1>7. l \in Acting => UnderWay(api[n]) /\ UnderWay(r) /\ Early(cache[n])
  BY <1>1, <1>4, <1>5 DEF UnderWay, Early
<1>8. l = "uncordon" => \A q \in {api[n], r} : q # NoReport /\ q.phase = "rebooted"
  BY <1>1, <1>2, <1>4 DEF UnderWay
<1>9. OnRecord(n)'
  <2>1. UnderWay(api'[n]) =>
          UnderWay(cache'[n]) \/ (~node'[n].cordoned /\ api'[n].phase = "rebooted")
    BY <1>1, <1>2, <1>3, <1>5 DEF OnRecord
  <2>2. ASSUME NEW v \in Worker, held'[v].node = n
        PROVE  /\ pc'[v] \in Acting => UnderWay(api'[n]) /\ UnderWay(cache'[n])
               /\ pc'[v] = "uncordon" => \A q \in {api'[n], cache'[n]} :
                                           q # NoReport /\ q.phase = "rebooted"
    BY <1>1, <1>2, <1>7, <1>8, <2>2
  <2> QED BY <1>1, <1>3, <1>6, <2>1, <2>2 DEF OnRecord
<1>10. ASSUME l \notin Starts, Occupied(n)'
       PROVE  Occupied(n)
  <2>1. Present(n)' <=> Present(n)
    BY <1>1 DEF Present
  <2> QED BY <1>1, <1>2, <1>5, <1>7, <1>10, <2>1 DEF Occupied, Engaged
<1> QED BY <1>9, <1>10 DEF Recorded

(* A worker writes a phase into the cached object, and saves it next.      *)
LEMMA NodeMark ==
    ASSUME TypeInv, Exclusive, NEW w \in Worker, NEW n \in Node, Recorded(n),
           held[w].node = n, n \notin queue, n \notin queue', pc[w] \in Acting \cup Starts,
           NEW r, UnderWay(r), NEW l \in Saving,
           l = "saveLog" \/ (r.phase # "rebooted" /\ pc[w] \in Acting),
           cache'[n] = r, api'[n] = api[n], watch'[n] = watch[n], held' = held,
           Present(n)' <=> Present(n), node'[n].cordoned = node[n].cordoned,
           pc' = [pc EXCEPT ![w] = l]
    PROVE  Steadied(n)
<1> USE ThreadKinds
<1>1. /\ pc'[w] = l /\ l \notin Acting \cup Starts \cup {"uncordon"}
      /\ \A v \in Worker : held'[v].node = n => v = w
  BY ActingLabels DEF TypeInv, TypeOK, Exclusive
<1>2. Occupied(n)' => Occupied(n)
  BY <1>1 DEF Occupied, Engaged
<1>3. ASSUME Present(n)'
      PROVE  OnRecord(n)'
  <2>1. OnRecord(n)
    BY <1>3 DEF Recorded
  <2>2. Unsaved(n)' => l = "saveLog"
    BY <2>1 DEF OnRecord, Unsaved
  <2> QED BY <1>1, <2>1, <2>2 DEF OnRecord
<1> QED BY <1>2, <1>3 DEF Steadied, Recorded

(* The end of a reboot: the node is back, its report settled in the cache. *)
LEMMA NodeUncordoned ==
    ASSUME TypeInv, Exclusive, NEW w \in Worker, NEW n \in Node, Recorded(n),
           held[w].node = n, pc[w] = "uncordon",
           NEW r, ~UnderWay(r) \/ r = cache[n], NEW l \in Saving,
           cache'[n] = r, api'[n] = api[n], watch'[n] = watch[n], held' = held,
           n \in queue' => n \in queue,
           Present(n)' <=> Present(n), ~node'[n].cordoned,
           pc' = [pc EXCEPT ![w] = l]
    PROVE  Steadied(n)
<1> USE ThreadKinds
<1>1. /\ pc'[w] = l /\ l \notin Acting \cup Starts \cup {"uncordon"}
      /\ \A v \in Worker : held'[v].node = n => v = w
  BY ActingLabels DEF TypeInv, TypeOK, Exclusive
<1>2. Early(r) => Early(cache[n])
  BY DEF Early, UnderWay
<1>3. Occupied(n)' => Occupied(n)
  BY <1>1, <1>2 DEF Occupied, Engaged
<1>4. ASSUME Present(n)'
      PROVE  OnRecord(n)'
  <2>1. OnRecord(n)
    BY <1>4 DEF Recorded
  <2>2. /\ api[n] # NoReport /\ api[n].phase = "rebooted"
        /\ cache[n] # NoReport /\ cache[n].phase = "rebooted"
    BY <2>1 DEF OnRecord
  <2>3. ~Unsaved(n)'
    BY <2>2 DEF Unsaved, UnderWay
  <2> QED BY <1>1, <2>1, <2>2, <2>3 DEF OnRecord
<1> QED BY <1>3, <1>4 DEF Steadied, Recorded

(* It joins, and nobody knows it.                                          *)
LEMMA NodeJoins ==
    ASSUME TypeInv, NEW n \in Node, NotJoined(n), node[n].place = "absent",
           node'[n] = Fresh("present", 0), UNCHANGED <<api, cache, watch, held>>
    PROVE  Steadied(n)
<1>1. /\ ~UnderWay(api[n]) /\ ~UnderWay(cache[n])
      /\ ~Early(api[n]) /\ ~Early(cache[n])
      /\ watch[n] # <<>> => ~UnderWay(watch[n][1])
  <2>1. \A r : r \in Copies(n) <=>
           /\ r # NoReport
           /\ r = api[n] \/ r = cache[n] \/ \E i \in 1 .. Len(watch[n]) : r = watch[n][i]
    BY CopiesAre
  <2>2. Copies(n) = {}
    BY DEF NotJoined
  <2>3. api[n] = NoReport /\ cache[n] = NoReport
    BY <2>1, <2>2
  <2>4. watch[n] # <<>> => 1 \in 1 .. Len(watch[n])
    BY CopiesAre, EmptySeq
  <2>5. watch[n] # <<>> => watch[n][1] = NoReport
    BY <2>1, <2>2, <2>4
  <2> QED BY <2>3, <2>5 DEF UnderWay, Early
<1>2. \A w \in Worker : held'[w].node # n
  BY DEF NotJoined
<1>3. ~node'[n].cordoned
  BY DEF Fresh
<1>4. ~Occupied(n)'
  BY <1>1, <1>2, <1>3 DEF Occupied, Engaged
<1>5. OnRecord(n)'
  BY <1>1, <1>2, <1>3 DEF OnRecord, Unsaved
<1> QED BY <1>4, <1>5 DEF Steadied, Recorded
-----------------------------------------------------------------------------
(* What a worker has in hand.                                              *)

LEMMA HandFree ==
    ASSUME TypeInv', NEW v, held'[v] = Nothing, pc'[v] = "idle"
    PROVE  InHand(v)'
<1>1. \A p : Walks("idle", p)
  BY WalksAnywhere
<1>2. Nothing.node \notin queue'
  BY StoreAssumption DEF Nothing, TypeInv, TypeOK
<1> QED BY <1>1, <1>2 DEF InHand

LEMMA HandKept ==
    ASSUME NEW v \in Worker, InHand(v), pc'[v] = pc[v], held'[v].node = held[v].node,
           held'[v].ref = held[v].ref \/ (held[v].ref = "live" /\ held'[v].ref = "behind")
               \/ held'[v].ref = "orphan",
           held'[v].ref # "orphan" /\ held[v].node \in queue' => held[v].node \in queue,
           held'[v].ref # "orphan" /\ pc[v] # "idle" =>
              cache'[held[v].node].phase = cache[held[v].node].phase
    PROVE  InHand(v)'
<1>1. \A p : Walks("idle", p)
  BY WalksAnywhere
<1>2. held'[v].ref # "orphan" => held[v].ref # "orphan" \/ held'[v].ref = held[v].ref
  OBVIOUS
<1>3. held'[v].ref # "orphan" => held'[v].node \notin queue'
  BY <1>2 DEF InHand
<1>4. held'[v].ref # "orphan" => Walks(pc'[v], cache'[held'[v].node].phase)
  BY <1>1, <1>2 DEF InHand
<1> QED BY <1>3, <1>4 DEF InHand

(* Worker w does something to n; the others are elsewhere.                 *)
LEMMA Apart ==
    ASSUME TypeInv, CordonInv, NEW w \in Worker, NEW n \in Node,
           \A k \in Node \ {n} : /\ node'[k] = node[k] /\ api'[k] = api[k]
                                 /\ cache'[k] = cache[k] /\ watch'[k] = watch[k],
           queue' \subseteq queue \cup {n}, held'[w].node \in {n, NoNode},
           \A v \in Worker \ {w} :
              pc'[v] = pc[v] /\ held'[v] = held[v] /\ held[v].node # n
    PROVE  /\ \A k \in Node \ {n} : Steadied(k)
           /\ \A v \in Worker \ {w} : InHand(v)'
<1> USE ThreadKinds
<1>1. ASSUME NEW k \in Node, k # n
      PROVE  Steadied(k)
  <2>1. Recorded(k)
    BY CordonIs
  <2>2. /\ node'[k] = node[k] /\ api'[k] = api[k] /\ cache'[k] = cache[k]
        /\ watch'[k] = watch[k] /\ (k \in queue' => k \in queue) /\ (Present(k)' <=> Present(k))
    BY <1>1 DEF Present
  <2>3. \A v \in Worker : held'[v].node = k => held[v].node = k /\ Moves(pc[v], pc'[v])
    BY <1>1, StoreAssumption DEF Moves
  <2> QED BY <2>1, <2>2, <2>3, AlikeItself, NodeAside
<1>2. ASSUME NEW v \in Worker, v # w
      PROVE  InHand(v)'
  <2>1. /\ pc'[v] = pc[v] /\ held'[v] = held[v] /\ held[v].node # n
        /\ held[v].node \in queue' => held[v].node \in queue
    BY <1>2
  <2>2. pc[v] # "idle" => cache'[held[v].node] = cache[held[v].node]
    BY <2>1 DEF TypeInv, Pointers
  <2>3. InHand(v)
    BY CordonIs
  <2> QED BY <2>1, <2>2, <2>3, HandKept
<1> QED BY <1>1, <1>2

(* No worker takes part.                                                   *)
LEMMA Aloof ==
    ASSUME TypeInv, CordonInv, queue' \subseteq queue,
           \A v \in Worker :
              /\ pc'[v] = pc[v] /\ held'[v].node = held[v].node
              /\ held'[v].ref = held[v].ref \/ (held[v].ref = "live" /\ held'[v].ref = "behind"),
           \A k \in Node : Alike(cache'[k], cache[k])
    PROVE  \A v \in Worker : InHand(v)'
<1> SUFFICES ASSUME NEW v \in Worker PROVE InHand(v)'
  OBVIOUS
<1>1. InHand(v) /\ held'[v].node = held[v].node
  BY CordonIs
<1>2. ASSUME held'[v].ref # "orphan", pc[v] # "idle"
      PROVE  cache'[held[v].node].phase = cache[held[v].node].phase
  <2>1. held[v].ref # "orphan"
    BY <1>2
  <2>2. held[v].node \in Node /\ cache[held[v].node] # NoReport
    BY <1>2, <2>1, ThreadKinds DEF TypeInv, Pointers
  <2> QED BY <2>2 DEF Alike
<1> QED BY <1>1, <1>2, HandKept
-----------------------------------------------------------------------------
(* What a worker does to the node it works on.                             *)

LEMMA OthersElsewhere ==
    ASSUME TypeInv, Exclusive, NEW w \in Worker, held[w].node \in Node
    PROVE  \A v \in Worker \ {w} : held[v].node # held[w].node
BY DEF Exclusive

(* A call succeeds, and no phase is written.                               *)
LEMMA WorkerProceeds ==
    ASSUME TypeInv, Exclusive, CordonInv, NEW w \in Worker, pc[w] # "idle",
           NEW m, NEW r, NEW l, Proceed(w, m, r, l),
           m.place = "present" => Here(w).place = "present",
           m.cordoned => Here(w).cordoned \/ pc[w] \in Acting,
           held[w].ref # "orphan" => Alike(r, Mine(w)),
           Moves(pc[w], l), \A p : Walks(pc[w], p) => Walks(l, p)
    PROVE  Orderly
<1> USE ThreadKinds
<1>0. PICK n \in Node : n = held[w].node
  BY Busy
<1>1. /\ cache \in [Node -> Stored] /\ pc \in [Thread -> Label] /\ node \in [Node -> NodeRecord]
  BY DEF TypeInv, TypeOK, StoreTypeOK, Stored
<1>2. /\ node' = [node EXCEPT ![n] = m] /\ cache' = Edited(w, r)
      /\ pc' = [pc EXCEPT ![w] = l] /\ UNCHANGED <<api, watch, held, queue>>
  BY <1>0 DEF Proceed
<1>3. \A k \in Node \ {n} : cache'[k] = cache[k] /\ node'[k] = node[k]
  BY <1>0, <1>1, <1>2 DEF Edited
<1>4. /\ node'[n] = m /\ pc'[w] = l /\ (held[w].ref # "orphan" => cache'[n] = r)
      /\ held[w].ref = "orphan" => cache'[n] = cache[n]
      /\ \A v \in Worker \ {w} : pc'[v] = pc[v]
  BY <1>0, <1>1, <1>2 DEF Edited
<1>5. Alike(cache'[n], cache[n])
  BY <1>0, <1>4, AlikeItself DEF Mine
<1>6. Steadied(n)
  <2>1. Recorded(n)
    BY CordonIs
  <2>2. Present(n)' => Present(n)
    BY <1>0, <1>4 DEF Present, Here
  <2>3. node'[n].cordoned =>
           node[n].cordoned \/ \E v \in Worker : held[v].node = n /\ pc[v] \in Acting
    BY <1>0, <1>4 DEF Here
  <2>4. \A v \in Worker : held'[v].node = n => held[v].node = n /\ Moves(pc[v], pc'[v])
    BY <1>2, <1>4 DEF Moves
  <2> QED BY <1>2, <1>5, <2>1, <2>2, <2>3, <2>4, AlikeItself, NodeAside
<1>7. InHand(w)'
  <2>1. InHand(w)
    BY CordonIs
  <2>2. held[w].ref # "orphan" => cache[n] # NoReport
    BY <1>0, <1>1, Busy, NoReportAssumption DEF Mine
  <2>3. held[w].ref # "orphan" => cache'[n].phase = cache[n].phase
    BY <1>5, <2>2 DEF Alike
  <2> QED BY <1>0, <1>2, <1>4, <2>1, <2>3 DEF InHand
<1>8. \A v \in Worker \ {w} : pc'[v] = pc[v] /\ held'[v] = held[v] /\ held[v].node # n
  BY <1>0, <1>2, <1>4, OthersElsewhere
<1> QED BY <1>0, <1>2, <1>3, <1>6, <1>7, <1>8, Apart DEF Orderly

(* A call succeeds, and a phase is written into the cached object.         *)
LEMMA WorkerMarks ==
    ASSUME TypeInv, Exclusive, CordonInv, NEW w \in Worker, pc[w] \in Acting \cup Starts,
           NEW m, NEW p \in Phase \ {"none"}, NEW l \in Saving,
           Proceed(w, m, InPhase(Mine(w), p), l),
           l = "saveLog" \/ (p # "rebooted" /\ pc[w] \in Acting),
           m.place = Here(w).place, m.cordoned = Here(w).cordoned
    PROVE  Orderly
<1> USE ThreadKinds
<1> DEFINE r == InPhase(Mine(w), p)
<1>a. pc[w] # "idle"
  BY ActingLabels
<1>0. PICK n \in Node : n = held[w].node
  BY <1>a, Busy
<1>1. /\ cache \in [Node -> Stored] /\ pc \in [Thread -> Label] /\ node \in [Node -> NodeRecord]
  BY DEF TypeInv, TypeOK, StoreTypeOK, Stored
<1>2. /\ node' = [node EXCEPT ![n] = m] /\ cache' = Edited(w, r)
      /\ pc' = [pc EXCEPT ![w] = l] /\ UNCHANGED <<api, watch, held, queue>>
  BY <1>0 DEF Proceed
<1>3. held[w].ref # "orphan" => UnderWay(r) /\ r.phase = p
  <2>1. held[w].ref # "orphan" => r \in Report /\ r.phase = p
    BY <1>a, Busy, MarkedReport
  <2> QED BY <2>1, NoReportAssumption DEF UnderWay
<1> HIDE DEF r
<1>4. \A k \in Node \ {n} : cache'[k] = cache[k] /\ node'[k] = node[k]
  BY <1>0, <1>1, <1>2 DEF Edited
<1>5. /\ node'[n] = m /\ pc'[w] = l /\ (held[w].ref # "orphan" => cache'[n] = r)
      /\ held[w].ref = "orphan" => cache'[n] = cache[n]
      /\ \A v \in Worker \ {w} : pc'[v] = pc[v]
  BY <1>0, <1>1, <1>2 DEF Edited
<1>6. /\ Recorded(n) /\ (Present(n)' <=> Present(n))
      /\ node'[n].cordoned = node[n].cordoned
  BY <1>0, <1>5, CordonIs DEF Present, Here
<1>7. InHand(w) /\ \A q : Walks(l, q)
  BY CordonIs, WalksAnywhere
<1>8. Steadied(n)
  <2>1. CASE held[w].ref = "orphan"
    <3>1. Moves(pc[w], l)
      BY ActingLabels DEF Moves
    <3>2. \A v \in Worker : held'[v].node = n => held[v].node = n /\ Moves(pc[v], pc'[v])
      BY <1>2, <1>5, <3>1 DEF Moves
    <3> QED BY <1>2, <1>5, <1>6, <2>1, <3>2, AlikeItself, NodeAside
  <2>2. CASE held[w].ref # "orphan"
    <3>1. n \notin queue /\ n \notin queue'
      BY <1>0, <1>2, <1>7, <2>2 DEF InHand
    <3>2. r.phase # "rebooted" \/ l = "saveLog"
      BY <1>3, <2>2
    <3>3. UnderWay(r) /\ cache'[n] = r /\ api'[n] = api[n] /\ watch'[n] = watch[n]
      BY <1>2, <1>3, <1>5, <2>2
    <3>4. l = "saveLog" \/ (r.phase # "rebooted" /\ pc[w] \in Acting)
      BY <1>3, <2>2
    <3> QED BY <1>0, <1>2, <1>6, <3>1, <3>3, <3>4, NodeMark
  <2> QED BY <2>1, <2>2
<1>9. InHand(w)'
  BY <1>2, <1>5, <1>7 DEF InHand
<1>10. \A v \in Worker \ {w} : pc'[v] = pc[v] /\ held'[v] = held[v] /\ held[v].node # n
  BY <1>0, <1>2, <1>5, OthersElsewhere
<1> QED BY <1>0, <1>2, <1>4, <1>8, <1>9, <1>10, Apart DEF Orderly

LEMMA WorkerUncordons ==
    ASSUME TypeInv, Exclusive, CordonInv, NEW w \in Worker, Uncordon(w)
    PROVE  Orderly
<1> USE ThreadKinds
<1> DEFINE r == Settled(Mine(w))
           m == [Here(w) EXCEPT !.cordoned = FALSE]
           l == "saveRetry"
<1>a. pc[w] = "uncordon" /\ Proceed(w, m, r, l) /\ l \in Saving
  BY ActingLabels DEF Uncordon, At
<1>0. PICK n \in Node : n = held[w].node
  BY <1>a, Busy
<1>1. /\ cache \in [Node -> Stored] /\ pc \in [Thread -> Label] /\ node \in [Node -> NodeRecord]
  BY DEF TypeInv, TypeOK, StoreTypeOK, Stored
<1>2. /\ node' = [node EXCEPT ![n] = m] /\ cache' = Edited(w, r)
      /\ pc' = [pc EXCEPT ![w] = l] /\ UNCHANGED <<api, watch, held, queue>>
  BY <1>0, <1>a DEF Proceed
<1>3. held[w].ref # "orphan" => ~UnderWay(r)
  <2>1. held[w].ref # "orphan" => r.phase = "none"
    BY <1>a, Busy, MarkedReport DEF Phase
  <2> QED BY <2>1 DEF UnderWay
<1>4. m.place = node[n].place /\ ~m.cordoned
  BY <1>0, <1>1 DEF Here, NodeRecord
<1> HIDE DEF r, m, l
<1>5. \A k \in Node \ {n} : cache'[k] = cache[k] /\ node'[k] = node[k]
  BY <1>0, <1>1, <1>2 DEF Edited
<1>6. /\ node'[n] = m /\ pc'[w] = l /\ (held[w].ref # "orphan" => cache'[n] = r)
      /\ held[w].ref = "orphan" => cache'[n] = cache[n]
      /\ \A v \in Worker \ {w} : pc'[v] = pc[v]
  BY <1>0, <1>1, <1>2 DEF Edited
<1>7. /\ Recorded(n) /\ (Present(n)' <=> Present(n)) /\ ~node'[n].cordoned
  BY <1>4, <1>6, CordonIs DEF Present
<1>8. ~UnderWay(cache'[n]) \/ cache'[n] = cache[n]
  BY <1>3, <1>6
<1>9. Steadied(n)
  BY <1>0, <1>2, <1>7, <1>8, <1>a, NodeUncordoned
<1>10. InHand(w)'
  <2>1. InHand(w) /\ \A q : Walks(l, q)
    BY <1>a, CordonIs, WalksAnywhere
  <2> QED BY <1>2, <1>6, <2>1 DEF InHand
<1>11. \A v \in Worker \ {w} : pc'[v] = pc[v] /\ held'[v] = held[v] /\ held[v].node # n
  BY <1>0, <1>2, <1>6, OthersElsewhere
<1> QED BY <1>0, <1>2, <1>5, <1>9, <1>10, <1>11, Apart DEF Orderly

(* The report is put back; nothing is saved.                               *)
LEMMA WorkerReleases ==
    ASSUME TypeInv, TypeInv', Exclusive, CordonInv, NEW w \in Worker, pc[w] # "idle",
           NEW again, Finish(w, again), held' = Released(w), again => pc[w] # "saveLog",
           UNCHANGED <<api, cache, watch>>,
           \A k \in Node : k # held[w].node => node'[k] = node[k],
           node'[held[w].node].place = "present" => Here(w).place = "present",
           node'[held[w].node].cordoned => Here(w).cordoned
    PROVE  Orderly
<1> USE ThreadKinds
<1>0. PICK n \in Node : n = held[w].node
  BY Busy
<1>1. held \in [Thread -> Hold] /\ pc \in [Thread -> Label]
  BY DEF TypeInv, TypeOK, StoreTypeOK
<1>2. /\ pc' = [pc EXCEPT ![w] = "idle"] /\ held' = [held EXCEPT ![w] = Nothing]
      /\ queue' \subseteq queue \cup {n} /\ (again \/ queue' = queue)
  BY <1>0 DEF Finish, Released
<1>3. /\ pc'[w] = "idle" /\ held'[w] = Nothing /\ Nothing.node = NoNode /\ NoNode # n
      /\ \A v \in Worker \ {w} : pc'[v] = pc[v] /\ held'[v] = held[v]
  BY <1>1, <1>2, StoreAssumption DEF Nothing
<1>4. \A v \in Worker \ {w} : held[v].node # n
  BY <1>0, OthersElsewhere
<1>5. Steadied(n)
  <2>1. CASE Present(n)'
    <3>1. Present(n) /\ (node'[n].cordoned => node[n].cordoned)
      BY <1>0, <2>1 DEF Present, Here
    <3>2. Recorded(n) /\ OnRecord(n)
      BY <3>1, CordonIs DEF Recorded
    <3>3. n \in queue' => n \in queue \/ ~Unsaved(n)
      BY <1>0, <1>2, <3>2 DEF OnRecord
    <3>4. \A v \in Worker : held'[v].node # n
      BY <1>3, <1>4
    <3> QED BY <3>1, <3>2, <3>3, <3>4, AlikeItself, NodeAside
  <2>2. CASE ~Present(n)'
    <3>1. \A v \in Worker : held'[v].node # n
      BY <1>3, <1>4
    <3> QED BY <2>2, <3>1, NodeAbsent
  <2> QED BY <2>1, <2>2
<1>6. InHand(w)'
  BY <1>3, HandFree
<1> QED BY <1>0, <1>2, <1>3, <1>4, <1>5, <1>6, Apart DEF Orderly

(* What an Update or a Delete of a worker leaves as it was.                *)
LEMMA WorkerPersists ==
    ASSUME TypeInv, Exclusive, NEW w \in Worker, NEW n \in Node, n = held[w].node,
           NEW r, Persist(n, r, Released(w)), UNCHANGED <<cache, node>>
    PROVE  /\ held'[w] = Nothing /\ Nothing.node = NoNode
           /\ \A v \in Worker \ {w} : held'[v] = held[v] /\ held[v].node # n
           /\ \A v \in Worker : held'[v].node # n
           /\ api'[n] = r /\ watch'[n] = Append(watch[n], r)
           /\ \A k \in Node \ {n} : /\ node'[k] = node[k] /\ api'[k] = api[k]
                                    /\ cache'[k] = cache[k] /\ watch'[k] = watch[k]
<1> USE ThreadKinds
<1>1. /\ held \in [Thread -> Hold] /\ api \in [Node -> Stored]
      /\ watch \in [Node -> Seq(Stored)]
  BY DEF TypeInv, TypeOK, StoreTypeOK, Stored
<1>2. Nothing.node = NoNode /\ NoNode # n
  BY StoreAssumption DEF Nothing
<1>3. \A v \in Worker \ {w} : held[v].node # n
  BY OthersElsewhere
<1>4. /\ Released(w)[w] = Nothing
      /\ \A v \in Worker \ {w} : Released(w)[v] = held[v]
  BY <1>1 DEF Released
<1>5. held' = Outdated(Released(w), n)
  BY DEF Persist
<1>6. held'[w] = Nothing /\ \A v \in Worker \ {w} : held'[v] = held[v]
  BY <1>2, <1>3, <1>4, <1>5 DEF Outdated
<1>7. /\ api'[n] = r /\ watch'[n] = Append(watch[n], r)
      /\ \A k \in Node \ {n} : /\ node'[k] = node[k] /\ api'[k] = api[k]
                               /\ cache'[k] = cache[k] /\ watch'[k] = watch[k]
  BY <1>1 DEF Persist
<1> QED BY <1>2, <1>3, <1>6, <1>7

(* The cached object is stored, edits of other goroutines included.        *)
LEMMA WorkerSaves ==
    ASSUME TypeInv, TypeInv', SafetyInv, CordonInv, NEW w \in Worker, pc[w] # "idle",
           NEW again, Finish(w, again), Updatable(w),
           Persist(held[w].node, Mine(w), Released(w)), UNCHANGED <<cache, node>>
    PROVE  Orderly
<1> USE ThreadKinds
<1>0. PICK n \in Node : n = held[w].node
  BY Busy
<1>1. Exclusive /\ VersionsInOrder(n) /\ Recorded(n)
  BY CordonIs DEF SafetyInv
<1>2. /\ held'[w] = Nothing /\ Nothing.node = NoNode
      /\ \A v \in Worker \ {w} : held'[v] = held[v] /\ held[v].node # n
      /\ \A v \in Worker : held'[v].node # n
      /\ api'[n] = Mine(w) /\ watch'[n] = Append(watch[n], Mine(w))
      /\ \A k \in Node \ {n} : /\ node'[k] = node[k] /\ api'[k] = api[k]
                               /\ cache'[k] = cache[k] /\ watch'[k] = watch[k]
  BY <1>0, <1>1, WorkerPersists
<1>3. /\ pc'[w] = "idle" /\ (\A v \in Worker \ {w} : pc'[v] = pc[v])
      /\ queue' \subseteq queue \cup {n}
  BY <1>0 DEF Finish, TypeInv, TypeOK
<1>4. Len(watch'[n]) = 1
  <2>1. watch[n] = <<>>
    <3>1. held[w] = [node |-> n, ref |-> "live"]
      BY <1>0 DEF Updatable, TypeInv, TypeOK, StoreTypeOK, Hold
    <3> QED BY <1>1, <3>1 DEF VersionsInOrder
  <2>2. <<>> \in Seq(Stored) /\ Len(<<>>) = 0 /\ Mine(w) \in Stored
    BY EmptySeq, Busy
  <2> QED BY <1>2, <2>1, <2>2, AppendProperties
<1>5. Steadied(n)
  BY <1>0, <1>1, <1>2, <1>4, NodeStore DEF Mine
<1>6. InHand(w)'
  BY <1>2, <1>3, HandFree
<1> QED BY <1>1, <1>2, <1>3, <1>5, <1>6, Apart DEF Orderly

(* The report is deleted, if it is there.                                  *)
LEMMA WorkerRemoves ==
    ASSUME TypeInv, TypeInv', SafetyInv, CordonInv, Sparing, NEW w \in Worker, pc[w] # "idle",
           NEW again, Finish(w, again), again => pc[w] # "saveLog",
           Remove(held[w].node, Released(w)), UNCHANGED <<cache, node>>
    PROVE  Orderly
<1> USE ThreadKinds
<1>0. PICK n \in Node : n = held[w].node
  BY Busy
<1>1. Exclusive /\ VersionsInOrder(n) /\ Recorded(n)
  BY CordonIs DEF SafetyInv
<1>2. CASE api[n] = NoReport
  BY <1>0, <1>1, <1>2, WorkerReleases DEF Remove, Here
<1>3. CASE api[n] # NoReport
  <2>1. Persist(n, NoReport, Released(w))
    BY <1>0, <1>3 DEF Remove
  <2>2. /\ held'[w] = Nothing /\ Nothing.node = NoNode
        /\ \A v \in Worker \ {w} : held'[v] = held[v] /\ held[v].node # n
        /\ \A v \in Worker : held'[v].node # n
        /\ api'[n] = NoReport /\ watch'[n] = Append(watch[n], NoReport)
        /\ \A k \in Node \ {n} : /\ node'[k] = node[k] /\ api'[k] = api[k]
                                 /\ cache'[k] = cache[k] /\ watch'[k] = watch[k]
    BY <1>0, <1>1, <2>1, WorkerPersists, ZenonT(60)
  <2>3. /\ pc'[w] = "idle" /\ (\A v \in Worker \ {w} : pc'[v] = pc[v])
        /\ queue' \subseteq queue \cup {n} /\ (again \/ queue' = queue)
    BY <1>0 DEF Finish, TypeInv, TypeOK
  <2>4. Steadied(n)
    <3>1. CASE Present(n)
      <4>1. n \in queue' => n \in queue \/ ~Unsaved(n)
        BY <1>0, <1>1, <2>3, <3>1 DEF Recorded, OnRecord
      <4>2. ~UnderWay(api[n]) /\ ~UnderWay(NoReport) /\ NoReport \in Stored
        BY <2>2, <3>1 DEF Sparing, UnderWay, Stored
      <4> QED BY <1>1, <2>2, <4>1, <4>2, NodeIdle
    <3>2. CASE ~Present(n)
      <4>1. ~Present(n)'
        BY <3>2 DEF Present
      <4> QED BY <2>2, <4>1, NodeAbsent
    <3> QED BY <3>1, <3>2
  <2>5. InHand(w)'
    BY <2>2, <2>3, HandFree
  <2> QED BY <1>1, <2>2, <2>3, <2>4, <2>5, Apart DEF Orderly
<1> QED BY <1>2, <1>3
-----------------------------------------------------------------------------
(* The handlers.                                                           *)

(* A step that takes n past the check of its limit.                        *)
Passing(w, n) ==
    TakeStart(w, n) /\ CordonInv' /\ \A k \in Node \ {n} : Steadied(k)

LEMMA WorkerBegins ==
    ASSUME TypeInv, CordonInv, NEW w \in Worker, NEW n \in Node,
           NEW r \in Report, NEW l, Begin(w, n, r, l), Walks(l, r.phase),
           r.phase = cache[n].phase \/ {r.phase, cache[n].phase} = {"detached", "newjoined"},
           l \in Acting => cache[n].phase \notin {"none", "rebooted"},
           l = "uncordon" => cache[n].phase = "rebooted" /\ r.phase = "rebooted"
    PROVE  /\ l \notin Starts => Orderly
           /\ CordonInv' /\ \A k \in Node \ {n} : Steadied(k)
<1> USE ThreadKinds
<1>1. /\ held' = [held EXCEPT ![w] = Lookup(n)] /\ cache' = [cache EXCEPT ![n] = r]
      /\ pc' = [pc EXCEPT ![w] = l] /\ UNCHANGED <<api, watch, node>>
      /\ queue' = queue \ {n} /\ \A v \in Worker : held[v].node # n
  BY DEF Begin, Dequeue
<1>2. /\ held'[w] = Lookup(n) /\ Lookup(n).node = n /\ cache'[n] = r /\ pc'[w] = l
      /\ \A k \in Node \ {n} : cache'[k] = cache[k]
      /\ \A v \in Worker \ {w} : pc'[v] = pc[v] /\ held'[v] = held[v]
  BY <1>1, LookupType DEF TypeInv, TypeOK, StoreTypeOK
<1>3. Recorded(n)
  BY CordonIs
<1>4. Recorded(n)' /\ (l \notin Starts => (Occupied(n)' => Occupied(n)))
  BY <1>3, NodeBegin
<1>5. InHand(w)'
  BY <1>1, <1>2 DEF InHand
<1>6. /\ \A k \in Node \ {n} : Steadied(k)
      /\ \A v \in Worker \ {w} : InHand(v)'
  BY <1>1, <1>2, Apart
<1> QED BY <1>4, <1>5, <1>6 DEF Orderly, Steadied, CordonInv, Recorded

LEMMA CordonDrop ==
    ASSUME TypeInv, CordonInv, NEW w \in Worker, NEW n \in Node, Drop(w, n)
    PROVE  Orderly
<1>1. UNCHANGED <<api, cache, watch, held, pc, node>> /\ queue' \subseteq queue
  BY DEF Drop
<1>2. \A k \in Node : Recorded(k)
  BY CordonIs
<1>3. ASSUME NEW k \in Node
      PROVE  Steadied(k)
  <2>1. Present(k)' <=> Present(k)
    BY <1>1 DEF Present
  <2>2. \A v \in Worker : held'[v].node = k => held[v].node = k /\ Moves(pc[v], pc'[v])
    BY <1>1 DEF Moves
  <2> QED BY <1>1, <1>2, <2>1, <2>2, AlikeItself, NodeAside
<1>4. \A v \in Worker : InHand(v)'
  BY <1>1, AlikeItself, Aloof
<1> QED BY <1>3, <1>4 DEF Orderly

LEMMA CordonTake ==
    ASSUME TypeInv, CordonInv, NEW w \in Worker, NEW n \in Node, Take(w, n)
    PROVE  Orderly \/ Passing(w, n)
<1> DEFINE r == cache[n]
<1>1. CASE TakeMissing(w, n)
  BY <1>1, CordonDrop DEF TakeMissing
<1>2. CASE TakeReport(w, n)
  <2>1. r \in Report
    BY <1>2 DEF TakeReport, TypeInv, TypeOK, StoreTypeOK
  <2>2. ASSUME NEW l, Begin(w, n, r, l), Walks(l, r.phase), l \notin Starts,
               l \in Acting => r.phase \notin {"none", "rebooted"},
               l = "uncordon" => r.phase = "rebooted"
        PROVE  Orderly
    BY <2>1, <2>2, WorkerBegins
  <2>3. ASSUME NEW l \in Saving, NEW q \in Report, Begin(w, n, q, l),
               q.phase = r.phase \/ {q.phase, r.phase} = {"detached", "newjoined"}
        PROVE  Orderly
    <3>1. Walks(l, q.phase) /\ l \notin Acting /\ l # "uncordon" /\ l \notin Starts
      BY WalksAnywhere, ActingLabels
    <3> QED BY <2>3, <3>1, WorkerBegins
  <2>4. CASE TakeDrained(w, n)
    <3>1. "notifyReplaced" \notin Acting \cup Starts
      BY DEF Acting, DrainsOld, Starts
    <3> QED BY <2>2, <2>4, <3>1, WalksAnywhere DEF TakeDrained
  <2>5. CASE TakeNewJoined(w, n)
    <3>1. Walks("cordonOld", "newjoined") /\ Walks("forceCordon", "newjoined")
      BY DEF Walks, DrainsOld
    <3>2. \A l \in {"cordonOld", "forceCordon"} : l \notin Starts /\ l # "uncordon"
      BY DEF Starts
    <3> QED BY <2>2, <2>5, <3>1, <3>2 DEF TakeNewJoined
  <2>6. CASE TakeDetached(w, n)
    <3>1. InPhase(r, "newjoined") \in Report /\ InPhase(r, "newjoined").phase = "newjoined"
      BY <2>1, MarkedReport DEF Phase
    <3> HIDE DEF r
    <3>2. r.phase = "detached" /\ Begin(w, n, InPhase(r, "newjoined"), "saveRetry")
      BY <2>6 DEF TakeDetached, r
    <3> QED BY <2>3, <3>1, <3>2 DEF Saving
  <2>7. CASE TakeReplace(w, n)
    <3>1. Walks("detach", "replace")
      BY DEF Walks, DrainsOld
    <3> QED BY <2>2, <2>7, <3>1 DEF TakeReplace, Starts
  <2>8. CASE TakeRebooted(w, n)
    <3>1. Walks("uncordon", "rebooted") /\ "uncordon" \notin Acting
      BY DEF Walks, DrainsOld, Acting
    <3> QED BY <2>2, <2>8, <3>1 DEF TakeRebooted, Starts
  <2>9. CASE TakeReboot(w, n)
    <3>1. Walks("cordonReboot", "reboot")
      BY DEF Walks, DrainsOld
    <3> QED BY <2>2, <2>9, <3>1 DEF TakeReboot, Starts
  <2>10. CASE TakeDenied(w, n)
    <3>1. Walks("notifyDenied", "none") /\ "notifyDenied" \notin Acting
      BY DEF Walks, DrainsOld, Acting
    <3> QED BY <2>2, <2>10, <3>1 DEF TakeDenied, Pending, Starts
  <2>11. CASE TakeDryRun(w, n)
    <3>1. Settled(r) \in Report /\ Settled(r).phase = "none"
      BY <2>1, ReportEdits, MarkedReport DEF Phase
    <3> HIDE DEF r
    <3>2. r.phase = "none" /\ Begin(w, n, Settled(r), "saveLog")
      BY <2>11 DEF TakeDryRun, Pending, r
    <3> QED BY <2>3, <3>1, <3>2 DEF Saving
  <2>12. CASE TakeStart(w, n)
    <3>1. \A l \in {"startReboot", "startReplace", "page", "pageEscalated"} :
             Walks(l, "none") /\ l \notin Acting /\ l # "uncordon"
      BY DEF Walks, DrainsOld, Acting
    <3>2. PICK l \in {"startReboot", "startReplace", "page", "pageEscalated"} :
             Begin(w, n, r, l)
      BY <2>12 DEF TakeStart
    <3>3. r.phase = "none"
      BY <2>12 DEF TakeStart, Pending
    <3>4. CordonInv' /\ \A k \in Node \ {n} : Steadied(k)
      BY <2>1, <3>1, <3>2, <3>3, WorkerBegins
    <3> QED BY <2>12, <3>4 DEF Passing
  <2>13. CASE TakeOverflow(w, n)
    <3> DEFINE z == [r EXCEPT !.score = 0, !.lastAction = 0]
               up == [z EXCEPT !.action = Policy(n).escalate, !.escalated = TRUE]
               act == [z EXCEPT !.action = Policy(n).action]
    <3>1. Policy(n).escalate \in Action /\ Policy(n).action \in Action
      <4>1. Policy(n) \in Entry
        BY <2>13, PolicyType DEF TypeInv, TakeOverflow, Overflow
      <4> QED BY <4>1 DEF Entry
    <3>2. z \in Report /\ z.phase = r.phase
      <4>1. 0 \in 0 .. ScoreCap /\ 0 \in Stamp
        BY StoreAssumption DEF Stamp
      <4> QED BY <2>1, <4>1 DEF Report
    <3>3. up \in Report /\ act \in Report /\ up.phase = r.phase /\ act.phase = r.phase
      <4> HIDE DEF z
      <4> QED BY <3>1, <3>2 DEF Report
    <3>4. Begin(w, n, IF WithinCooldown(n) THEN up ELSE act, "saveLog")
      BY <2>13 DEF TakeOverflow
    <3> HIDE DEF up, act
    <3> QED BY <2>3, <3>3, <3>4 DEF Saving
  <2>14. CASE TakeUnknownAction(w, n) \/ TakeQuiet(w, n)
    BY <2>14, CordonDrop DEF TakeUnknownAction, TakeQuiet
  <2> QED
    BY <1>2, <2>4, <2>5, <2>6, <2>7, <2>8, <2>9, <2>10, <2>11, <2>12, <2>13, <2>14
       DEF TakeReport
<1> QED BY <1>1, <1>2 DEF Take

LEMMA CordonWork ==
    ASSUME TypeInv, TypeInv', SafetyInv, CordonInv, Sparing, NEW w \in Worker, Work(w)
    PROVE  Orderly
<1> USE ThreadKinds DEF At
<1>0. pc[w] # "idle" /\ Exclusive
  BY DEF Work, Start, Reboot, Detach, DetachRefused, Cordon, EvictOld, EvictReboot,
         ForceCordon, ForceStale, ForceTaint, Uncordon, NodeGone, Notify,
         DeleteNode, DeleteReport, DeletePaged, SelfReport, SelfNodeGone, Save, SaveConflict,
         Retried, Notifying, Draining, Saving, SafetyInv
<1>a. /\ held[w].node \in Node /\ Here(w) \in NodeRecord
      /\ held[w].ref # "orphan" => Mine(w) \in Report /\ Walks(pc[w], Mine(w).phase)
      /\ "saveLog" \in Saving /\ "saveRetry" \in Saving
  BY <1>0, Busy, CordonIs, ActingLabels DEF InHand, Mine
<1>b. ASSUME NEW m, NEW l, Proceed(w, m, Mine(w), l), Moves(pc[w], l),
             m.place = "present" => Here(w).place = "present",
             m.cordoned => Here(w).cordoned \/ pc[w] \in Acting,
             \A p : Walks(pc[w], p) => Walks(l, p)
      PROVE  Orderly
  BY <1>0, <1>b, AlikeItself, WorkerProceeds
<1>c. ASSUME NEW m, NEW p \in {"reboot", "replace", "rebooted", "detached", "drained"},
             NEW l \in Saving, Proceed(w, m, InPhase(Mine(w), p), l),
             pc[w] \in Acting \cup Starts,
             l = "saveLog" \/ (p # "rebooted" /\ pc[w] \in Acting),
             m.place = Here(w).place, m.cordoned = Here(w).cordoned
      PROVE  Orderly
  BY <1>0, <1>c, WorkerMarks DEF Phase
<1>d. ASSUME Retry(w), pc[w] # "saveLog", UNCHANGED budget
      PROVE  Orderly
  BY <1>0, <1>a, <1>d, WorkerReleases DEF Retry, Here
<1>1. CASE Start(w)
  BY <1>1, <1>a, <1>c DEF Start, Starts
<1>2. CASE Reboot(w)
  <2>1. LET m == [Here(w) EXCEPT !.boot = "requested", !.rebootAge = 0]
        IN  m.place = Here(w).place /\ m.cordoned = Here(w).cordoned
    BY <1>a DEF NodeRecord
  <2> QED BY <1>2, <1>a, <1>c, <2>1 DEF Reboot, Acting
<1>3. CASE Detach(w)
  <2>1. LET m == [Here(w) EXCEPT !.inAsg = FALSE]
        IN  m.place = Here(w).place /\ m.cordoned = Here(w).cordoned
    BY <1>a DEF NodeRecord
  <2> QED BY <1>3, <1>a, <1>c, <2>1 DEF Detach, Acting
<1>4. CASE DetachRefused(w) \/ ForceStale(w) \/ NodeGone(w)
  BY <1>4, <1>d DEF DetachRefused, ForceStale, NodeGone
<1>5. CASE Cordon(w) \/ ForceCordon(w)
  <2>1. [Here(w) EXCEPT !.cordoned = TRUE].place = Here(w).place
    BY <1>a DEF NodeRecord
  <2>2. \A p : /\ Walks("cordonOld", p) => Walks("evictOld", p)
               /\ Walks("cordonReboot", p) => Walks("evictReboot", p)
               /\ Walks("forceCordon", p) => Walks("forceTaint", p) /\ Walks("forceStale", p)
    BY DEF Walks, DrainsOld
  <2>3. {"cordonOld", "cordonReboot", "forceCordon", "evictOld", "evictReboot",
         "forceTaint", "forceStale"} \subseteq Acting
    BY DEF Acting, DrainsOld
  <2>4. \A l, k \in Acting : Moves(l, k)
    BY ActingLabels DEF Moves
  <2>5. CASE Cordon(w)
    BY <2>1, <2>2, <2>3, <2>4, <2>5, <1>b DEF Cordon
  <2>6. CASE ForceCordon(w)
    BY <2>1, <2>2, <2>3, <2>4, <2>6, <1>b DEF ForceCordon
  <2> QED BY <1>5, <2>5, <2>6
<1>6. CASE EvictOld(w)
  <2>1. LET m == [Here(w) EXCEPT !.pods = FALSE]
        IN  m.place = Here(w).place /\ m.cordoned = Here(w).cordoned
    BY <1>a DEF NodeRecord
  <2> QED BY <1>6, <1>a, <1>c, <2>1 DEF EvictOld, Acting, DrainsOld
<1>7. CASE EvictReboot(w)
  <2>1. LET m == [Here(w) EXCEPT !.pods = FALSE]
        IN  m.place = Here(w).place /\ m.cordoned = Here(w).cordoned
    BY <1>a DEF NodeRecord
  <2>2. \A p : Walks("evictReboot", p) => Walks("reboot", p)
    BY DEF Walks, DrainsOld
  <2>3. Moves("evictReboot", "reboot")
    BY DEF Moves, Acting, Starts
  <2> QED BY <1>7, <1>b, <2>1, <2>2, <2>3 DEF EvictReboot
<1>8. CASE ForceTaint(w)
  <2>1. \A left : LET m == [Here(w) EXCEPT !.tainted = TRUE, !.pods = left]
                  IN  m.place = Here(w).place /\ m.cordoned = Here(w).cordoned
    BY <1>a DEF NodeRecord
  <2> QED BY <1>8, <1>a, <1>c, <2>1 DEF ForceTaint, Acting, DrainsOld
<1>9. CASE Uncordon(w)
  BY <1>0, <1>9, WorkerUncordons
<1>10. CASE Notify(w)
  <2>1. \A p : /\ Walks("notifyDenied", p) => p = "none"
               /\ Walks("page", p) => p = "none"
               /\ Walks("selfReport", p) /\ Walks("deleteNode", p) /\ Walks("deletePaged", p)
               /\ Walks("saveLog", p) /\ Walks("saveRetry", p)
    BY WalksAnywhere, ActingLabels DEF Walks
  <2>2. /\ Moves("notifyReplaced", "selfReport") /\ Moves("notifyReplaced", "deleteNode")
        /\ Moves("notifyDenied", "saveRetry") /\ Moves("page", "saveLog")
        /\ Moves("pageEscalated", "deletePaged")
    BY DEF Moves, Acting, DrainsOld, Starts
  <2>3. CASE At(w, "notifyReplaced") \/ At(w, "pageEscalated")
    BY <1>10, <1>b, <2>1, <2>2, <2>3 DEF Notify
  <2>4. CASE At(w, "notifyDenied") \/ At(w, "page")
    <3>1. held[w].ref # "orphan" => Alike(Settled(Mine(w)), Mine(w))
      <4>1. held[w].ref # "orphan" =>
               /\ Mine(w) \in Report /\ Mine(w).phase = "none"
               /\ Settled(Mine(w)) \in Report /\ Settled(Mine(w)).phase = "none"
        BY <1>a, <2>1, <2>4, MarkedReport DEF Phase
      <4> QED BY <4>1, NoReportAssumption DEF Alike
    <3>2. \/ Proceed(w, Here(w), Settled(Mine(w)), "saveRetry") /\ Moves(pc[w], "saveRetry")
          \/ Proceed(w, Here(w), Settled(Mine(w)), "saveLog") /\ Moves(pc[w], "saveLog")
      BY <1>10, <2>2, <2>4 DEF Notify
    <3> QED BY <1>0, <2>1, <3>1, <3>2, WorkerProceeds
  <2> QED BY <1>10, <2>3, <2>4 DEF Notify
<1>11. CASE DeleteNode(w) \/ SelfNodeGone(w)
  <2>1. LET m == [Here(w) EXCEPT !.place = "gone"]
        IN  m.place = "gone" /\ m.cordoned = Here(w).cordoned
    BY <1>a DEF NodeRecord
  <2>2. \A p : Walks("deleteReport", p) /\ Walks("selfPod", p)
    BY WalksAnywhere
  <2>3. Moves("deleteNode", "deleteReport") /\ Moves("selfNode", "selfPod")
    BY DEF Moves, Acting, DrainsOld, Starts
  <2> QED BY <1>11, <1>b, <2>1, <2>2, <2>3 DEF DeleteNode, SelfNodeGone
<1>12. CASE DeleteReport(w) \/ DeletePaged(w)
  BY <1>0, <1>12, WorkerRemoves DEF DeleteReport, DeletePaged
<1>13. CASE SelfReport(w)
  <2>0. PICK n \in Node : n = held[w].node
    BY <1>a
  <2>1. /\ pc' = [pc EXCEPT ![w] = "selfNode"] /\ pc[w] = "selfReport"
        /\ Remove(n, held) /\ UNCHANGED <<cache, queue, node>>
    BY <1>13, <2>0 DEF SelfReport
  <2>2. /\ api \in [Node -> Stored] /\ watch \in [Node -> Seq(Stored)]
        /\ held \in [Thread -> Hold] /\ pc \in [Thread -> Label]
    BY DEF TypeInv, TypeOK, StoreTypeOK, Stored
  <2>3. /\ pc'[w] = "selfNode" /\ \A v \in Worker \ {w} : pc'[v] = pc[v] /\ held[v].node # n
    BY <1>0, <2>0, <2>1, <2>2, OthersElsewhere
  <2>4. /\ \A k \in Node \ {n} : api'[k] = api[k] /\ watch'[k] = watch[k]
        /\ \A v \in Worker : held'[v].node = held[v].node
        /\ \A v \in Worker : held[v].ref = "orphan" => held'[v].ref = "orphan"
        /\ \A v \in Worker : held[v].ref # "orphan" => held'[v].ref # "orphan"
        /\ \A v \in Worker \ {w} : held'[v] = held[v]
    <3>1. CASE held' = held /\ UNCHANGED <<api, watch>>
      BY <3>1
    <3>2. CASE Persist(n, NoReport, held)
      BY <2>2, <2>3, <3>2 DEF Persist, Outdated
    <3> QED BY <2>1, <3>1, <3>2 DEF Remove
  <2>5. Moves("selfReport", "selfNode")
    BY DEF Moves, Acting, DrainsOld, Starts
  <2>6. \A v \in Worker : held'[v].node = n => held[v].node = n /\ Moves(pc[v], pc'[v])
    BY <2>1, <2>3, <2>4, <2>5 DEF Moves
  <2>7. Recorded(n) /\ VersionsInOrder(n)
    BY CordonIs DEF SafetyInv
  <2>8. Present(n)' <=> Present(n)
    BY <2>1 DEF Present
  <2>9. Steadied(n)
    <3>1. CASE api[n] = NoReport
      <4>1. UNCHANGED <<api, watch, cache, queue, node>>
        BY <2>1, <3>1 DEF Remove
      <4> QED BY <2>6, <2>7, <2>8, <4>1, AlikeItself, NodeAside
    <3>2. CASE api[n] # NoReport
      <4>1. api'[n] = NoReport /\ watch'[n] = Append(watch[n], NoReport)
        BY <2>1, <2>2, <3>2 DEF Remove, Persist
      <4>2. ~(Present(n) /\ UnderWay(api[n])) /\ ~UnderWay(NoReport) /\ NoReport \in Stored
        BY <4>1 DEF Sparing, UnderWay, Stored
      <4> QED BY <2>1, <2>6, <2>7, <4>1, <4>2, NodeIdle
    <3> QED BY <3>1, <3>2
  <2>10. InHand(w)'
    <3>1. InHand(w) /\ \A p : Walks("selfNode", p)
      BY CordonIs, WalksAnywhere
    <3> QED BY <2>1, <2>3, <2>4, <3>1 DEF InHand
  <2>11. held'[w].node = n
    BY <2>0, <2>4
  <2> QED BY <2>1, <2>3, <2>4, <2>9, <2>10, <2>11, Apart DEF Orderly
<1>14. CASE Save(w)
  BY <1>0, <1>14, WorkerSaves DEF Save
<1>15. CASE SaveConflict(w)
  BY <1>0, <1>15, WorkerReleases DEF SaveConflict, Here
<1> QED
  BY <1>1, <1>2, <1>3, <1>4, <1>5, <1>6, <1>7, <1>8, <1>9, <1>10, <1>11, <1>12,
     <1>13, <1>14, <1>15 DEF Work

(* A call that changes nothing of this is passed over.                     *)
LEMMA WorkerGoesOn ==
    ASSUME TypeInv, Exclusive, CordonInv, NEW w \in Worker, pc[w] # "idle",
           NEW l, pc' = [pc EXCEPT ![w] = l], Moves(pc[w], l), \A p : Walks(l, p),
           UNCHANGED <<api, cache, watch, held, queue, node>>
    PROVE  Orderly
<1> USE ThreadKinds
<1>1. PICK n \in Node : n = held[w].node
  BY Busy
<1>2. /\ pc'[w] = l /\ \A v \in Worker \ {w} : pc'[v] = pc[v] /\ held[v].node # n
  BY <1>1, OthersElsewhere DEF TypeInv, TypeOK
<1>3. \A v \in Worker : held'[v].node = n => held[v].node = n /\ Moves(pc[v], pc'[v])
  BY <1>2
<1>4. Recorded(n) /\ InHand(w) /\ (Present(n)' <=> Present(n))
  BY CordonIs DEF Present
<1>5. Steadied(n)
  BY <1>3, <1>4, AlikeItself, NodeAside
<1>6. InHand(w)'
  BY <1>2, <1>4 DEF InHand
<1>7. /\ \A k \in Node \ {n} : Steadied(k)
      /\ \A v \in Worker \ {w} : InHand(v)'
  BY <1>1, <1>2, Apart
<1> QED BY <1>5, <1>6, <1>7 DEF Orderly

LEMMA CordonFault ==
    ASSUME TypeInv, TypeInv', SafetyInv, CordonInv, NEW w \in Worker, Fault(w)
    PROVE  Orderly
<1> USE ThreadKinds DEF At
<1>0. Exclusive /\ "saveLog" # "saveRetry" /\ "idle" \notin Saving /\ "saveLog" \notin Retried
  BY DEF SafetyInv, Saving, Retried, Notifying, Draining
<1>a. ASSUME NEW again, pc[w] # "idle", Finish(w, again), held' = Released(w),
             again => pc[w] # "saveLog", UNCHANGED <<api, cache, watch>>,
             node' = node
      PROVE  Orderly
  BY <1>0, <1>a, WorkerReleases DEF Here
<1>1. CASE CallFails(w)
  <2>1. pc[w] # "idle" /\ pc[w] # "saveLog"
    BY <1>0, <1>1 DEF CallFails, Retried, Notifying, Draining
  <2> QED BY <1>1, <1>a, <2>1 DEF CallFails, Retry
<1>2. CASE CallLost(w)
  <2>1. pc[w] # "idle" /\ pc[w] # "saveLog"
    BY <1>2 DEF CallLost
  <2>2. held[w].node \in Node /\ Here(w) \in NodeRecord /\ node \in [Node -> NodeRecord]
    BY <2>1, Busy DEF TypeInv, TypeOK
  <2>3. \A k \in Node : k # held[w].node => node'[k] = node[k]
    BY <1>2, <2>2 DEF CallLost
  <2>4. /\ node'[held[w].node].place = "present" => Here(w).place = "present"
        /\ node'[held[w].node].cordoned => Here(w).cordoned
    <3>1. CASE At(w, "detach")
      <4>1. node'[held[w].node] = [Here(w) EXCEPT !.inAsg = FALSE]
        BY <1>2, <2>2, <3>1 DEF CallLost, Here
      <4> QED BY <2>2, <4>1 DEF NodeRecord
    <3>2. CASE At(w, "reboot")
      <4>1. node'[held[w].node] = [Here(w) EXCEPT !.boot = "requested", !.rebootAge = 0]
        BY <1>2, <2>2, <3>2 DEF CallLost, Here
      <4> QED BY <2>2, <4>1 DEF NodeRecord
    <3>3. CASE At(w, "deleteNode")
      <4>1. node'[held[w].node] = [Here(w) EXCEPT !.place = "gone"]
        BY <1>2, <2>2, <3>3 DEF CallLost, Here
      <4> QED BY <2>2, <4>1 DEF NodeRecord
    <3> QED BY <1>2, <3>1, <3>2, <3>3 DEF CallLost
  <2> QED BY <1>0, <1>2, <2>1, <2>3, <2>4, WorkerReleases DEF CallLost
<1>3. CASE SaveFails(w)
  <2>1. pc[w] # "idle" /\ Finish(w, At(w, "saveRetry")) /\ UNCHANGED <<cache, node>>
    BY <1>0, <1>3 DEF SaveFails
  <2>2. CASE held' = Released(w) /\ UNCHANGED <<api, watch>>
    BY <1>0, <1>a, <2>1, <2>2
  <2>3. CASE Updatable(w) /\ Persist(held[w].node, Mine(w), Released(w))
    BY <2>1, <2>3, WorkerSaves
  <2> QED BY <1>3, <2>2, <2>3 DEF SaveFails
<1>4. CASE DeleteReportFails(w)
  BY <1>4, <1>a DEF DeleteReportFails
<1>5. CASE SelfCallFails(w)
  <2>1. UNCHANGED <<api, cache, watch, queue, node>>
    BY <1>5 DEF SelfCallFails
  <2>2. /\ Moves("selfReport", "selfNode") /\ Moves("selfNode", "selfPod")
        /\ \A p : Walks("selfNode", p) /\ Walks("selfPod", p)
    BY WalksAnywhere DEF Moves, Acting, DrainsOld, Starts
  <2>3. CASE At(w, "selfPod") /\ pc' = [pc EXCEPT ![w] = "idle"] /\ held' = Released(w)
    <3>1. Finish(w, FALSE)
      BY <2>1, <2>3 DEF Finish
    <3> QED BY <1>a, <2>1, <2>3, <3>1
  <2>4. CASE At(w, "selfReport") /\ pc' = [pc EXCEPT ![w] = "selfNode"] /\ held' = held
    BY <1>0, <2>1, <2>2, <2>4, WorkerGoesOn
  <2>5. CASE At(w, "selfNode") /\ pc' = [pc EXCEPT ![w] = "selfPod"] /\ held' = held
    BY <1>0, <2>1, <2>2, <2>5, WorkerGoesOn
  <2> QED BY <1>5, <2>3, <2>4, <2>5 DEF SelfCallFails
<1> QED BY <1>1, <1>2, <1>3, <1>4, <1>5 DEF Fault
-----------------------------------------------------------------------------
(* The cleanup and the other controllers.                                  *)

(* A goroutine that is no worker stores nothing.                           *)
LEMMA OthersLeave ==
    ASSUME TypeInv, CordonInv, UNCHANGED <<api, watch, node>>, queue' \subseteq queue,
           \A v \in Worker : pc'[v] = pc[v] /\ held'[v] = held[v],
           \A k \in Node : Alike(cache'[k], cache[k])
    PROVE  Orderly
<1>1. \A v \in Worker : InHand(v)'
  BY Aloof
<1>2. ASSUME NEW k \in Node
      PROVE  Steadied(k)
  <2>1. Recorded(k) /\ (Present(k)' <=> Present(k))
    BY CordonIs DEF Present
  <2>2. \A v \in Worker : held'[v].node = k => held[v].node = k /\ Moves(pc[v], pc'[v])
    BY DEF Moves
  <2> QED BY <2>1, <2>2, AlikeItself, NodeAside
<1> QED BY <1>1, <1>2 DEF Orderly

(* It deletes a report, or creates one that is not under way.              *)
LEMMA OthersIdle ==
    ASSUME TypeInv, SafetyInv, CordonInv, NEW n \in Node, NEW r \in Stored, ~UnderWay(r),
           ~(Present(n) /\ UnderWay(api[n])),
           NEW h, \A v \in Worker : h[v] = held[v], Persist(n, r, h),
           UNCHANGED <<cache, node, queue>>, \A v \in Worker : pc'[v] = pc[v]
    PROVE  Orderly
<1> USE ThreadKinds
<1>0. /\ api \in [Node -> Stored] /\ watch \in [Node -> Seq(Stored)]
      /\ held \in [Thread -> Hold]
  BY DEF TypeInv, TypeOK, StoreTypeOK, Stored
<1>1. /\ api'[n] = r /\ watch'[n] = Append(watch[n], r)
      /\ \A k \in Node \ {n} : api'[k] = api[k] /\ watch'[k] = watch[k]
  BY <1>0 DEF Persist
<1>2. \A v \in Worker :
         /\ held'[v].node = held[v].node
         /\ held'[v].ref = held[v].ref \/ (held[v].ref = "live" /\ held'[v].ref = "behind")
  BY <1>0 DEF Persist, Outdated
<1>3. \A v \in Worker : InHand(v)'
  BY <1>2, AlikeItself, Aloof
<1>4. ASSUME NEW k \in Node
      PROVE  Steadied(k)
  <2>1. Recorded(k) /\ VersionsInOrder(k) /\ (Present(k)' <=> Present(k))
    BY CordonIs DEF Present, SafetyInv
  <2>2. \A v \in Worker : held'[v].node = k => held[v].node = k /\ Moves(pc[v], pc'[v])
    BY <1>2 DEF Moves
  <2>3. CASE k = n
    BY <1>1, <2>1, <2>2, <2>3, NodeIdle
  <2>4. CASE k # n
    <3>1. api'[k] = api[k] /\ watch'[k] = watch[k]
      BY <1>1, <2>4
    <3> QED BY <2>1, <2>2, <3>1, AlikeItself, NodeAside
  <2> QED BY <2>3, <2>4
<1> QED BY <1>3, <1>4 DEF Orderly

LEMMA OthersRemove ==
    ASSUME TypeInv, SafetyInv, CordonInv, Sparing, NEW n \in Node,
           NEW h, \A v \in Worker : h[v] = held[v], Remove(n, h),
           UNCHANGED <<cache, node, queue>>, \A v \in Worker : pc'[v] = pc[v]
    PROVE  Orderly
<1>1. CASE api[n] = NoReport
  BY <1>1, AlikeItself, OthersLeave DEF Remove
<1>2. CASE api[n] # NoReport
  <2>1. Persist(n, NoReport, h) /\ api'[n] = NoReport
    BY <1>2 DEF Remove, Persist, TypeInv, TypeOK, StoreTypeOK
  <2>2. ~(Present(n) /\ UnderWay(api[n])) /\ ~UnderWay(NoReport) /\ NoReport \in Stored
    BY <2>1 DEF Sparing, UnderWay, Stored
  <2> QED BY <2>1, <2>2, OthersIdle
<1> QED BY <1>1, <1>2

LEMMA OthersRelease ==
    ASSUME TypeInv, NEW t \in Thread \ Worker
    PROVE  \A v \in Worker : Released(t)[v] = held[v]
BY ThreadKinds DEF Released, TypeInv, TypeOK, StoreTypeOK

LEMMA CordonCleaner ==
    ASSUME TypeInv, SafetyInv, CordonInv, Sparing,
           (\E k \in Node : CleanerFinds(k)) \/ CleanerDeletes \/ CleanerFails
    PROVE  Orderly
<1> USE ThreadKinds DEF At
<1>0. Cleaner \in Thread \ Worker /\ held \in [Thread -> Hold] /\ pc \in [Thread -> Label]
  BY ControllerAssumption DEF TypeInv, TypeOK, StoreTypeOK
<1>1. CASE \E k \in Node : CleanerFinds(k)
  <2>1. /\ UNCHANGED <<api, cache, watch, node, queue>>
        /\ \A v \in Worker : pc'[v] = pc[v] /\ held'[v] = held[v]
    BY <1>0, <1>1 DEF CleanerFinds
  <2> QED BY <2>1, AlikeItself, OthersLeave
<1>2. CASE CleanerDeletes
  <2>1. /\ held[Cleaner].node \in Node /\ \A v \in Worker : pc'[v] = pc[v]
    BY <1>0, <1>2 DEF CleanerDeletes, TypeInv, Pointers
  <2> QED BY <1>0, <1>2, <2>1, OthersRelease, OthersRemove DEF CleanerDeletes
<1>3. CASE CleanerFails
  <2>1. \A v \in Worker : pc'[v] = pc[v] /\ held'[v] = held[v]
    BY <1>0, <1>3, OthersRelease DEF CleanerFails
  <2> QED BY <1>3, <2>1, AlikeItself, OthersLeave DEF CleanerFails
<1> QED BY <1>1, <1>2, <1>3

LEMMA CordonCreate ==
    ASSUME TypeInv, SafetyInv, CordonInv, NEW k \in Node, EventCreates(k) \/ NodeCreates(k)
    PROVE  Orderly
<1>1. PICK status \in NodeStatus, problems \in BOOLEAN, s \in 0 .. ScoreCap :
         Create(k, status, problems, s)
  <2>1. 0 \in 0 .. ScoreCap
    BY StoreAssumption
  <2> QED BY <2>1 DEF EventCreates, NodeCreates, NodeStatus
<1>2. PICK r \in Stored : r = Opened(status, problems, s)
  BY DEF Opened, Stored, Report, Action, Phase, Stamp
<1>3. ~UnderWay(r) /\ ~UnderWay(api[k])
  BY <1>1, <1>2 DEF Create, Opened, UnderWay
<1> QED BY <1>1, <1>2, <1>3, OthersIdle DEF Create

LEMMA CordonWrite ==
    ASSUME TypeInv, CordonInv, NEW f \in Writer, NEW k \in Node, Write(f, k)
    PROVE  Orderly
<1> USE ThreadKinds
<1>1. PICK r \in Stored, l \in {"commit", "remove"} :
              /\ WriterBegins(f, k, r, l)
              /\ r = NoReport <=> cache[k] = NoReport
              /\ cache[k] # NoReport => r.phase = cache[k].phase
  BY WriteEdits
<1>2. /\ held \in [Thread -> Hold] /\ pc \in [Thread -> Label] /\ cache \in [Node -> Stored]
      /\ \A w \in Worker : w # f
  BY ControllerAssumption DEF TypeInv, TypeOK, StoreTypeOK, Stored
<1>3. /\ \A v \in Worker : held'[v] = held[v] /\ pc'[v] = pc[v]
      /\ UNCHANGED <<api, watch, node, queue>>
      /\ cache'[k] = r /\ \A n \in Node : n # k => cache'[n] = cache[n]
  BY <1>1, <1>2 DEF WriterBegins
<1>4. \A n \in Node : Alike(cache'[n], cache[n])
  BY <1>1, <1>3 DEF Alike
<1> QED BY <1>3, <1>4, OthersLeave

LEMMA CordonWriterEnds ==
    ASSUME TypeInv, SafetyInv, CordonInv, Sparing, NEW f \in Writer,
           WriterSaves(f) \/ WriterDeletes(f)
    PROVE  Orderly
<1> USE ThreadKinds DEF At
<1>0. /\ f \in Thread \ Worker /\ held \in [Thread -> Hold] /\ pc \in [Thread -> Label]
      /\ \A v \in Worker : Released(f)[v] = held[v] /\ pc'[v] = pc[v]
      /\ UNCHANGED <<cache, queue, node>>
  <2>1. f \in Thread \ Worker
    BY ControllerAssumption
  <2>2. pc' = [pc EXCEPT ![f] = "idle"] /\ UNCHANGED <<cache, queue, node>>
    BY DEF WriterSaves, WriterDeletes
  <2>3. held \in [Thread -> Hold] /\ pc \in [Thread -> Label]
    BY DEF TypeInv, TypeOK, StoreTypeOK
  <2> QED BY <2>1, <2>2, <2>3, OthersRelease
<1>1. PICK n \in Node : n = held[f].node
  BY DEF WriterSaves, WriterDeletes, TypeInv, Pointers
<1>2. CASE WriterSaves(f) /\ Updatable(f)
  <2>1. /\ Persist(n, cache[n], Released(f)) /\ held[f] = [node |-> n, ref |-> "live"]
        /\ api \in [Node -> Stored] /\ watch \in [Node -> Seq(Stored)] /\ cache[n] \in Stored
    BY <1>0, <1>1, <1>2
       DEF WriterSaves, Mine, Updatable, Hold, TypeInv, TypeOK, StoreTypeOK, Stored
  <2>2. \A k \in Node : Recorded(k) /\ VersionsInOrder(k) /\ (Present(k)' <=> Present(k))
    BY <1>0, CordonIs DEF SafetyInv, Present
  <2>3. watch[n] = <<>>
    BY <1>0, <2>1, <2>2 DEF VersionsInOrder
  <2>4. \A v \in Worker :
           /\ held'[v].node = held[v].node
           /\ held'[v].ref = held[v].ref \/ (held[v].ref = "live" /\ held'[v].ref = "behind")
    BY <1>0, <2>1 DEF Persist, Outdated
  <2>5. \A v \in Worker : InHand(v)'
    BY <1>0, <2>4, AlikeItself, Aloof
  <2>6. Steadied(n)
    <3>1. api'[n] = cache[n] /\ watch'[n] = Append(watch[n], cache[n])
      BY <2>1 DEF Persist
    <3>2. Len(watch'[n]) = 1
      BY <2>1, <2>3, <3>1, AppendProperties
    <3> QED BY <1>0, <2>2, <2>4, <3>1, <3>2, NodeStore
  <2>7. ASSUME NEW k \in Node \ {n}
        PROVE  Steadied(k)
    <3>1. api'[k] = api[k] /\ watch'[k] = watch[k]
      BY <2>1 DEF Persist
    <3>2. \A v \in Worker : held'[v].node = k => held[v].node = k /\ Moves(pc[v], pc'[v])
      BY <1>0, <2>4 DEF Moves
    <3> QED BY <1>0, <2>2, <3>1, <3>2, AlikeItself, NodeAside
  <2> QED BY <2>5, <2>6, <2>7 DEF Orderly
<1>3. CASE WriterSaves(f) /\ ~Updatable(f)
  <2>1. held' = Released(f) /\ UNCHANGED <<api, watch>>
    BY <1>3 DEF WriterSaves
  <2> QED BY <1>0, <2>1, AlikeItself, OthersLeave
<1>4. CASE WriterDeletes(f)
  <2>1. Remove(n, Released(f))
    BY <1>1, <1>4 DEF WriterDeletes
  <2> QED BY <1>0, <2>1, OthersRemove
<1> QED BY <1>2, <1>3, <1>4
-----------------------------------------------------------------------------
(* The informer, the process, time and the world.                          *)

LEMMA CordonDeliver ==
    ASSUME TypeInv, SafetyInv, CordonInv, NEW n \in Node, Deliver(n)
    PROVE  Orderly
<1> USE ThreadKinds
<1>1. /\ watch[n] # <<>> /\ UNCHANGED <<api, pc, node>> /\ queue' \subseteq queue \cup {n}
      /\ cache' = [cache EXCEPT ![n] = Head(watch[n])]
      /\ watch' = [watch EXCEPT ![n] = Tail(@)] /\ held' = Replaced(n)
  BY DEF Deliver, DeliverNext
<1>2. /\ cache \in [Node -> Stored] /\ watch \in [Node -> Seq(Stored)]
      /\ held \in [Thread -> Hold]
  BY DEF TypeInv, TypeOK, StoreTypeOK, Stored
<1>3. \A t \in Thread :
         /\ held'[t].node = held[t].node
         /\ held[t].node = n => held'[t].ref = "orphan"
         /\ held[t].node # n => held'[t] = held[t]
  BY <1>1 DEF Replaced
<1>4. \A k \in Node : Recorded(k) /\ VersionsInOrder(k) /\ (Present(k)' <=> Present(k))
  BY <1>1, CordonIs DEF SafetyInv, Present
<1>5. Steadied(n)
  BY <1>1, <1>2, <1>3, <1>4, NodeDeliver
<1>6. ASSUME NEW k \in Node \ {n}
      PROVE  Steadied(k)
  <2>1. api'[k] = api[k] /\ cache'[k] = cache[k] /\ watch'[k] = watch[k]
    BY <1>1, <1>2
  <2>2. \A v \in Worker : held'[v].node = k => held[v].node = k /\ Moves(pc[v], pc'[v])
    BY <1>1, <1>3 DEF Moves
  <2> QED BY <1>1, <1>4, <2>1, <2>2, AlikeItself, NodeAside
<1>7. ASSUME NEW v \in Worker
      PROVE  InHand(v)'
  <2>1. InHand(v)
    BY CordonIs
  <2>2. CASE held[v].node = n
    BY <1>1, <1>3, <2>1, <2>2, HandKept
  <2>3. CASE held[v].node # n
    <3>1. pc[v] # "idle" => cache'[held[v].node] = cache[held[v].node]
      BY <1>1, <1>2, <2>3 DEF TypeInv, Pointers
    <3> QED BY <1>1, <1>3, <2>1, <2>3, <3>1, HandKept
  <2> QED BY <2>2, <2>3
<1> QED BY <1>5, <1>6, <1>7 DEF Orderly

LEMMA CordonRestart ==
    ASSUME TypeInv', CordonInv, Restart
    PROVE  Orderly
<1> USE ThreadKinds
<1>1. /\ UNCHANGED <<api, node>> /\ cache' = api
      /\ \A k \in Node : watch'[k] = <<>>
      /\ \A t \in Thread : held'[t] = Nothing /\ pc'[t] = "idle"
  BY DEF Restart, Relist
<1>2. \A k \in Node : Nothing.node # k
  BY StoreAssumption DEF Nothing
<1>3. \A v \in Worker : InHand(v)'
  BY <1>1, HandFree
<1>4. ASSUME NEW k \in Node
      PROVE  Steadied(k)
  <2>1. Recorded(k) /\ (Present(k)' <=> Present(k))
    BY <1>1, CordonIs DEF Present
  <2>2. \A v \in Worker : held'[v].node # k
    BY <1>1, <1>2
  <2>3. ~Unsaved(k)'
    BY <1>1 DEF Unsaved
  <2>4. Recorded(k)'
    BY <1>1, <2>1, <2>2, <2>3 DEF Recorded, OnRecord
  <2>5. Occupied(k)' => Occupied(k)
    BY <1>1, <2>1, <2>2 DEF Occupied, Engaged
  <2> QED BY <2>4, <2>5 DEF Steadied
<1> QED BY <1>3, <1>4 DEF Orderly

LEMMA CordonTick ==
    ASSUME TypeInv, TypeInv', CordonInv, Tick
    PROVE  Orderly
<1>1. /\ UNCHANGED <<held, queue, pc>>
      /\ \A n \in Node :
           /\ api'[n] = Aged(api[n]) /\ cache'[n] = Aged(cache[n])
           /\ watch'[n] = [i \in DOMAIN watch[n] |-> Aged(watch[n][i])]
           /\ node'[n] = AgeNode(node[n])
  BY DEF Tick, AgeReports
<1>2. \A r \in Stored : Alike(Aged(r), r)
  BY AgedKeeps DEF Alike
<1>3. /\ api \in [Node -> Stored] /\ cache \in [Node -> Stored]
      /\ watch \in [Node -> Seq(Stored)] /\ watch' \in [Node -> Seq(Stored)]
      /\ node \in [Node -> NodeRecord]
  BY DEF TypeInv, TypeOK, StoreTypeOK, Stored
<1>4. \A v \in Worker : InHand(v)'
  BY <1>1, <1>2, <1>3, Aloof
<1>5. ASSUME NEW n \in Node
      PROVE  Steadied(n)
  <2>1. node'[n].place = node[n].place /\ node'[n].cordoned = node[n].cordoned
    <3>1. \A m \in NodeRecord : /\ AgeNode(m).place = m.place
                                /\ AgeNode(m).cordoned = m.cordoned
      BY DEF AgeNode, NodeRecord
    <3> QED BY <1>1, <1>3, <3>1
  <2>2. Recorded(n) /\ (Present(n)' <=> Present(n))
    BY <2>1, CordonIs DEF Present
  <2>3. Alike(api'[n], api[n]) /\ Alike(cache'[n], cache[n])
    BY <1>1, <1>2, <1>3
  <2>4. watch'[n] = <<>> <=> watch[n] = <<>>
    BY AgedWatch
  <2>5. /\ Len(watch[n]) \in Nat /\ Len(watch'[n]) \in Nat
        /\ DOMAIN watch[n] = 1 .. Len(watch[n]) /\ DOMAIN watch'[n] = 1 .. Len(watch'[n])
    <3>1. watch[n] \in Seq(Stored) /\ watch'[n] \in Seq(Stored)
      BY <1>3
    <3> QED BY <3>1, LenProperties
  <2>6. Len(watch'[n]) = Len(watch[n])
    <3>1. \A a, b \in Nat : 1 .. a = 1 .. b => a = b
      <4> SUFFICES ASSUME NEW a \in Nat, NEW b \in Nat, 1 .. a = 1 .. b PROVE a = b
        OBVIOUS
      <4>1. a \in 1 .. b \/ a = 0
        OBVIOUS
      <4>2. b \in 1 .. a \/ b = 0
        OBVIOUS
      <4> QED BY <4>1, <4>2
    <3>2. DOMAIN watch'[n] = DOMAIN watch[n]
      BY <1>1
    <3> QED BY <2>5, <3>1, <3>2
  <2>7. watch[n] # <<>> => Alike(watch'[n][1], watch[n][1])
    <3>1. ASSUME watch[n] # <<>>
          PROVE  1 \in DOMAIN watch[n] /\ watch[n][1] \in Stored
      BY <1>3, <2>5, <3>1, EmptySeq, ElementOfSeq
    <3> QED BY <1>1, <1>2, <3>1
  <2>8. \A v \in Worker : held'[v].node = n => held[v].node = n /\ Moves(pc[v], pc'[v])
    BY <1>1 DEF Moves
  <2>9. n \in queue' => n \in queue
    BY <1>1
  <2> QED BY <2>1, <2>2, <2>3, <2>4, <2>6, <2>7, <2>8, <2>9, NodeAside
<1> QED BY <1>4, <1>5 DEF Orderly

LEMMA CordonEnvironment ==
    ASSUME TypeInv, SafetyInv, CordonInv, NEW n \in Node, Environment(n)
    PROVE  Orderly
<1>0. node[n] \in NodeRecord /\ node \in [Node -> NodeRecord]
  BY DEF TypeInv, TypeOK
<1>1. PICK m : /\ World(n, m)
               /\ \/ node[n].place = "absent" /\ m = Fresh("present", 0)
                  \/ /\ m.place = "present" => node[n].place = "present"
                     /\ m.cordoned = node[n].cordoned
  <2> DEFINE Near(m) == /\ m.place = "present" => node[n].place = "present"
                        /\ m.cordoned = node[n].cordoned
  <2>1. CASE Launch(n) \/ ScaleOut(n)
    BY <2>1 DEF Launch, ScaleOut, Joined
  <2>2. CASE Outage(n)
    <3>1. PICK s \in {"False", "Unknown"} : World(n, [node[n] EXCEPT !.ready = s])
      BY <2>2 DEF Outage
    <3>2. Near([node[n] EXCEPT !.ready = s])
      BY <1>0 DEF NodeRecord
    <3> QED BY <3>1, <3>2
  <2>3. /\ Near([node[n] EXCEPT !.ready = "True"])
        /\ Near([node[n] EXCEPT !.boot = "down", !.ready = "False"])
        /\ Near([node[n] EXCEPT !.boot = "steady", !.ready = "True"])
    BY <1>0 DEF NodeRecord
  <2>4. /\ Near([node[n] EXCEPT !.place = "gone"])
        /\ Near([node[n] EXCEPT !.pods = TRUE])
        /\ Near([node[n] EXCEPT !.pods = FALSE])
    BY <1>0 DEF NodeRecord
  <2> HIDE DEF Near
  <2>5. CASE Recover(n) \/ GoesDown(n) \/ ComesUp(n)
    <3>1. \E m : World(n, m) /\ Near(m)
      BY <2>3, <2>5 DEF Recover, GoesDown, ComesUp
    <3> QED BY <3>1 DEF Near
  <2>6. CASE Vanish(n) \/ PodsScheduled(n) \/ TaintEvicts(n)
    <3>1. \E m : World(n, m) /\ Near(m)
      BY <2>4, <2>6 DEF Vanish, PodsScheduled, TaintEvicts
    <3> QED BY <3>1 DEF Near
  <2> QED BY <2>1, <2>2, <2>5, <2>6 DEF Environment
<1>2. /\ UNCHANGED <<api, cache, watch, held, queue, pc>>
      /\ node'[n] = m /\ \A k \in Node \ {n} : node'[k] = node[k]
  BY <1>0, <1>1 DEF World
<1>3. \A v \in Worker : InHand(v)'
  BY <1>2, AlikeItself, Aloof
<1>4. ASSUME NEW k \in Node, Present(k)' => Present(k), node'[k].cordoned = node[k].cordoned
      PROVE  Steadied(k)
  <2>1. Recorded(k)
    BY CordonIs
  <2>2. \A v \in Worker : held'[v].node = k => held[v].node = k /\ Moves(pc[v], pc'[v])
    BY <1>2 DEF Moves
  <2> QED BY <1>2, <1>4, <2>1, <2>2, AlikeItself, NodeAside
<1>5. \A k \in Node \ {n} : Steadied(k)
  BY <1>2, <1>4 DEF Present
<1>6. Steadied(n)
  <2>1. CASE node[n].place = "absent" /\ m = Fresh("present", 0)
    <3>1. NotJoined(n)
      BY DEF SafetyInv
    <3> QED BY <1>2, <2>1, <3>1, NodeJoins
  <2>2. CASE /\ m.place = "present" => node[n].place = "present"
             /\ m.cordoned = node[n].cordoned
    BY <1>2, <1>4, <2>2 DEF Present
  <2> QED BY <1>1, <2>1, <2>2
<1> QED BY <1>3, <1>5, <1>6 DEF Orderly
-----------------------------------------------------------------------------
(* Every step of the specification.                                        *)

LEMMA CordonNext ==
    ASSUME TypeInv, SafetyInv, CordonInv, Sparing, [Next]_vars
    PROVE  Orderly \/ \E w \in Worker, n \in Node : Passing(w, n)
<1>0. TypeInv'
  BY TypeNext
<1>1. CASE \E w \in Worker, n \in Node : Take(w, n)
  BY <1>1, CordonTake
<1>2. ASSUME NEW w \in Worker, Work(w) \/ Fault(w) \/ SelfPod(w)
      PROVE  Orderly
  <2>1. CASE Work(w)
    BY <1>0, <2>1, CordonWork
  <2>2. CASE Fault(w)
    BY <1>0, <2>2, CordonFault
  <2>3. CASE SelfPod(w)
    BY <1>0, <2>3, CordonRestart DEF SelfPod
  <2> QED BY <1>2, <2>1, <2>2, <2>3
<1>3. CASE (\E n \in Node : CleanerFinds(n)) \/ CleanerDeletes \/ CleanerFails
  BY <1>3, CordonCleaner
<1>4. CASE \E n \in Node : EventCreates(n) \/ NodeCreates(n)
  BY <1>4, CordonCreate
<1>5. CASE \E f \in Writer, n \in Node : Write(f, n)
  BY <1>5, CordonWrite
<1>6. CASE \E f \in Writer : WriterSaves(f) \/ WriterDeletes(f)
  BY <1>6, CordonWriterEnds
<1>7. CASE \E n \in Node : Deliver(n)
  BY <1>7, CordonDeliver
<1>8. CASE \E n \in Node : Environment(n)
  BY <1>8, CordonEnvironment
<1>9. CASE Crash
  BY <1>0, <1>9, CordonRestart DEF Crash
<1>10. CASE Tick
  BY <1>0, <1>10, CordonTick
<1>11. CASE EditConfigs \/ UNCHANGED vars
  <2>1. UNCHANGED <<api, cache, watch, held, queue, pc, node>>
    BY <1>11 DEF EditConfigs, vars
  <2> QED BY <2>1, AlikeItself, OthersLeave
<1> QED
  BY <1>1, <1>2, <1>3, <1>4, <1>5, <1>6, <1>7, <1>8, <1>9, <1>10, <1>11 DEF Next

LEMMA CordonInit == Init => CordonInv
<1> SUFFICES ASSUME Init PROVE CordonInv
  OBVIOUS
<1>1. /\ \A n \in Node : /\ api[n] = NoReport /\ cache[n] = NoReport
                         /\ watch[n] = <<>> /\ ~node[n].cordoned
      /\ \A t \in Thread : held[t] = Nothing /\ pc[t] = "idle"
      /\ queue = {}
  BY DEF Init, StoreInit, Fresh
<1>2. \A n \in Node : Nothing.node # n
  BY StoreAssumption DEF Nothing
<1>3. \A n \in Node : OnRecord(n)
  BY <1>1, <1>2, ThreadKinds DEF OnRecord, Unsaved, UnderWay
<1>4. \A w \in Worker : InHand(w)
  BY <1>1, ThreadKinds, WalksAnywhere DEF InHand
<1> QED BY <1>3, <1>4 DEF CordonInv

SparingInv == TypeInv /\ SafetyInv /\ CordonInv

LEMMA SparingInit == Init => SparingInv
BY TypeInit, SafeInit, CordonInit DEF SparingInv

LEMMA SparingNext == SparingInv /\ [Next /\ Sparing]_vars => SparingInv'
<1> SUFFICES ASSUME SparingInv, [Next /\ Sparing]_vars PROVE SparingInv'
  OBVIOUS
<1>1. TypeInv' /\ SafetyInv'
  BY TypeNext, SafeNext DEF SparingInv
<1>2. CASE Next /\ Sparing
  BY <1>1, <1>2, CordonNext, OrderlyMeans DEF SparingInv, Passing
<1>3. CASE UNCHANGED vars
  <2>1. UNCHANGED <<api, cache, watch, held, queue, pc, node>>
    BY <1>3 DEF vars
  <2> QED BY <1>1, <2>1, AlikeItself, OthersLeave, OrderlyMeans DEF SparingInv
<1> QED BY <1>2, <1>3

LEMMA SparingHolds == SparingSpec => []SparingInv
BY SparingInit, SparingNext, PTL DEF SparingSpec

(* As long as no report under way is deleted, what is done to a node is on *)
(* record: where it is cordoned or about to be, the report says so, and no *)
(* edit that is not saved is acted upon (nIRcontroller.go:269-548).        *)
THEOREM CordonsOnRecord == SparingSpec => []CordonInv
BY SparingHolds, PTL DEF SparingInv

(* And so a successor process finds every cordoned node, whichever calls   *)
(* fail and whenever the process dies (nIRcontroller.go:426-548).          *)
THEOREM CordonsAreRemembered == SparingSpec => []CordonRemembered
<1>1. CordonInv => CordonRemembered
  BY DEF CordonInv, OnRecord, UnderWay, CordonRemembered
<1> QED BY <1>1, SparingHolds, PTL DEF SparingInv
-----------------------------------------------------------------------------
(* The limit of a rule.                                                    *)

(* No node bears the labels of two entries: the check of one entry would   *)
(* let a node through that uses up the limit of the other.                 *)
Disjoint ==
    \A c \in ConfigChoices : \A i, j \in DOMAIN c :
        i # j => c[i].nodes \cap c[j].nodes = {}

LEMMA RulesStay ==
    ASSUME [Next]_vars, ~EditConfigs
    PROVE  configs' = configs
<1>1. CASE \E w \in Worker, n \in Node : Take(w, n)
  BY <1>1
     DEF Take, TakeMissing, TakeReport, TakeDrained, TakeNewJoined, TakeDetached,
         TakeReplace, TakeRebooted, TakeReboot, TakeDenied, TakeDryRun, TakeStart,
         TakeUnknownAction, TakeOverflow, TakeQuiet, Begin, Drop
<1>2. CASE \E w \in Worker : Work(w)
  BY <1>2
     DEF Work, Start, Reboot, Detach, DetachRefused, Cordon, EvictOld, EvictReboot,
         ForceCordon, ForceStale, ForceTaint, Uncordon, NodeGone, Notify,
         DeleteNode, DeleteReport, DeletePaged, SelfReport, SelfNodeGone, Save,
         SaveConflict, Proceed, Retry
<1>3. CASE (\E w \in Worker : Fault(w)) \/ CleanerFails
  BY <1>3
     DEF Fault, CallFails, CallLost, SaveFails, DeleteReportFails, SelfCallFails,
         CleanerFails, Retry
<1>4. CASE (\E n \in Node : CleanerFinds(n)) \/ CleanerDeletes
              \/ \E f \in Writer : WriterSaves(f) \/ WriterDeletes(f)
  BY <1>4 DEF CleanerFinds, CleanerDeletes, WriterSaves, WriterDeletes
<1>5. CASE (\E n \in Node : EventCreates(n) \/ NodeCreates(n))
              \/ \E f \in Writer, n \in Node : Write(f, n)
  BY <1>5
     DEF EventCreates, NodeCreates, Create, Write, EventRecorded, StatusRecorded,
         ReplaceRequested, ReportWithdrawn, WriterBegins
<1>6. CASE \E n \in Node : Deliver(n) \/ Environment(n)
  BY <1>6
     DEF Deliver, Environment, Outage, Recover, GoesDown, ComesUp, Launch, ScaleOut,
         Joined, Vanish, PodsScheduled, TaintEvicts, World
<1>7. CASE Crash \/ Tick \/ (\E w \in Worker : SelfPod(w)) \/ UNCHANGED vars
  BY <1>7 DEF Crash, Tick, SelfPod, Restart, vars
<1> QED BY <1>1, <1>2, <1>3, <1>4, <1>5, <1>6, <1>7 DEF Next

LEMMA EntriesAre ==
    ASSUME TypeOK, NEW i \in DOMAIN configs
    PROVE  configs[i] \in Entry /\ i \in Nat
<1>1. configs \in Seq(Entry)
  BY ControllerAssumption DEF TypeOK
<1> QED BY <1>1, ElementOfSeq, LenProperties

LEMMA PolicyIs ==
    ASSUME TypeOK, Disjoint, NEW i \in DOMAIN configs, NEW n \in configs[i].nodes
    PROVE  Policy(n) = configs[i]
<1>1. i \in Nat
  BY EntriesAre
<1>2. \A j \in DOMAIN configs : j # i => n \notin configs[j].nodes
  BY DEF Disjoint, TypeOK
<1>3. Matching(n) = {i}
  BY <1>2 DEF Matching
<1>4. (CHOOSE k \in Matching(n) : \A j \in Matching(n) : k <= j) = i
  <2>1. \A k \in {i} : \A j \in {i} : k <= j
    BY <1>1
  <2>2. (CHOOSE k \in Matching(n) : \A j \in Matching(n) : k <= j) \in Matching(n)
    BY <1>3, <2>1
  <2> QED BY <1>3, <2>2
<1> QED BY <1>3, <1>4 DEF Policy

(* A worker is about one node at a time.                                   *)
LEMMA HeldByWorkers ==
    ASSUME IsFiniteSet(Worker), NEW h, NEW S, \A n \in S : \E w \in Worker : h[w].node = n
    PROVE  IsFiniteSet(S) /\ Cardinality(S) <= Cardinality(Worker)
<1> DEFINE W == {w \in Worker : h[w].node \in S}
           f == [w \in W |-> h[w].node]
<1>1. /\ IsFiniteSet(W) /\ Cardinality(W) <= Cardinality(Worker)
      /\ Cardinality(W) \in Nat /\ Cardinality(Worker) \in Nat
  <2>1. W \in SUBSET Worker
    OBVIOUS
  <2> QED BY <2>1, FS_Subset, FS_CardinalityType
<1>2. f \in Surjection(W, S)
  BY DEF Surjection
<1> HIDE DEF W, f
<1>3. IsFiniteSet(S) /\ Cardinality(S) <= Cardinality(W)
  BY <1>1, <1>2, FS_Surjection
<1>4. Cardinality(S) \in Nat
  BY <1>3, FS_CardinalityType
<1> QED BY <1>1, <1>3, <1>4

(* Whatever is engaged on a node, the cached report says so: it is counted.*)
LEMMA EngagedCounts ==
    ASSUME NEW n \in Node, Recorded(n)', Engaged(n)'
    PROVE  Present(n)' /\ UnderWay(cache'[n])
<1>1. Present(n)' /\ OnRecord(n)'
  BY DEF Engaged, Recorded
<1>2. CASE node'[n].cordoned \/ Early(cache'[n])
  BY <1>1, <1>2 DEF OnRecord, Early, UnderWay
<1>3. CASE Early(api'[n])
  BY <1>1, <1>3 DEF OnRecord, Early, UnderWay
<1>4. CASE \E w \in Worker : held'[w].node = n /\ pc'[w] \in Acting
  BY <1>1, <1>4 DEF OnRecord
<1> QED BY <1>1, <1>2, <1>3, <1>4 DEF Engaged

Occupants(e) == {n \in e.nodes : Occupied(n)}

Within(e) ==
    e.max > 0 => Cardinality(Occupants(e)) <= e.max + Cardinality(Worker) - 1

LEMMA LimitIs == LimitInv <=> \A i \in DOMAIN configs : Within(configs[i])
BY DEF LimitInv, Within, Occupants

(* A step after which no further node is occupied.                         *)
LEMMA WithinKept ==
    ASSUME IsFiniteSet(Node), IsFiniteSet(Worker), NEW e \in Entry, Within(e),
           \A n \in e.nodes : Occupied(n)' => Occupied(n)
    PROVE  Within(e)'
<1>1. /\ e.nodes \in SUBSET Node /\ e.max \in Nat /\ Cardinality(Worker) \in Nat
      /\ Occupants(e) \in SUBSET Node /\ Occupants(e)' \in SUBSET Occupants(e)
  BY FS_CardinalityType DEF Entry, Occupants
<1>2. /\ IsFiniteSet(Occupants(e)) /\ Cardinality(Occupants(e)) \in Nat
      /\ IsFiniteSet(Occupants(e)') /\ Cardinality(Occupants(e)') \in Nat
      /\ Cardinality(Occupants(e)') <= Cardinality(Occupants(e))
  BY <1>1, FS_Subset, FS_CardinalityType
<1> HIDE DEF Occupants
<1>3. (Cardinality(Occupants(e)))' = Cardinality(Occupants(e)')
  OBVIOUS
<1> QED BY <1>1, <1>2, <1>3 DEF Within

(* A step past the check: the check has counted all but those past it.     *)
LEMMA WithinPassing ==
    ASSUME TypeInv, CordonInv', IsFiniteSet(Node), IsFiniteSet(Worker),
           NEW e \in Entry, NEW w \in Worker, NEW n \in Node, Policy(n) = e,
           TakeStart(w, n)
    PROVE  Within(e)'
<1> DEFINE A == ActiveUnder(e)
           G == {k \in e.nodes : Engaged(k)'}
           S == {k \in e.nodes : \E v \in Worker : held'[v].node = k /\ pc'[v] \in Starts}
<1>1. UNCHANGED <<cache, node>>
  <2>1. \E l : Begin(w, n, cache[n], l)
    BY DEF TakeStart
  <2> QED BY <2>1 DEF Begin, TypeInv, TypeOK, StoreTypeOK
<1>2. G \in SUBSET A
  <2>1. ASSUME NEW k \in G
        PROVE  k \in A
    <3>1. k \in Node /\ k \in e.nodes /\ Engaged(k)' /\ Recorded(k)'
      BY <2>1 DEF Entry, CordonInv, Recorded
    <3>2. Present(k)' /\ UnderWay(cache'[k])
      BY <3>1, EngagedCounts
    <3> QED BY <1>1, <3>1, <3>2 DEF Present, UnderWay, ActiveUnder
  <2> QED BY <2>1
<1>3. IsFiniteSet(A) /\ Cardinality(A) \in Nat
  <2>1. A \in SUBSET Node
    BY DEF ActiveUnder
  <2> QED BY <2>1, FS_Subset, FS_CardinalityType
<1>4. IsFiniteSet(G) /\ Cardinality(G) \in Nat /\ Cardinality(G) <= Cardinality(A)
  <2> HIDE DEF G, A
  <2> QED BY <1>2, <1>3, FS_Subset, FS_CardinalityType
<1>5. IsFiniteSet(S) /\ Cardinality(S) \in Nat /\ Cardinality(S) <= Cardinality(Worker)
  <2>1. \A k \in S : \E v \in Worker : held'[v].node = k
    OBVIOUS
  <2> HIDE DEF S
  <2>2. IsFiniteSet(S) /\ Cardinality(S) <= Cardinality(Worker)
    BY <2>1, HeldByWorkers
  <2> QED BY <2>2, FS_CardinalityType
<1>6. Occupants(e)' = G \cup S
  BY DEF Occupants, Occupied
<1>7. e.max \in Nat /\ e # NoEntry /\ Cardinality(Worker) \in Nat
  BY FS_CardinalityType, ControllerAssumption DEF Entry
<1>8. e.max > 0 => Cardinality(A) < e.max
  <2>1. ~AtLimit(n)
    BY DEF TakeStart
  <2> HIDE DEF A
  <2>2. e.max > 0 => ~(Cardinality(ActiveUnder(e)) >= e.max)
    BY <1>7, <2>1 DEF AtLimit
  <2> QED BY <1>3, <1>7, <2>2 DEF A
<1> HIDE DEF A, G, S
<1>9. /\ Cardinality(G \cup S) \in Nat /\ Cardinality(G \cap S) \in Nat
      /\ Cardinality(G \cup S) = Cardinality(G) + Cardinality(S) - Cardinality(G \cap S)
  <2>1. G \cap S \in SUBSET G
    OBVIOUS
  <2>2. IsFiniteSet(G \cap S) /\ IsFiniteSet(G \cup S)
    BY <1>4, <1>5, <2>1, FS_Subset, FS_Union
  <2> QED BY <1>4, <1>5, <2>2, FS_Union, FS_CardinalityType
<1>10. e.max > 0 => Cardinality(G \cup S) <= e.max + Cardinality(Worker) - 1
  BY <1>3, <1>4, <1>5, <1>7, <1>8, <1>9
<1> QED BY <1>6, <1>10 DEF Within

LimitedInv == SparingInv /\ LimitInv /\ budget["edits"] = 0

LEMMA LimitedInit ==
    ASSUME Budget["edits"] = 0, IsFiniteSet(Worker)
    PROVE  Init => LimitedInv
<1> SUFFICES ASSUME Init PROVE LimitedInv
  OBVIOUS
<1>1. SparingInv /\ budget["edits"] = 0
  BY SparingInit DEF Init
<1>2. \A n \in Node : ~Occupied(n)
  <2>1. /\ \A n \in Node : api[n] = NoReport /\ cache[n] = NoReport /\ ~node[n].cordoned
        /\ \A t \in Thread : held[t] = Nothing
    BY DEF Init, StoreInit, Fresh
  <2>2. \A n \in Node : Nothing.node # n
    BY StoreAssumption DEF Nothing
  <2> QED BY <2>1, <2>2, ThreadKinds DEF Occupied, Engaged, Early
<1>3. ASSUME NEW i \in DOMAIN configs
      PROVE  Within(configs[i])
  <2>1. PICK e \in Entry : e = configs[i]
    BY <1>1, EntriesAre DEF SparingInv, TypeInv
  <2>2. Occupants(e) = {} /\ e.max \in Nat
    BY <1>2 DEF Occupants, Entry
  <2>3. Cardinality(Occupants(e)) = 0 /\ Cardinality(Worker) \in Nat
    BY <2>2, FS_EmptySet, FS_CardinalityType
  <2> QED BY <2>1, <2>2, <2>3 DEF Within
<1> QED BY <1>1, <1>3, LimitIs DEF LimitedInv

LEMMA LimitedNext ==
    ASSUME Disjoint, IsFiniteSet(Node), IsFiniteSet(Worker)
    PROVE  LimitedInv /\ [Next /\ Sparing]_vars => LimitedInv'
<1> SUFFICES ASSUME LimitedInv, [Next /\ Sparing]_vars PROVE LimitedInv'
  OBVIOUS
<1>1. SparingInv' /\ [Next]_vars /\ TypeInv /\ TypeOK
  BY SparingNext DEF LimitedInv, SparingInv, TypeInv
<1>2. budget'["edits"] = 0 /\ ~EditConfigs
  BY <1>1, NothingLeft DEF LimitedInv, Disturbance, EditConfigs
<1>3. configs' = configs
  BY <1>1, <1>2, RulesStay
<1>4. Orderly \/ \E w \in Worker, n \in Node : Passing(w, n)
  <2>1. CASE Next /\ Sparing
    BY <2>1, CordonNext DEF LimitedInv, SparingInv
  <2>2. CASE UNCHANGED vars
    <3>1. UNCHANGED <<api, cache, watch, held, queue, pc, node>>
      BY <2>2 DEF vars
    <3> QED BY <3>1, AlikeItself, OthersLeave DEF LimitedInv, SparingInv
  <2> QED BY <2>1, <2>2
<1>5. ASSUME NEW i \in DOMAIN configs
      PROVE  Within(configs[i])'
  <2>1. PICK e \in Entry : e = configs[i]
    BY <1>1, EntriesAre
  <2>2. Within(e) /\ e.nodes \subseteq Node
    BY <2>1, LimitIs DEF LimitedInv, Entry
  <2>3. ASSUME Orderly
        PROVE  Within(e)'
    BY <2>2, <2>3, OrderlyMeans, WithinKept
  <2>4. ASSUME NEW w \in Worker, NEW n \in Node, Passing(w, n)
        PROVE  Within(e)'
    <3>1. CASE n \in e.nodes
      BY <1>1, <2>1, <2>4, <3>1, PolicyIs, WithinPassing DEF Passing
    <3>2. CASE n \notin e.nodes
      <4>1. \A k \in e.nodes : Occupied(k)' => Occupied(k)
        BY <2>2, <2>4, <3>2 DEF Passing, Steadied
      <4> QED BY <2>2, <4>1, WithinKept
    <3> QED BY <3>1, <3>2
  <2>5. Within(e)'
    BY <1>4, <2>3, <2>4
  <2> QED BY <1>3, <2>1, <2>5 DEF Within, Occupants
<1>6. (\A i \in DOMAIN configs : Within(configs[i]))'
  BY <1>3, <1>5
<1>7. LimitInv'
  BY <1>3, <1>6 DEF LimitInv, Within, Occupants
<1> QED BY <1>1, <1>2, <1>7 DEF LimitedInv

(* Whoever has passed the check of a limit, or is on the way out of        *)
(* service because of it, is one of the nodes the check counts or one that *)
(* a worker holds: so many the limit may be exceeded by, less the one that *)
(* is allowed (nIRcontroller.go:600-648).                                  *)
THEOREM LimitHolds ==
    ASSUME Budget["edits"] = 0, Disjoint, IsFiniteSet(Node), IsFiniteSet(Worker)
    PROVE  SparingSpec => []LimitInv
<1>1. LimitedInv => LimitInv
  BY DEF LimitedInv
<1> QED BY <1>1, LimitedInit, LimitedNext, PTL DEF SparingSpec

(* While the rules stay and no report under way is deleted, never more     *)
(* nodes of an entry are cordoned than maxConcurrentActions, and one for   *)
(* each worker but the first (toleranceconfig_types.go:77-79).             *)
THEOREM LimitIsOvershotBySoMany ==
    ASSUME Budget["edits"] = 0, Disjoint, IsFiniteSet(Node), IsFiniteSet(Worker)
    PROVE  SparingSpec => []LimitOvershoot
<1>1. LimitedInv => LimitOvershoot
  <2> SUFFICES ASSUME LimitedInv, NEW i \in DOMAIN configs, configs[i].max > 0
               PROVE  Cardinality(Disrupted(configs[i]))
                         <= configs[i].max + Cardinality(Worker) - 1
    BY DEF LimitOvershoot
  <2>1. PICK e \in Entry : e = configs[i]
    BY EntriesAre DEF LimitedInv, SparingInv, TypeInv
  <2>2. /\ Occupants(e) \in SUBSET Node /\ Disrupted(e) \in SUBSET Occupants(e)
        /\ e.max \in Nat /\ Cardinality(Worker) \in Nat
    BY FS_CardinalityType DEF Occupants, Disrupted, Occupied, Engaged, Entry
  <2>3. /\ Cardinality(Occupants(e)) \in Nat /\ Cardinality(Disrupted(e)) \in Nat
        /\ Cardinality(Disrupted(e)) <= Cardinality(Occupants(e))
    BY <2>2, FS_Subset, FS_CardinalityType
  <2>4. Cardinality(Occupants(e)) <= e.max + Cardinality(Worker) - 1
    BY <2>1, LimitIs DEF LimitedInv, Within
  <2> QED BY <2>1, <2>2, <2>3, <2>4
<1> QED BY <1>1, LimitedInit, LimitedNext, PTL DEF SparingSpec
=============================================================================
